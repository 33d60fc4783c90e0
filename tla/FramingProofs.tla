---------------------------- MODULE FramingProofs ----------------------------
(***************************************************************************)
(* A frame in, an answer out, for all messages, any length of a block, any *)
(* bytes that the serial port rewrites, any sizes of chunks and buffers,   *)
(* and any number of frames and of frames cut short.                       *)
(***************************************************************************)
EXTENDS Framing, HeightsProofs, SequenceTheorems

NonZero == Byte \ {0}

-----------------------------------------------------------------------------
(* Sequences.                                                              *)

(* A prefix, one longer.                                                   *)
LEMMA PrefixGrows ==
  ASSUME NEW S, NEW s \in Seq(S), NEW n \in 1..Len(s)
  PROVE  /\ SubSeq(s, 1, n) = Append(SubSeq(s, 1, n - 1), s[n])
         /\ SubSeq(s, 1, n - 1) \in Seq(S)
         /\ s[n] \in S
<1>1. n - 1 \in 0..Len(s) /\ n \in 0..Len(s) /\ 1..(n - 1) \subseteq 1..Len(s)
  OBVIOUS
<1>2. /\ SubSeq(s, 1, n) \in Seq(S) /\ SubSeq(s, 1, n - 1) \in Seq(S)
      /\ Len(SubSeq(s, 1, n)) = n /\ Len(SubSeq(s, 1, n - 1)) = n - 1
  BY <1>1
<1>3. SubSeq(s, 1, n) = Append(SubSeq(s, 1, n - 1), s[n])
  BY <1>1, <1>2
<1>. QED
  BY <1>2, <1>3

LEMMA AppendConcat ==
  ASSUME NEW s \in Seq(Byte), NEW t \in Seq(Byte), NEW x \in Byte
  PROVE  Append(s \o t, x) = s \o Append(t, x)
OBVIOUS

(* Bytes that hold no zero.                                                *)
LEMMA NoZero ==
  ASSUME NEW s \in Seq(Byte), \A i \in 1..Len(s) : s[i] # 0
  PROVE  s \in Seq(NonZero)
BY DEF NonZero

-----------------------------------------------------------------------------
(* The decoder.                                                            *)
DecoderState == [out : Seq(Byte), left : Nat, zero : BOOLEAN]

LEMMA NewDecoderIs == NewDecoder \in DecoderState
BY DEF NewDecoder, DecoderState

(* A byte lengthens what has been decoded by one at most.                  *)
LEMMA FeedIs ==
  ASSUME NEW d \in DecoderState, NEW b \in NonZero
  PROVE  /\ Feed(d, b) \in DecoderState
         /\ Len(Feed(d, b).out) <= Len(d.out) + 1
<1>1. /\ d.out \in Seq(Byte) /\ d.left \in Nat /\ d.zero \in BOOLEAN
      /\ d = [out |-> d.out, left |-> d.left, zero |-> d.zero]
  BY DEF DecoderState
<1>2. 0 \in Byte /\ b \in Byte /\ b - 1 \in Nat /\ (b <= MaxRun) \in BOOLEAN
  BY FramingAssumption DEF Byte, NonZero
<1>3. Pending(d) \in Seq(Byte) /\ Len(Pending(d)) <= Len(d.out) + 1
  BY <1>1, <1>2 DEF Pending
<1>4. CASE d.left = 0
  <2>1. Feed(d, b) = [out |-> Pending(d), left |-> b - 1, zero |-> b <= MaxRun]
    BY <1>4 DEF Feed
  <2>. QED
    BY <1>2, <1>3, <2>1 DEF DecoderState
<1>5. CASE d.left # 0
  <2>1. Feed(d, b) = [out |-> Append(d.out, b), left |-> d.left - 1, zero |-> d.zero]
    BY <1>1, <1>5 DEF Feed, DecoderState
  <2>2. d.left - 1 \in Nat /\ Append(d.out, b) \in Seq(Byte)
        /\ Len(Append(d.out, b)) = Len(d.out) + 1
    BY <1>1, <1>2, <1>5
  <2>. QED
    BY <1>1, <2>1, <2>2 DEF DecoderState
<1>. QED
  BY <1>4, <1>5

(* The bytes fed to a new decoder, one after the other.                    *)
IsPush(f, s) ==
  /\ f \in [0..Len(s) -> DecoderState]
  /\ f[0] = NewDecoder
  /\ \A n \in 1..Len(s) : f[n] = Feed(f[n - 1], s[n])

LEMMA PushLoop ==
  ASSUME NEW s \in Seq(NonZero)
  PROVE  \E f : IsPush(f, s) /\ Push(s) = f[Len(s)]
<1>. DEFINE step == [x \in DecoderState \X (1..Len(s)) |-> Feed(x[1], s[x[2]])]
            F(f) == [n \in 0..Len(s) |->
                       IF n = 0 THEN NewDecoder ELSE Feed(f[n - 1], s[n])]
<1>1. Len(s) \in Nat /\ \A n \in 1..Len(s) : s[n] \in NonZero
  OBVIOUS
<1>2. step \in [DecoderState \X (1..Len(s)) -> DecoderState]
  BY <1>1, FeedIs
<1>3. \A d \in DecoderState, n \in 1..Len(s) : step[<<d, n>>] = Feed(d, s[n])
  OBVIOUS
<1>. HIDE DEF step
<1>4. PICK f \in [0..Len(s) -> DecoderState] : IsLoop(f, Len(s), NewDecoder, step)
  BY <1>1, <1>2, NewDecoderIs, LoopExists
<1>5. f = F(f)
  <2>1. \A n \in 0..Len(s) :
          (IF n = 0 THEN NewDecoder ELSE step[<<f[n - 1], n>>])
            = (IF n = 0 THEN NewDecoder ELSE Feed(f[n - 1], s[n]))
    <3>. TAKE n \in 0..Len(s)
    <3>1. CASE n = 0
      BY <3>1
    <3>2. CASE n # 0
      <4>1. n \in 1..Len(s) /\ f[n - 1] \in DecoderState
        BY <1>1, <3>2
      <4>. QED
        BY <1>3, <3>2, <4>1
    <3>. QED
      BY <3>1, <3>2
  <2>. QED
    BY <1>4, <2>1 DEF IsLoop
<1>. DEFINE g == CHOOSE h : h = F(h)
<1>6. g = F(g)
  BY <1>5
<1>7. Push(s) = g[Len(s)]
  BY DEF Push
<1>. HIDE DEF g
<1>8. /\ DOMAIN g = 0..Len(s) /\ g[0] = NewDecoder
      /\ \A n \in 1..Len(s) : g[n] = Feed(g[n - 1], s[n])
  BY <1>1, <1>6
<1>9. \A n \in 0..Len(s) : g[n] \in DecoderState
  <2>. DEFINE S == {n \in 0..Len(s) : g[n] \in DecoderState}
  <2>1. 0 \in S
    BY <1>1, <1>8, NewDecoderIs
  <2>2. ASSUME NEW n \in 1..Len(s), n - 1 \in S
        PROVE  n \in S
    <3>1. g[n - 1] \in DecoderState /\ s[n] \in NonZero
      BY <1>1, <2>2
    <3>2. Feed(g[n - 1], s[n]) \in DecoderState
      BY <3>1, FeedIs
    <3>3. g[n] \in DecoderState
      BY <1>8, <3>2
    <3>4. n \in 0..Len(s)
      BY <1>1
    <3>. QED
      BY <3>3, <3>4
  <2>. HIDE DEF S
  <2>3. \A n \in 0..Len(s) : n \in S
    BY <1>1, <2>1, <2>2, LoopInduction
  <2>. QED
    BY <2>3 DEF S
<1>10. g \in [0..Len(s) -> DecoderState]
  BY <1>6, <1>9
<1>. QED
  BY <1>7, <1>8, <1>10 DEF IsPush

LEMMA PushIs ==
  /\ Push(<<>>) = NewDecoder
  /\ \A s \in Seq(NonZero) : Push(s) \in DecoderState
  /\ \A s \in Seq(NonZero), b \in NonZero : Push(Append(s, b)) = Feed(Push(s), b)
<1>1. Push(<<>>) = NewDecoder
  <2>1. <<>> \in Seq(NonZero) /\ Len(<<>>) = 0
    OBVIOUS
  <2>2. PICK f : IsPush(f, <<>>) /\ Push(<<>>) = f[Len(<<>>)]
    BY <2>1, PushLoop
  <2>. QED
    BY <2>1, <2>2 DEF IsPush
<1>2. ASSUME NEW s \in Seq(NonZero)
      PROVE  Push(s) \in DecoderState
  <2>1. PICK f : IsPush(f, s) /\ Push(s) = f[Len(s)]
    BY PushLoop
  <2>2. Len(s) \in 0..Len(s)
    OBVIOUS
  <2>. QED
    BY <2>1, <2>2 DEF IsPush
<1>3. ASSUME NEW s \in Seq(NonZero), NEW b \in NonZero
      PROVE  Push(Append(s, b)) = Feed(Push(s), b)
  <2>. DEFINE t == Append(s, b)
  <2>1. /\ t \in Seq(NonZero) /\ Len(t) = Len(s) + 1 /\ Len(s) \in Nat
        /\ \A n \in 1..Len(s) : t[n] = s[n]
        /\ t[Len(s) + 1] = b
    OBVIOUS
  <2>. HIDE DEF t
  <2>2. PICK f : IsPush(f, t) /\ Push(t) = f[Len(t)]
    BY <2>1, PushLoop
  <2>3. PICK g : IsPush(g, s) /\ Push(s) = g[Len(s)]
    BY PushLoop
  <2>. DEFINE S == {n \in 0..Len(s) : f[n] = g[n]}
  <2>4. 0 \in S
    BY <2>1, <2>2, <2>3 DEF IsPush
  <2>5. ASSUME NEW n \in 1..Len(s), n - 1 \in S
        PROVE  n \in S
    <3>1. f[n] = Feed(f[n - 1], t[n]) /\ g[n] = Feed(g[n - 1], s[n])
      BY <2>1, <2>2, <2>3 DEF IsPush
    <3>. QED
      BY <2>1, <2>5, <3>1
  <2>. HIDE DEF S
  <2>6. \A n \in 0..Len(s) : n \in S
    BY <2>1, <2>4, <2>5, LoopInduction
  <2>7. f[Len(s)] = g[Len(s)]
    BY <2>1, <2>6 DEF S
  <2>8. f[Len(s) + 1] = Feed(f[Len(s)], t[Len(s) + 1])
    <3>1. Len(s) + 1 \in 1..Len(t) /\ (Len(s) + 1) - 1 = Len(s)
      BY <2>1
    <3>2. \A n \in 1..Len(t) : f[n] = Feed(f[n - 1], t[n])
      BY <2>2 DEF IsPush
    <3>. QED
      BY <3>1, <3>2
  <2>9. Push(t) = Feed(Push(s), b)
    BY <2>1, <2>2, <2>3, <2>7, <2>8
  <2>. QED
    BY <2>9 DEF t
<1>. QED
  BY <1>1, <1>2, <1>3

-----------------------------------------------------------------------------
(* What the decoder makes of a block: the zero of the block before it, and *)
(* its bytes.                                                              *)
Block(s, run) == s \o (<<Len(run) + 1>> \o run)

LEMMA BlockIs ==
  ASSUME NEW s \in Seq(NonZero), NEW run \in Seq(NonZero), Len(run) <= MaxRun
  PROVE  Block(s, run) \in Seq(NonZero)
<1>1. Len(run) + 1 \in NonZero
  BY FramingAssumption DEF NonZero, Byte
<1>2. <<Len(run) + 1>> \o run \in Seq(NonZero)
  BY <1>1
<1>. QED
  BY <1>2 DEF Block

(* The block as far as n of its bytes.                                     *)
Begun(s, run, n) == (s \o <<Len(run) + 1>>) \o SubSeq(run, 1, n)

LEMMA BegunIs ==
  ASSUME NEW s \in Seq(NonZero), NEW run \in Seq(NonZero), Len(run) <= MaxRun
  PROVE  /\ Begun(s, run, 0) = Append(s, Len(run) + 1)
         /\ Len(run) + 1 \in NonZero
         /\ \A n \in 0..Len(run) : Begun(s, run, n) \in Seq(NonZero)
         /\ \A n \in 1..Len(run) :
              Begun(s, run, n) = Append(Begun(s, run, n - 1), run[n])
         /\ Begun(s, run, Len(run)) = Block(s, run)
<1>1. Len(run) + 1 \in NonZero /\ Len(run) \in Nat
  BY FramingAssumption DEF NonZero, Byte
<1>. DEFINE h == s \o <<Len(run) + 1>>
<1>2. h \in Seq(NonZero) /\ h = Append(s, Len(run) + 1)
  BY <1>1
<1>3. \A n : Begun(s, run, n) = h \o SubSeq(run, 1, n)
  BY DEF Begun
<1>4. Block(s, run) = h \o run
  <2>1. <<Len(run) + 1>> \in Seq(NonZero)
    BY <1>1
  <2>. QED
    BY <2>1, ConcatAssociative DEF Block
<1>. HIDE DEF h
<1>5. SubSeq(run, 1, 0) = <<>> /\ SubSeq(run, 1, Len(run)) = run
  OBVIOUS
<1>6. \A n \in 0..Len(run) : SubSeq(run, 1, n) \in Seq(NonZero)
  OBVIOUS
<1>7. ASSUME NEW n \in 1..Len(run)
      PROVE  Begun(s, run, n) = Append(Begun(s, run, n - 1), run[n])
  <2>. DEFINE p == SubSeq(run, 1, n - 1)
  <2>1. /\ SubSeq(run, 1, n) = Append(p, run[n])
        /\ p \in Seq(NonZero) /\ run[n] \in NonZero
    BY PrefixGrows
  <2>2. Begun(s, run, n - 1) = h \o p
    BY <1>3
  <2>. HIDE DEF p
  <2>3. h \o Append(p, run[n]) = Append(h \o p, run[n])
    BY <1>2, <2>1
  <2>. QED
    BY <1>3, <2>1, <2>2, <2>3
<1>8. h \o <<>> = h
  BY <1>2
<1>9. \A n \in 0..Len(run) : Begun(s, run, n) \in Seq(NonZero)
  <2>. TAKE n \in 0..Len(run)
  <2>. DEFINE p == SubSeq(run, 1, n)
  <2>1. Begun(s, run, n) = h \o p /\ p \in Seq(NonZero)
    BY <1>3, <1>6
  <2>. HIDE DEF p
  <2>. QED
    BY <1>2, <2>1
<1>. QED
  BY <1>1, <1>2, <1>3, <1>4, <1>5, <1>7, <1>8, <1>9

LEMMA BlockDecoded ==
  ASSUME NEW s \in Seq(NonZero), NEW run \in Seq(NonZero), Len(run) <= MaxRun,
         Push(s).left = 0
  PROVE  Push(Block(s, run)) =
           [out |-> Pending(Push(s)) \o run, left |-> 0, zero |-> Len(run) + 1 <= MaxRun]
<1>. DEFINE d == Push(s)
            z == Len(run) + 1 <= MaxRun
            D(n) == [out |-> Pending(d) \o SubSeq(run, 1, n), left |-> Len(run) - n,
                     zero |-> z]
            S == {n \in 0..Len(run) : Push(Begun(s, run, n)) = D(n)}
<1>1. d \in DecoderState /\ d.left = 0 /\ Len(run) \in Nat
  BY PushIs
<1>. HIDE DEF d
<1>2. 0 \in Byte /\ NonZero \subseteq Byte
  BY FramingAssumption DEF Byte, NonZero
<1>3. Pending(d) \in Seq(Byte) /\ run \in Seq(Byte)
  BY <1>1, <1>2 DEF Pending, DecoderState
<1>4. 0 \in S
  <2>1. Push(Begun(s, run, 0)) = Feed(d, Len(run) + 1)
    BY BegunIs, PushIs DEF d
  <2>2. Feed(d, Len(run) + 1)
          = [out |-> Pending(d), left |-> (Len(run) + 1) - 1, zero |-> z]
    BY <1>1 DEF Feed
  <2>3. Pending(d) \o SubSeq(run, 1, 0) = Pending(d)
    BY <1>3
  <2>4. (Len(run) + 1) - 1 = Len(run) - 0
    BY <1>1
  <2>. QED
    BY <1>1, <2>1, <2>2, <2>3, <2>4
<1>5. ASSUME NEW n \in 1..Len(run), n - 1 \in S
      PROVE  n \in S
  <2>. DEFINE p == SubSeq(run, 1, n - 1)
              o == Pending(d) \o p
  <2>1. /\ SubSeq(run, 1, n) = Append(p, run[n])
        /\ p \in Seq(Byte) /\ run[n] \in Byte /\ run[n] \in NonZero
    BY <1>2, <1>3, PrefixGrows
  <2>2. Begun(s, run, n - 1) \in Seq(NonZero)
    <3>1. n - 1 \in 0..Len(run)
      BY <1>1
    <3>. QED
      BY <3>1, BegunIs
  <2>3. Begun(s, run, n) = Append(Begun(s, run, n - 1), run[n])
    BY BegunIs
  <2>4. Push(Begun(s, run, n)) = Feed(D(n - 1), run[n])
    BY <1>5, <2>1, <2>2, <2>3, PushIs
  <2>5. D(n - 1) = [out |-> o, left |-> Len(run) - (n - 1), zero |-> z]
    OBVIOUS
  <2>6. Len(run) - (n - 1) # 0 /\ (Len(run) - (n - 1)) - 1 = Len(run) - n
    BY <1>1
  <2>7. Feed(D(n - 1), run[n])
          = [out |-> Append(o, run[n]), left |-> Len(run) - n, zero |-> z]
    <3>. HIDE DEF o, z
    <3>. QED
      BY <2>5, <2>6 DEF Feed
  <2>8. Append(o, run[n]) = Pending(d) \o Append(p, run[n])
    <3>. HIDE DEF p
    <3>1. \A x \in Seq(Byte), y \in Seq(Byte), c \in Byte :
            Append(x \o y, c) = x \o Append(y, c)
      BY AppendConcat
    <3>. QED
      BY <1>3, <2>1, <3>1
  <2>9. D(n) = [out |-> Append(o, run[n]), left |-> Len(run) - n, zero |-> z]
    BY <2>1, <2>8
  <2>10. Push(Begun(s, run, n)) = D(n) /\ n \in 0..Len(run)
    BY <1>1, <2>4, <2>7, <2>9
  <2>. QED
    BY <2>10
<1>6. Len(run) \in S
  <2>. HIDE DEF S
  <2>1. \A n \in 0..Len(run) : n \in S
    BY <1>1, <1>4, <1>5, LoopInduction
  <2>. QED
    BY <1>1, <2>1
<1>7. SubSeq(run, 1, Len(run)) = run /\ Len(run) - Len(run) = 0
  BY <1>1
<1>8. Push(Block(s, run)) = D(Len(run))
  BY <1>6, BegunIs
<1>. QED
  BY <1>7, <1>8 DEF d

-----------------------------------------------------------------------------
(* The encoder.  After the bytes s of a message, the blocks that are done  *)
(* and the bytes of the one that is not decode to s.                       *)
EncoderState ==
  [done : Seq(NonZero), run : {r \in Seq(NonZero) : Len(r) < MaxRun}]

Encodes(e, s) ==
  /\ e \in EncoderState
  /\ Push(e.done).left = 0
  /\ Pending(Push(e.done)) \o e.run = s

LEMMA EncoderStateIs ==
  ASSUME NEW e \in EncoderState
  PROVE  /\ e.done \in Seq(NonZero) /\ e.run \in Seq(NonZero) /\ Len(e.run) < MaxRun
         /\ Len(e.run) \in Nat
         /\ e = [done |-> e.done, run |-> e.run]
BY DEF EncoderState

LEMMA CloseBlockIs ==
  ASSUME NEW e, NEW r, e.run = r
  PROVE  CloseBlock(e) = [done |-> e.done \o <<Len(r) + 1>> \o r, run |-> <<>>]
BY DEF CloseBlock

(* A block that is closed, with the bytes of r.                            *)
Closes(done, r) ==
  /\ CloseBlock([done |-> done, run |-> r]) = [done |-> Block(done, r), run |-> <<>>]
  /\ Block(done, r) \in Seq(NonZero)
  /\ Push(Block(done, r)).left = 0
  /\ Push(Block(done, r)).out = Pending(Push(done)) \o r
  /\ Len(r) < MaxRun => Push(Block(done, r)).zero = TRUE
  /\ Len(r) = MaxRun => Push(Block(done, r)).zero = FALSE

LEMMA ClosedIs ==
  ASSUME NEW done \in Seq(NonZero), NEW r \in Seq(NonZero), Len(r) <= MaxRun,
         Push(done).left = 0
  PROVE  Closes(done, r)
<1>. DEFINE e == [done |-> done, run |-> r]
<1>1. e.done = done /\ e.run = r
  OBVIOUS
<1>2. Len(r) + 1 \in NonZero
  BY FramingAssumption DEF NonZero, Byte
<1>3. done \o <<Len(r) + 1>> \o r = Block(done, r)
  <2>1. <<Len(r) + 1>> \in Seq(NonZero)
    BY <1>2
  <2>. QED
    BY <2>1, ConcatAssociative DEF Block
<1>4. CloseBlock(e) = [done |-> Block(done, r), run |-> <<>>]
  BY <1>1, <1>3, CloseBlockIs
<1>5. Push(Block(done, r)) =
        [out |-> Pending(Push(done)) \o r, left |-> 0, zero |-> Len(r) + 1 <= MaxRun]
  BY BlockDecoded
<1>6. Block(done, r) \in Seq(NonZero)
  BY BlockIs
<1>7. /\ Len(r) < MaxRun => (Len(r) + 1 <= MaxRun) = TRUE
      /\ Len(r) = MaxRun => (Len(r) + 1 <= MaxRun) = FALSE
  BY FramingAssumption
<1>8. Push(Block(done, r)).zero = (Len(r) + 1 <= MaxRun)
  BY <1>5
<1>9. Len(r) < MaxRun => Push(Block(done, r)).zero = TRUE
  BY <1>7, <1>8, Zenon
<1>10. Len(r) = MaxRun => Push(Block(done, r)).zero = FALSE
  BY <1>7, <1>8, Zenon
<1>. QED
  BY <1>4, <1>5, <1>6, <1>9, <1>10 DEF Closes

LEMMA PendingIs ==
  ASSUME NEW s \in Seq(NonZero)
  PROVE  Pending(Push(s)) \in Seq(Byte) /\ Push(s).out \in Seq(Byte)
<1>1. Push(s) \in DecoderState /\ 0 \in Byte
  BY PushIs, FramingAssumption DEF Byte
<1>. QED
  BY <1>1 DEF Pending, DecoderState

LEMMA LongerIs ==
  ASSUME NEW e \in EncoderState, NEW b
  PROVE  [e EXCEPT !.run = Append(@, b)]
           = [done |-> e.done, run |-> Append(e.run, b)]
<1>. DEFINE x == Append(e.run, b)
            N == Seq(NonZero)
<1>1. e \in [done : N, run : N]
  BY DEF EncoderState
<1>. HIDE DEF x, N
<1>2. [e EXCEPT !.run = x] = [done |-> e.done, run |-> x]
  BY <1>1
<1>. QED
  BY <1>2 DEF x

LEMMA EncodeByteEncodes ==
  ASSUME NEW e, NEW s \in Seq(Byte), NEW b \in Byte, Encodes(e, s)
  PROVE  Encodes(EncodeByte(e, b), Append(s, b))
<1>. DEFINE longer == Append(e.run, b)
            p == Pending(Push(e.done))
<1>0. /\ e.done \in Seq(NonZero) /\ e.run \in Seq(NonZero) /\ Len(e.run) < MaxRun
      /\ Len(e.run) \in Nat /\ MaxRun \in Nat
      /\ e = [done |-> e.done, run |-> e.run]
      /\ Push(e.done).left = 0 /\ s = p \o e.run
  BY EncoderStateIs, FramingAssumption DEF Encodes
<1>1. /\ NonZero \subseteq Byte /\ <<>> \in Seq(NonZero) /\ Len(<<>>) = 0 /\ 0 < MaxRun
      /\ p \in Seq(Byte) /\ e.run \in Seq(Byte)
  BY <1>0, PendingIs, FramingAssumption DEF NonZero
<1>2. CASE b = 0
  <2>. DEFINE c == Block(e.done, e.run)
              l == [done |-> e.done, run |-> e.run]
  <2>0. Len(e.run) <= MaxRun /\ e = l
    BY <1>0
  <2>1. /\ CloseBlock(l) = [done |-> c, run |-> <<>>]
        /\ c \in Seq(NonZero)
        /\ Push(c).left = 0 /\ Push(c).out = p \o e.run
        /\ Push(c).zero = TRUE
    <3>1. Closes(e.done, e.run)
      BY <1>0, <2>0, ClosedIs
    <3>. QED
      BY <1>0, <3>1 DEF Closes
  <2>. HIDE DEF c, l
  <2>2. EncodeByte(e, b) = [done |-> c, run |-> <<>>]
    BY <1>2, <2>0, <2>1 DEF EncodeByte
  <2>3. Pending(Push(c)) = Append(s, 0)
    BY <1>0, <2>1 DEF Pending
  <2>4. Pending(Push(c)) \o <<>> = Append(s, b)
    BY <1>2, <2>3
  <2>. QED
    BY <1>1, <2>1, <2>2, <2>4 DEF Encodes, EncoderState
<1>3. CASE b # 0
  <2>1. /\ b \in NonZero /\ longer \in Seq(NonZero) /\ Len(longer) = Len(e.run) + 1
        /\ Len(longer) <= MaxRun
    BY <1>0, <1>3 DEF NonZero
  <2>2. Append(s, b) = p \o longer
    <3>. HIDE DEF p
    <3>1. \A x \in Seq(Byte), y \in Seq(Byte), c \in Byte :
            Append(x \o y, c) = x \o Append(y, c)
      BY AppendConcat
    <3>. QED
      BY <1>0, <1>1, <3>1
  <2>. HIDE DEF longer
  <2>. DEFINE l == [done |-> e.done, run |-> longer]
  <2>3. [e EXCEPT !.run = Append(@, b)] = l
    BY LongerIs DEF longer, Encodes
  <2>4. EncodeByte(e, b) = IF Len(longer) = MaxRun THEN CloseBlock(l) ELSE l
    BY <1>3, <2>3 DEF EncodeByte
  <2>5. CASE Len(longer) = MaxRun
    <3>. DEFINE c == Block(e.done, longer)
    <3>1. /\ CloseBlock(l) = [done |-> c, run |-> <<>>]
          /\ c \in Seq(NonZero)
          /\ Push(c).left = 0 /\ Push(c).out = p \o longer
          /\ Push(c).zero = FALSE
      <4>1. Closes(e.done, longer)
        BY <1>0, <2>1, ClosedIs
      <4>. QED
        BY <2>5, <4>1 DEF Closes
    <3>. HIDE DEF c
    <3>2. Pending(Push(c)) = p \o longer
      BY <3>1 DEF Pending
    <3>3. Pending(Push(c)) \o <<>> = p \o longer
      <4>1. p \o longer \in Seq(Byte)
        BY <1>1, <2>1
      <4>. QED
        BY <3>2, <4>1
    <3>4. EncodeByte(e, b) = [done |-> c, run |-> <<>>]
      BY <2>4, <2>5, <3>1
    <3>. QED
      BY <1>1, <2>2, <3>1, <3>3, <3>4 DEF Encodes, EncoderState
  <2>6. CASE Len(longer) # MaxRun
    <3>1. EncodeByte(e, b) = l /\ Len(longer) < MaxRun
      BY <1>0, <2>1, <2>4, <2>6
    <3>. QED
      BY <1>0, <2>1, <2>2, <3>1 DEF Encodes, EncoderState
  <2>. QED
    BY <2>5, <2>6
<1>. QED
  BY <1>2, <1>3

(* The states of the encoder between two bytes.                            *)
Whole == {e \in EncoderState : Push(e.done).left = 0}

NoBlocks == [done |-> <<>>, run |-> <<>>]

LEMMA NoBlocksEncodes == NoBlocks \in Whole /\ Encodes(NoBlocks, <<>>)
<1>1. /\ <<>> \in Seq(NonZero) /\ Len(<<>>) = 0 /\ Len(<<>>) < MaxRun
      /\ Push(<<>>) = NewDecoder
  BY PushIs, FramingAssumption
<1>2. NoBlocks \in EncoderState /\ NoBlocks.done = <<>> /\ NoBlocks.run = <<>>
  BY <1>1 DEF NoBlocks, EncoderState
<1>3. NewDecoder.left = 0 /\ Pending(NewDecoder) = <<>>
  BY DEF NewDecoder, Pending
<1>4. <<>> \o <<>> = <<>>
  OBVIOUS
<1>. QED
  BY <1>1, <1>2, <1>3, <1>4 DEF Encodes, Whole

LEMMA EncodeByteWhole ==
  ASSUME NEW e \in Whole, NEW b \in Byte
  PROVE  EncodeByte(e, b) \in Whole
<1>. DEFINE s == Pending(Push(e.done)) \o e.run
<1>1. e \in EncoderState /\ Push(e.done).left = 0
  BY DEF Whole
<1>2. s \in Seq(Byte)
  <2>1. /\ e.done \in Seq(NonZero) /\ e.run \in Seq(NonZero)
        /\ NonZero \subseteq Byte
    BY <1>1, EncoderStateIs DEF NonZero
  <2>2. Pending(Push(e.done)) \in Seq(Byte) /\ e.run \in Seq(Byte)
    BY <2>1, PendingIs
  <2>. QED
    BY <2>2
<1>3. Encodes(e, s)
  BY <1>1 DEF Encodes
<1>4. Encodes(EncodeByte(e, b), Append(s, b))
  <2>. HIDE DEF s
  <2>. QED
    BY <1>2, <1>3, EncodeByteEncodes
<1>. QED
  BY <1>4 DEF Encodes, Whole

(* The encoder's state after each byte of a message.                       *)
LEMMA EncodeLoop ==
  ASSUME NEW m \in Seq(Byte)
  PROVE  \E f : /\ \A n \in 0..Len(m) : Encodes(f[n], SubSeq(m, 1, n))
                /\ Encode(m) = CloseBlock(f[Len(m)]).done
<1>. DEFINE step == [x \in Whole \X (1..Len(m)) |-> EncodeByte(x[1], m[x[2]])]
            F(f) == [n \in 0..Len(m) |->
                       IF n = 0 THEN NoBlocks ELSE EncodeByte(f[n - 1], m[n])]
<1>1. Len(m) \in Nat /\ \A n \in 1..Len(m) : m[n] \in Byte
  OBVIOUS
<1>2. step \in [Whole \X (1..Len(m)) -> Whole]
  BY <1>1, EncodeByteWhole
<1>3. \A e \in Whole, n \in 1..Len(m) : step[<<e, n>>] = EncodeByte(e, m[n])
  OBVIOUS
<1>. HIDE DEF step
<1>4. PICK f \in [0..Len(m) -> Whole] : IsLoop(f, Len(m), NoBlocks, step)
  BY <1>1, <1>2, NoBlocksEncodes, LoopExists
<1>5. f = F(f)
  <2>1. \A n \in 0..Len(m) :
          (IF n = 0 THEN NoBlocks ELSE step[<<f[n - 1], n>>])
            = (IF n = 0 THEN NoBlocks ELSE EncodeByte(f[n - 1], m[n]))
    <3>. TAKE n \in 0..Len(m)
    <3>1. CASE n = 0
      BY <3>1
    <3>2. CASE n # 0
      <4>1. n \in 1..Len(m) /\ f[n - 1] \in Whole
        BY <1>1, <3>2
      <4>. QED
        BY <1>3, <3>2, <4>1
    <3>. QED
      BY <3>1, <3>2
  <2>. QED
    BY <1>4, <2>1 DEF IsLoop
<1>. DEFINE g == CHOOSE h : h = F(h)
<1>6. g = F(g)
  BY <1>5
<1>7. Encode(m) = CloseBlock(g[Len(m)]).done
  BY DEF Encode, NoBlocks
<1>. HIDE DEF g
<1>8. /\ g[0] = NoBlocks
      /\ \A n \in 1..Len(m) : g[n] = EncodeByte(g[n - 1], m[n])
  BY <1>1, <1>6
<1>. DEFINE S == {n \in 0..Len(m) : Encodes(g[n], SubSeq(m, 1, n))}
<1>9. 0 \in S
  <2>1. SubSeq(m, 1, 0) = <<>>
    OBVIOUS
  <2>2. Encodes(g[0], SubSeq(m, 1, 0))
    BY <1>8, <2>1, NoBlocksEncodes, Zenon
  <2>3. 0 \in 0..Len(m)
    BY <1>1
  <2>. QED
    BY <2>2, <2>3
<1>10. ASSUME NEW n \in 1..Len(m), n - 1 \in S
       PROVE  n \in S
  <2>. DEFINE p == SubSeq(m, 1, n - 1)
  <2>1. SubSeq(m, 1, n) = Append(p, m[n]) /\ p \in Seq(Byte) /\ m[n] \in Byte
    BY PrefixGrows
  <2>2. Encodes(g[n - 1], p)
    BY <1>10
  <2>. HIDE DEF p
  <2>3. Encodes(EncodeByte(g[n - 1], m[n]), Append(p, m[n]))
    BY <2>1, <2>2, EncodeByteEncodes
  <2>4. Encodes(g[n], SubSeq(m, 1, n))
    BY <1>8, <2>1, <2>3
  <2>. QED
    BY <1>1, <2>4
<1>11. \A n \in 0..Len(m) : n \in S
  <2>. HIDE DEF S
  <2>. QED
    BY <1>1, <1>9, <1>10, LoopInduction
<1>. QED
  BY <1>7, <1>11

(* COBS: what is encoded holds no zero, and the decoder makes the message  *)
(* of it and is then where a sentinel ends the frame.                      *)
THEOREM EncodedIsDecoded ==
  ASSUME NEW m \in Seq(Byte)
  PROVE  /\ Encode(m) \in Seq(NonZero)
         /\ Push(Encode(m)).left = 0
         /\ Push(Encode(m)).out = m
<1>1. PICK f : /\ \A n \in 0..Len(m) : Encodes(f[n], SubSeq(m, 1, n))
               /\ Encode(m) = CloseBlock(f[Len(m)]).done
  BY EncodeLoop
<1>. DEFINE e == f[Len(m)]
<1>2. Encodes(e, m)
  <2>1. Len(m) \in 0..Len(m) /\ SubSeq(m, 1, Len(m)) = m
    OBVIOUS
  <2>. QED
    BY <1>1, <2>1
<1>3. Encode(m) = CloseBlock(e).done
  BY <1>1
<1>. HIDE DEF e
<1>4. /\ e.done \in Seq(NonZero) /\ e.run \in Seq(NonZero) /\ Len(e.run) <= MaxRun
      /\ Push(e.done).left = 0
      /\ Pending(Push(e.done)) \o e.run = m
      /\ e = [done |-> e.done, run |-> e.run]
  BY <1>2, EncoderStateIs, FramingAssumption DEF Encodes
<1>. DEFINE c == Block(e.done, e.run)
            l == [done |-> e.done, run |-> e.run]
<1>5. /\ CloseBlock(l) = [done |-> c, run |-> <<>>]
      /\ c \in Seq(NonZero)
      /\ Push(c).left = 0 /\ Push(c).out = m
  <2>1. Closes(e.done, e.run)
    BY <1>4, ClosedIs
  <2>. QED
    BY <1>4, <2>1 DEF Closes
<1>6. CloseBlock(e).done = c
  <2>. HIDE DEF c, l
  <2>1. e = l
    BY <1>4 DEF l
  <2>. QED
    BY <1>5, <2>1
<1>. QED
  BY <1>3, <1>5, <1>6

-----------------------------------------------------------------------------
(* The bytes of T are written as bytes of T.                               *)
Keeps(T) == \A b \in T : WriteByte(b) \in Seq(T)

(* The serial port: it rewrites some bytes, and neither makes nor loses a  *)
(* zero.                                                                   *)
LEMMA WriteByteIs ==
  /\ Keeps(Byte) /\ Keeps(NonZero)
  /\ WriteByte(0) = << 0 >>
<1>1. /\ Backspace \in NonZero /\ Space \in NonZero /\ 0 \notin Rewritten
      /\ NonZero \subseteq Byte
  BY FramingAssumption DEF NonZero
<1>2. <<Backspace, Space, Backspace>> \in Seq(NonZero)
  BY <1>1
<1>3. <<Backspace, Space, Backspace>> \in Seq(Byte)
  BY <1>1
<1>4. \A b \in Byte : <<b>> \in Seq(Byte)
  OBVIOUS
<1>5. \A b \in NonZero : <<b>> \in Seq(NonZero)
  OBVIOUS
<1>. QED
  BY <1>1, <1>2, <1>3, <1>4, <1>5 DEF WriteByte, Keeps

IsWritten(f, s, T) ==
  /\ f \in [0..Len(s) -> Seq(T)]
  /\ f[0] = <<>>
  /\ \A n \in 1..Len(s) : f[n] = f[n - 1] \o WriteByte(s[n])

LEMMA WrittenLoop ==
  ASSUME NEW T, Keeps(T), NEW s \in Seq(T)
  PROVE  \E f : IsWritten(f, s, T) /\ WriteBytes(s) = f[Len(s)]
<1>. DEFINE U == Seq(T)
            step == [x \in U \X (1..Len(s)) |-> x[1] \o WriteByte(s[x[2]])]
            F(f) == [n \in 0..Len(s) |->
                       IF n = 0 THEN <<>> ELSE f[n - 1] \o WriteByte(s[n])]
<1>0. Len(s) \in Nat
  OBVIOUS
<1>1. <<>> \in U
  OBVIOUS
<1>2. \A x \in U, n \in 1..Len(s) : x \o WriteByte(s[n]) \in U
  <2>. TAKE x \in U, n \in 1..Len(s)
  <2>1. s[n] \in T
    OBVIOUS
  <2>2. WriteByte(s[n]) \in Seq(T)
    BY <2>1 DEF Keeps
  <2>. QED
    BY <2>2
<1>3. step \in [U \X (1..Len(s)) -> U]
  BY <1>2
<1>4. \A x \in U, n \in 1..Len(s) : step[<<x, n>>] = x \o WriteByte(s[n])
  OBVIOUS
<1>. HIDE DEF step, U
<1>5. PICK f \in [0..Len(s) -> U] : IsLoop(f, Len(s), <<>>, step)
  BY <1>0, <1>1, <1>3, LoopExists
<1>6. f = F(f)
  <2>1. \A n \in 0..Len(s) :
          (IF n = 0 THEN <<>> ELSE step[<<f[n - 1], n>>])
            = (IF n = 0 THEN <<>> ELSE f[n - 1] \o WriteByte(s[n]))
    <3>. TAKE n \in 0..Len(s)
    <3>1. CASE n = 0
      BY <3>1
    <3>2. CASE n # 0
      <4>1. n \in 1..Len(s) /\ f[n - 1] \in U
        BY <1>0, <3>2
      <4>. QED
        BY <1>4, <3>2, <4>1
    <3>. QED
      BY <3>1, <3>2
  <2>. QED
    BY <1>5, <2>1 DEF IsLoop
<1>. DEFINE g == CHOOSE h : h = F(h)
<1>7. g = F(g)
  BY <1>6
<1>8. WriteBytes(s) = g[Len(s)]
  BY DEF WriteBytes
<1>. HIDE DEF g
<1>9. /\ g[0] = <<>>
      /\ \A n \in 1..Len(s) : g[n] = g[n - 1] \o WriteByte(s[n])
  BY <1>0, <1>7
<1>10. \A n \in 0..Len(s) : g[n] \in U
  <2>. DEFINE S == {n \in 0..Len(s) : g[n] \in U}
  <2>1. 0 \in S
    BY <1>0, <1>1, <1>9
  <2>2. ASSUME NEW n \in 1..Len(s), n - 1 \in S
        PROVE  n \in S
    <3>1. g[n - 1] \in U
      BY <2>2
    <3>2. g[n - 1] \o WriteByte(s[n]) \in U
      BY <1>2, <3>1
    <3>3. g[n] \in U
      BY <1>9, <3>2
    <3>4. n \in 0..Len(s)
      BY <1>0
    <3>. QED
      BY <3>3, <3>4
  <2>. HIDE DEF S
  <2>3. \A n \in 0..Len(s) : n \in S
    BY <1>0, <2>1, <2>2, LoopInduction
  <2>. QED
    BY <2>3 DEF S
<1>11. g \in [0..Len(s) -> U]
  BY <1>7, <1>10
<1>. QED
  BY <1>8, <1>9, <1>11 DEF IsWritten, U

LEMMA WrittenIs ==
  ASSUME NEW T, Keeps(T), NEW s \in Seq(T)
  PROVE  WriteBytes(s) \in Seq(T)
<1>1. PICK f : IsWritten(f, s, T) /\ WriteBytes(s) = f[Len(s)]
  BY WrittenLoop
<1>2. Len(s) \in 0..Len(s)
  OBVIOUS
<1>. QED
  BY <1>1, <1>2 DEF IsWritten

(* A frame is written as bytes that are not zero, and one zero.            *)
LEMMA SentinelIsWritten ==
  ASSUME NEW s \in Seq(NonZero)
  PROVE  /\ WriteBytes(s) \in Seq(NonZero)
         /\ WriteBytes(Append(s, 0)) = Append(WriteBytes(s), 0)
<1>1. WriteBytes(s) \in Seq(NonZero)
  BY WriteByteIs, WrittenIs
<1>. DEFINE t == Append(s, 0)
<1>2. /\ t \in Seq(Byte) /\ s \in Seq(Byte)
      /\ Len(t) = Len(s) + 1 /\ Len(s) \in Nat
      /\ \A n \in 1..Len(s) : t[n] = s[n]
      /\ t[Len(s) + 1] = 0
  BY FramingAssumption DEF NonZero, Byte
<1>. HIDE DEF t
<1>3. PICK f : IsWritten(f, t, Byte) /\ WriteBytes(t) = f[Len(t)]
  BY <1>2, WriteByteIs, WrittenLoop
<1>4. PICK g : IsWritten(g, s, NonZero) /\ WriteBytes(s) = g[Len(s)]
  BY WriteByteIs, WrittenLoop
<1>. DEFINE S == {n \in 0..Len(s) : f[n] = g[n]}
<1>5. 0 \in S
  BY <1>2, <1>3, <1>4 DEF IsWritten
<1>6. ASSUME NEW n \in 1..Len(s), n - 1 \in S
      PROVE  n \in S
  <2>1. g[n] = g[n - 1] \o WriteByte(s[n])
    BY <1>4 DEF IsWritten
  <2>2. n \in 1..Len(t) /\ t[n] = s[n]
    BY <1>2
  <2>3. f[n] = f[n - 1] \o WriteByte(t[n])
    BY <1>3, <2>2 DEF IsWritten
  <2>4. f[n - 1] = g[n - 1] /\ n \in 0..Len(s)
    BY <1>6
  <2>. QED
    BY <2>1, <2>2, <2>3, <2>4
<1>. HIDE DEF S
<1>7. \A n \in 0..Len(s) : n \in S
  BY <1>2, <1>5, <1>6, LoopInduction
<1>8. f[Len(s)] = g[Len(s)]
  BY <1>2, <1>7 DEF S
<1>9. f[Len(s) + 1] = f[Len(s)] \o WriteByte(t[Len(s) + 1])
  <2>1. Len(s) + 1 \in 1..Len(t) /\ (Len(s) + 1) - 1 = Len(s)
    BY <1>2
  <2>2. \A n \in 1..Len(t) : f[n] = f[n - 1] \o WriteByte(t[n])
    BY <1>3 DEF IsWritten
  <2>. QED
    BY <2>1, <2>2
<1>10. WriteBytes(t) = WriteBytes(s) \o << 0 >>
  BY <1>2, <1>3, <1>4, <1>8, <1>9, WriteByteIs
<1>11. WriteBytes(s) \o << 0 >> = Append(WriteBytes(s), 0)
  BY <1>1
<1>. QED
  BY <1>1, <1>10, <1>11 DEF t

-----------------------------------------------------------------------------
(* What is on its way.  The bytes st that are not yet answered hold the    *)
(* ends of the frames lo + 1 .. hi; an intact frame is what was encoded.   *)
Marked(st, ends, lo, hi) ==
  /\ ends \in [lo..hi -> 0..Len(st)]
  /\ ends[lo] = 0
  /\ \A i, j \in lo..hi : i < j => ends[i] < ends[j]
  /\ \A j \in (lo + 1)..hi : st[ends[j]] = 0
  /\ \A p \in 1..Len(st) : st[p] = 0 => \E j \in (lo + 1)..hi : p = ends[j]

Segment(st, a, b, x) ==
  /\ b = a + Len(x) + 1
  /\ \A i \in 1..Len(x) : st[a + i] = x[i]

Carries(st, ends, lo, frames) ==
  \A j \in (lo + 1)..Len(frames) :
     frames[j].intact =>
       Segment(st, ends[j - 1], ends[j], Encode(frames[j].message))

Delimited(st, lo, frames, open) ==
  \E ends : /\ Marked(st, ends, lo, Len(frames))
            /\ Carries(st, ends, lo, frames)
            /\ ~open => ends[Len(frames)] = Len(st)

Frame == [message : Messages, intact : BOOLEAN]

(* The bytes of a concatenation.                                           *)
LEMMA ConcatIs ==
  ASSUME NEW s \in Seq(Byte), NEW x \in Seq(Byte)
  PROVE  /\ s \o x \in Seq(Byte) /\ Len(s \o x) = Len(s) + Len(x)
         /\ Len(s) \in Nat /\ Len(x) \in Nat
         /\ \A i \in 1..Len(s) : (s \o x)[i] = s[i]
         /\ \A i \in 1..Len(x) : (s \o x)[Len(s) + i] = x[i]
OBVIOUS

LEMMA NonZeroIs ==
  /\ NonZero \subseteq Byte /\ 0 \in Byte
  /\ \A s \in Seq(NonZero) : /\ s \in Seq(Byte) /\ Len(s) \in Nat
                             /\ \A i \in 1..Len(s) : s[i] # 0
<1>1. NonZero \subseteq Byte /\ 0 \in Byte /\ 0 \notin NonZero
  BY FramingAssumption DEF NonZero, Byte
<1>2. ASSUME NEW s \in Seq(NonZero)
      PROVE  /\ s \in Seq(Byte) /\ Len(s) \in Nat
             /\ \A i \in 1..Len(s) : s[i] # 0
  <2>1. s \in Seq(Byte) /\ Len(s) \in Nat
    BY <1>1
  <2>2. \A i \in 1..Len(s) : s[i] \in NonZero
    OBVIOUS
  <2>. QED
    BY <1>1, <2>1, <2>2
<1>. QED
  BY <1>1, <1>2

LEMMA MarkedInside ==
  ASSUME NEW st \in Seq(Byte), NEW lo \in Nat, NEW hi \in Nat, NEW ends,
         Marked(st, ends, lo, hi)
  PROVE  \A j \in (lo + 1)..hi : ends[j] \in 1..Len(st)
<1>. TAKE j \in (lo + 1)..hi
<1>1. lo \in lo..hi /\ j \in lo..hi /\ lo < j
  OBVIOUS
<1>2. ends[lo] < ends[j] /\ ends[lo] = 0 /\ ends[j] \in 0..Len(st)
  BY <1>1 DEF Marked
<1>. QED
  BY <1>2

LEMMA MessageIs ==
  ASSUME NEW frames \in Seq(Frame), NEW j \in 1..Len(frames)
  PROVE  /\ frames[j].message \in Seq(Byte)
         /\ Encode(frames[j].message) \in Seq(NonZero)
         /\ Len(Encode(frames[j].message)) \in Nat
<1>1. frames[j] \in Frame
  OBVIOUS
<1>2. frames[j].message \in Seq(Byte)
  BY <1>1, FramingAssumption DEF Frame
<1>. QED
  BY <1>2, EncodedIsDecoded

(* A part of a frame adds no end.                                          *)
LEMMA PartIsWritten ==
  ASSUME NEW st \in Seq(Byte), NEW x \in Seq(NonZero), NEW lo \in Nat,
         NEW frames \in Seq(Frame), lo <= Len(frames), NEW open \in BOOLEAN,
         Delimited(st, lo, frames, open)
  PROVE  Delimited(st \o x, lo, frames, TRUE)
<1>. DEFINE hi == Len(frames)
            t == st \o x
<1>1. PICK ends : Marked(st, ends, lo, hi) /\ Carries(st, ends, lo, frames)
  BY DEF Delimited
<1>2. /\ t \in Seq(Byte) /\ Len(t) = Len(st) + Len(x)
      /\ Len(st) \in Nat /\ Len(x) \in Nat /\ hi \in Nat
      /\ \A i \in 1..Len(st) : t[i] = st[i]
      /\ \A i \in 1..Len(x) : t[Len(st) + i] # 0
  BY NonZeroIs, ConcatIs
<1>. HIDE DEF t, hi
<1>3. /\ ends \in [lo..hi -> 0..Len(st)] /\ ends[lo] = 0
      /\ \A i, j \in lo..hi : i < j => ends[i] < ends[j]
      /\ \A j \in (lo + 1)..hi : st[ends[j]] = 0
      /\ \A p \in 1..Len(st) : st[p] = 0 => \E j \in (lo + 1)..hi : p = ends[j]
  BY <1>1 DEF Marked
<1>4. \A j \in (lo + 1)..hi : ends[j] \in 1..Len(st)
  BY <1>1, <1>2, MarkedInside
<1>5. ends \in [lo..hi -> 0..Len(t)]
  BY <1>2, <1>3
<1>6. \A j \in (lo + 1)..hi : t[ends[j]] = 0
  BY <1>2, <1>3, <1>4
<1>7. \A p \in 1..Len(t) : t[p] = 0 => \E j \in (lo + 1)..hi : p = ends[j]
  <2>. SUFFICES ASSUME NEW p \in 1..Len(t), t[p] = 0
                PROVE  \E j \in (lo + 1)..hi : p = ends[j]
    OBVIOUS
  <2>1. CASE p \in 1..Len(st)
    BY <1>2, <1>3, <2>1
  <2>2. CASE p \notin 1..Len(st)
    <3>1. p - Len(st) \in 1..Len(x) /\ Len(st) + (p - Len(st)) = p
      BY <1>2, <2>2
    <3>. QED
      BY <1>2, <3>1
  <2>. QED
    BY <2>1, <2>2
<1>8. Marked(t, ends, lo, hi)
  BY <1>3, <1>5, <1>6, <1>7 DEF Marked
<1>9. Carries(t, ends, lo, frames)
  <2>. SUFFICES ASSUME NEW j \in (lo + 1)..hi, frames[j].intact
                PROVE  Segment(t, ends[j - 1], ends[j], Encode(frames[j].message))
    BY DEF Carries, hi
  <2>. DEFINE e == Encode(frames[j].message)
              a == ends[j - 1]
              b == ends[j]
  <2>1. Segment(st, a, b, e)
    BY <1>1 DEF Carries, hi
  <2>2. a \in 0..Len(st) /\ b \in 1..Len(st)
    <3>1. j - 1 \in lo..hi
      BY <1>2
    <3>. QED
      BY <1>3, <1>4, <3>1
  <2>3. Len(e) \in Nat
    <3>1. j \in 1..Len(frames)
      BY <1>2 DEF hi
    <3>. QED
      BY <3>1, MessageIs
  <2>. HIDE DEF a, b, e
  <2>4. b = a + Len(e) + 1 /\ \A i \in 1..Len(e) : st[a + i] = e[i]
    BY <2>1 DEF Segment
  <2>5. \A i \in 1..Len(e) : a + i \in 1..Len(st)
    BY <1>2, <2>2, <2>3, <2>4
  <2>6. \A i \in 1..Len(e) : t[a + i] = e[i]
    BY <1>2, <2>4, <2>5
  <2>7. Segment(t, a, b, e)
    BY <2>4, <2>6 DEF Segment
  <2>. QED
    BY <2>7 DEF a, b, e
<1>. QED
  BY <1>8, <1>9 DEF Delimited, t, hi

(* A frame adds the end of one, and is what was encoded if it is intact.   *)
LEMMA FrameIsWritten ==
  ASSUME NEW st \in Seq(Byte), NEW x \in Seq(NonZero), NEW lo \in Nat,
         NEW frames \in Seq(Frame), lo <= Len(frames), NEW open \in BOOLEAN,
         Delimited(st, lo, frames, open),
         NEW f \in Frame, f.intact => ~open /\ x = Encode(f.message)
  PROVE  Delimited(st \o Append(x, 0), lo, Append(frames, f), FALSE)
<1>. DEFINE hi == Len(frames)
            y == Append(x, 0)
            t == st \o y
            more == Append(frames, f)
<1>1. PICK ends : /\ Marked(st, ends, lo, hi) /\ Carries(st, ends, lo, frames)
                  /\ ~open => ends[hi] = Len(st)
  BY DEF Delimited
<1>2. /\ x \in Seq(Byte) /\ Len(x) \in Nat /\ 0 \in Byte
      /\ \A i \in 1..Len(x) : x[i] # 0
  BY NonZeroIs
<1>3. /\ y \in Seq(Byte) /\ Len(y) = Len(x) + 1
      /\ \A i \in 1..Len(x) : y[i] = x[i]
      /\ y[Len(x) + 1] = 0
  BY <1>2
<1>. HIDE DEF y
<1>4. /\ t \in Seq(Byte) /\ Len(t) = Len(st) + Len(y)
      /\ Len(st) \in Nat
      /\ \A i \in 1..Len(st) : t[i] = st[i]
      /\ \A i \in 1..Len(y) : t[Len(st) + i] = y[i]
  BY <1>3, ConcatIs
<1>5. /\ more \in Seq(Frame) /\ Len(more) = hi + 1 /\ hi \in Nat
      /\ \A j \in 1..hi : more[j] = frames[j]
      /\ more[hi + 1] = f
  OBVIOUS
<1>. HIDE DEF t, hi, more
<1>6. /\ ends \in [lo..hi -> 0..Len(st)] /\ ends[lo] = 0
      /\ \A i, j \in lo..hi : i < j => ends[i] < ends[j]
      /\ \A j \in (lo + 1)..hi : st[ends[j]] = 0
      /\ \A p \in 1..Len(st) : st[p] = 0 => \E j \in (lo + 1)..hi : p = ends[j]
      /\ lo <= hi
  BY <1>1 DEF Marked, hi
<1>7. \A j \in (lo + 1)..hi : ends[j] \in 1..Len(st)
  BY <1>1, <1>5, MarkedInside
<1>. DEFINE new == [j \in lo..(hi + 1) |-> IF j = hi + 1 THEN Len(t) ELSE ends[j]]
<1>8. /\ \A j \in lo..hi : j \in lo..(hi + 1) /\ new[j] = ends[j]
      /\ new[hi + 1] = Len(t)
      /\ Len(t) = Len(st) + Len(x) + 1
  BY <1>2, <1>3, <1>4, <1>5, <1>6
<1>9. new \in [lo..(hi + 1) -> 0..Len(t)]
  BY <1>2, <1>5, <1>6, <1>8
<1>. HIDE DEF new
<1>10. \A i, j \in lo..(hi + 1) : i < j => new[i] < new[j]
  <2>. SUFFICES ASSUME NEW i \in lo..(hi + 1), NEW j \in lo..(hi + 1), i < j
                PROVE  new[i] < new[j]
    OBVIOUS
  <2>1. i \in lo..hi /\ new[i] = ends[i] /\ ends[i] \in 0..Len(st)
    <3>1. i \in lo..hi
      BY <1>5
    <3>. QED
      BY <1>6, <1>8, <3>1
  <2>2. CASE j = hi + 1
    BY <1>2, <1>4, <1>8, <2>1, <2>2
  <2>3. CASE j # hi + 1
    <3>1. j \in lo..hi
      BY <1>5, <2>3
    <3>. QED
      BY <1>6, <1>8, <2>1, <3>1
  <2>. QED
    BY <2>2, <2>3
<1>11. \A j \in (lo + 1)..(hi + 1) : t[new[j]] = 0
  <2>. TAKE j \in (lo + 1)..(hi + 1)
  <2>1. CASE j = hi + 1
    <3>1. Len(x) + 1 \in 1..Len(y) /\ Len(st) + (Len(x) + 1) = Len(t)
      BY <1>2, <1>3, <1>4
    <3>2. t[Len(t)] = y[Len(x) + 1]
      BY <1>4, <3>1
    <3>. QED
      BY <1>3, <1>8, <2>1, <3>2
  <2>2. CASE j # hi + 1
    <3>1. j \in (lo + 1)..hi /\ j \in lo..hi
      BY <1>5, <2>2
    <3>. QED
      BY <1>4, <1>6, <1>7, <1>8, <3>1
  <2>. QED
    BY <2>1, <2>2
<1>12. \A p \in 1..Len(t) : t[p] = 0 => \E j \in (lo + 1)..(hi + 1) : p = new[j]
  <2>. SUFFICES ASSUME NEW p \in 1..Len(t), t[p] = 0
                PROVE  \E j \in (lo + 1)..(hi + 1) : p = new[j]
    OBVIOUS
  <2>1. CASE p \in 1..Len(st)
    <3>1. PICK j \in (lo + 1)..hi : p = ends[j]
      BY <1>4, <1>6, <2>1
    <3>2. j \in lo..hi /\ j \in (lo + 1)..(hi + 1)
      BY <1>5
    <3>. QED
      BY <1>8, <3>1, <3>2
  <2>2. CASE p \notin 1..Len(st)
    <3>1. p - Len(st) \in 1..Len(y) /\ Len(st) + (p - Len(st)) = p
      BY <1>2, <1>3, <1>4, <2>2
    <3>2. y[p - Len(st)] = 0
      BY <1>4, <3>1
    <3>3. p - Len(st) \notin 1..Len(x)
      BY <1>2, <1>3, <3>2
    <3>4. p = Len(t)
      <4>1. /\ Len(x) \in Nat /\ Len(st) \in Nat
            /\ Len(y) = Len(x) + 1 /\ Len(t) = Len(st) + Len(y)
        BY <1>2, <1>3, <1>4
      <4>. DEFINE q == p - Len(st)
                  n == Len(x)
      <4>2. q \in 1..(n + 1) /\ q \notin 1..n /\ n \in Nat /\ p = Len(st) + q
        BY <3>1, <3>3, <4>1
      <4>3. q = n + 1
        <5>. HIDE DEF q, n
        <5>. QED
          BY <4>2
      <4>. QED
        BY <1>8, <4>1, <4>2, <4>3
    <3>5. hi + 1 \in (lo + 1)..(hi + 1)
      BY <1>5, <1>6
    <3>. QED
      BY <1>8, <3>4, <3>5
  <2>. QED
    BY <2>1, <2>2
<1>13. Marked(t, new, lo, hi + 1)
  <2>1. new[lo] = 0
    BY <1>5, <1>6, <1>8
  <2>. QED
    BY <1>9, <1>10, <1>11, <1>12, <2>1 DEF Marked
<1>14. Carries(t, new, lo, more)
  <2>. SUFFICES ASSUME NEW j \in (lo + 1)..(hi + 1), more[j].intact
                PROVE  Segment(t, new[j - 1], new[j], Encode(more[j].message))
    BY <1>5 DEF Carries
  <2>0. j - 1 \in lo..hi
    BY <1>5
  <2>1. CASE j = hi + 1
    <3>1. ~open /\ x = Encode(f.message) /\ more[j] = f
      BY <1>5, <2>1
    <3>2. j - 1 = hi /\ hi \in lo..hi
      BY <1>5, <1>6, <2>1
    <3>3. new[j - 1] = Len(st) /\ new[j] = Len(t)
      BY <1>1, <1>8, <2>1, <3>1, <3>2 DEF hi
    <3>4. \A i \in 1..Len(x) : t[Len(st) + i] = x[i]
      <4>. TAKE i \in 1..Len(x)
      <4>1. i \in 1..Len(y)
        BY <1>2, <1>3
      <4>. QED
        BY <1>3, <1>4, <4>1
    <3>5. Segment(t, Len(st), Len(t), x)
      BY <1>8, <3>4 DEF Segment
    <3>. QED
      BY <3>1, <3>3, <3>5
  <2>2. CASE j # hi + 1
    <3>. DEFINE e == Encode(frames[j].message)
                a == ends[j - 1]
                b == ends[j]
    <3>1. j \in (lo + 1)..hi /\ j \in lo..hi /\ j \in 1..hi
      BY <1>5, <2>2
    <3>2. more[j] = frames[j] /\ new[j - 1] = a /\ new[j] = b
      BY <1>5, <1>8, <2>0, <3>1
    <3>3. Segment(st, a, b, e)
      BY <1>1, <3>1, <3>2 DEF Carries, hi
    <3>4. a \in 0..Len(st) /\ b \in 1..Len(st) /\ Len(e) \in Nat
      BY <1>6, <1>7, <2>0, <3>1, MessageIs DEF hi
    <3>. HIDE DEF a, b, e
    <3>5. b = a + Len(e) + 1 /\ \A i \in 1..Len(e) : st[a + i] = e[i]
      BY <3>3 DEF Segment
    <3>6. \A i \in 1..Len(e) : a + i \in 1..Len(st)
      BY <1>4, <3>4, <3>5
    <3>7. \A i \in 1..Len(e) : t[a + i] = e[i]
      BY <1>4, <3>5, <3>6
    <3>8. Segment(t, a, b, e)
      BY <3>5, <3>7 DEF Segment
    <3>. QED
      BY <3>2, <3>8 DEF e
  <2>. QED
    BY <2>1, <2>2
<1>. QED
  BY <1>5, <1>8, <1>13, <1>14 DEF Delimited, t, y, more, hi

(* A zero after bytes that are none is the end of the next frame: those    *)
(* bytes are what was encoded if the frame is intact, and what follows is  *)
(* the rest.                                                               *)
LEMMA FrameIsRead ==
  ASSUME NEW r \in Seq(NonZero), NEW rest \in Seq(Byte), NEW lo \in Nat,
         NEW frames \in Seq(Frame), lo <= Len(frames), NEW open \in BOOLEAN,
         Delimited(r \o (<< 0 >> \o rest), lo, frames, open)
  PROVE  /\ lo + 1 <= Len(frames)
         /\ frames[lo + 1].intact => r = Encode(frames[lo + 1].message)
         /\ Delimited(rest, lo + 1, frames, open)
<1>. DEFINE hi == Len(frames)
            y == << 0 >> \o rest
            st == r \o y
            z == Len(r) + 1
<1>1. PICK ends : /\ Marked(st, ends, lo, hi) /\ Carries(st, ends, lo, frames)
                  /\ ~open => ends[hi] = Len(st)
  BY DEF Delimited
<1>2. /\ r \in Seq(Byte) /\ Len(r) \in Nat /\ 0 \in Byte /\ Len(rest) \in Nat
      /\ \A i \in 1..Len(r) : r[i] # 0
  BY NonZeroIs
<1>3. /\ y \in Seq(Byte) /\ Len(y) = Len(rest) + 1
      /\ y[1] = 0
      /\ \A i \in 1..Len(rest) : y[i + 1] = rest[i]
  BY <1>2
<1>. HIDE DEF y
<1>4. /\ st \in Seq(Byte) /\ Len(st) = Len(r) + Len(y)
      /\ \A i \in 1..Len(r) : st[i] = r[i]
      /\ \A i \in 1..Len(y) : st[Len(r) + i] = y[i]
  BY <1>2, <1>3, ConcatIs
<1>. HIDE DEF st
<1>5. /\ z \in Nat /\ Len(st) = z + Len(rest) /\ z \in 1..Len(st)
      /\ hi \in Nat /\ lo <= hi
  <2>1. Len(r) \in Nat /\ Len(rest) \in Nat /\ Len(y) = Len(rest) + 1
        /\ Len(st) = Len(r) + Len(y)
    BY <1>2, <1>3, <1>4
  <2>. QED
    BY <2>1
<1>6. /\ \A i \in 1..(z - 1) : st[i] # 0 /\ st[i] = r[i]
      /\ st[z] = 0
  <2>1. 1 \in 1..Len(y)
    BY <1>2, <1>3
  <2>2. st[z] = 0
    BY <1>3, <1>4, <2>1
  <2>3. 1..(z - 1) = 1..Len(r)
    BY <1>2
  <2>. QED
    BY <1>2, <1>4, <2>2, <2>3
<1>7. \A i \in 1..Len(rest) : st[z + i] = rest[i]
  <2>. TAKE i \in 1..Len(rest)
  <2>1. i + 1 \in 1..Len(y) /\ z + i = Len(r) + (i + 1)
    BY <1>2, <1>3
  <2>. QED
    BY <1>3, <1>4, <2>1
<1>8. Len(r) = z - 1
  BY <1>2
<1>. HIDE DEF z, hi
<1>9. /\ ends \in [lo..hi -> 0..Len(st)] /\ ends[lo] = 0
      /\ \A i, j \in lo..hi : i < j => ends[i] < ends[j]
      /\ \A j \in (lo + 1)..hi : st[ends[j]] = 0
      /\ \A p \in 1..Len(st) : st[p] = 0 => \E j \in (lo + 1)..hi : p = ends[j]
  BY <1>1 DEF Marked
<1>10. \A j \in (lo + 1)..hi : ends[j] \in 1..Len(st)
  BY <1>1, <1>4, <1>5, MarkedInside
<1>11. lo + 1 \in (lo + 1)..hi /\ ends[lo + 1] = z
  <2>1. PICK j \in (lo + 1)..hi : z = ends[j]
    BY <1>5, <1>6, <1>9
  <2>2. lo + 1 \in (lo + 1)..hi /\ lo + 1 \in lo..hi /\ j \in lo..hi
    BY <1>5
  <2>3. CASE j = lo + 1
    BY <2>1, <2>2, <2>3
  <2>4. CASE j # lo + 1
    <3>1. lo + 1 < j
      BY <2>4
    <3>2. ends[lo + 1] < z
      BY <1>9, <2>1, <2>2, <3>1
    <3>3. ends[lo + 1] \in 1..Len(st) /\ st[ends[lo + 1]] = 0
      BY <1>9, <1>10, <2>2
    <3>4. ends[lo + 1] \in 1..(z - 1)
      BY <1>5, <3>2, <3>3
    <3>. QED
      BY <1>6, <3>3, <3>4
  <2>. QED
    BY <2>3, <2>4
<1>12. frames[lo + 1].intact => r = Encode(frames[lo + 1].message)
  <2>. SUFFICES ASSUME frames[lo + 1].intact
                PROVE  r = Encode(frames[lo + 1].message)
    OBVIOUS
  <2>. DEFINE e == Encode(frames[lo + 1].message)
  <2>1. (lo + 1) - 1 = lo /\ lo + 1 \in 1..hi
    BY <1>5, <1>11
  <2>2. Segment(st, 0, z, e)
    BY <1>1, <1>9, <1>11, <2>1 DEF Carries, hi
  <2>3. e \in Seq(NonZero)
    BY <2>1, MessageIs DEF hi
  <2>. HIDE DEF e
  <2>4. z = 0 + Len(e) + 1 /\ \A i \in 1..Len(e) : st[0 + i] = e[i]
    BY <2>2 DEF Segment
  <2>5. Len(e) \in Nat /\ Len(r) = Len(e)
    BY <1>2, <1>8, <2>3, <2>4
  <2>6. \A i \in 1..Len(r) : r[i] = e[i]
    BY <1>4, <2>4, <2>5
  <2>7. r = e
    BY <2>3, <2>5, <2>6
  <2>. QED
    BY <2>7 DEF e
<1>. DEFINE new == [j \in (lo + 1)..hi |-> ends[j] - z]
<1>13. ASSUME NEW j \in (lo + 1)..hi
       PROVE  /\ j \in lo..hi /\ ends[j] \in z..Len(st)
              /\ new[j] = ends[j] - z /\ new[j] \in 0..Len(rest)
  <2>1. j \in lo..hi /\ lo + 1 \in lo..hi
    BY <1>5, <1>11
  <2>2. ends[j] \in 1..Len(st) /\ (j = lo + 1 \/ ends[lo + 1] < ends[j])
    BY <1>9, <1>10, <2>1
  <2>3. ends[j] \in z..Len(st)
    BY <1>5, <1>11, <2>2
  <2>4. new[j] = ends[j] - z
    OBVIOUS
  <2>. HIDE DEF new
  <2>. QED
    BY <1>5, <2>1, <2>3, <2>4
<1>14. new \in [(lo + 1)..hi -> 0..Len(rest)]
  BY <1>13
<1>. HIDE DEF new
<1>15. new[lo + 1] = 0
  BY <1>5, <1>11, <1>13
<1>16. \A i, j \in (lo + 1)..hi : i < j => new[i] < new[j]
  <2>. SUFFICES ASSUME NEW i \in (lo + 1)..hi, NEW j \in (lo + 1)..hi, i < j
                PROVE  new[i] < new[j]
    OBVIOUS
  <2>1. i \in lo..hi /\ j \in lo..hi
    BY <1>13
  <2>2. ends[i] < ends[j] /\ ends[i] \in z..Len(st) /\ ends[j] \in z..Len(st)
    BY <1>9, <1>13, <2>1
  <2>. QED
    BY <1>5, <1>13, <2>2
<1>17. \A j \in ((lo + 1) + 1)..hi : rest[new[j]] = 0
  <2>. TAKE j \in ((lo + 1) + 1)..hi
  <2>1. j \in (lo + 1)..hi /\ lo + 1 \in (lo + 1)..hi /\ lo + 1 < j
    BY <1>11
  <2>2. new[lo + 1] < new[j] /\ new[j] \in 0..Len(rest) /\ new[j] = ends[j] - z
    BY <1>13, <1>16, <2>1
  <2>3. new[j] \in 1..Len(rest) /\ z + new[j] = ends[j]
    <3>1. ends[j] \in Int /\ z \in Nat /\ Len(rest) \in Nat
      BY <1>2, <1>5, <1>13, <2>1
    <3>. DEFINE n == new[j]
                e == ends[j]
    <3>2. n \in 0..Len(rest) /\ 0 < n /\ n = e - z
      BY <1>15, <2>2
    <3>3. e \in Int
      BY <3>1
    <3>. HIDE DEF n, e
    <3>4. n \in 1..Len(rest) /\ z + n = e
      BY <3>1, <3>2, <3>3
    <3>. QED
      BY <3>4 DEF n, e
  <2>4. st[ends[j]] = 0
    BY <1>9, <2>1
  <2>. QED
    BY <1>7, <2>3, <2>4
<1>18. \A p \in 1..Len(rest) :
         rest[p] = 0 => \E j \in ((lo + 1) + 1)..hi : p = new[j]
  <2>. SUFFICES ASSUME NEW p \in 1..Len(rest), rest[p] = 0
                PROVE  \E j \in ((lo + 1) + 1)..hi : p = new[j]
    OBVIOUS
  <2>1. z + p \in 1..Len(st) /\ st[z + p] = 0
    BY <1>2, <1>5, <1>7
  <2>2. PICK j \in (lo + 1)..hi : z + p = ends[j]
    BY <1>9, <2>1
  <2>3. j # lo + 1
    BY <1>5, <1>11, <2>2
  <2>4. j \in ((lo + 1) + 1)..hi
    BY <2>3
  <2>5. new[j] = p
    BY <1>5, <1>13, <2>2
  <2>. QED
    BY <2>4, <2>5
<1>19. Marked(rest, new, lo + 1, hi)
  BY <1>14, <1>15, <1>16, <1>17, <1>18 DEF Marked
<1>20. Carries(rest, new, lo + 1, frames)
  <2>. SUFFICES ASSUME NEW j \in ((lo + 1) + 1)..hi, frames[j].intact
                PROVE  Segment(rest, new[j - 1], new[j], Encode(frames[j].message))
    BY DEF Carries, hi
  <2>. DEFINE e == Encode(frames[j].message)
              a == ends[j - 1]
              b == ends[j]
  <2>1. j \in (lo + 1)..hi /\ j - 1 \in (lo + 1)..hi /\ j \in 1..hi
    BY <1>5
  <2>2. Segment(st, a, b, e)
    BY <1>1, <2>1 DEF Carries, hi
  <2>3. /\ a \in z..Len(st) /\ b \in z..Len(st)
        /\ new[j - 1] = a - z /\ new[j] = b - z
    BY <1>13, <2>1
  <2>4. Len(e) \in Nat
    BY <2>1, MessageIs DEF hi
  <2>. HIDE DEF a, b, e
  <2>5. b = a + Len(e) + 1 /\ \A i \in 1..Len(e) : st[a + i] = e[i]
    BY <2>2 DEF Segment
  <2>6. ASSUME NEW i \in 1..Len(e)
        PROVE  rest[(a - z) + i] = e[i]
    <3>1. (a - z) + i \in 1..Len(rest) /\ z + ((a - z) + i) = a + i
      BY <1>5, <2>3, <2>4, <2>5
    <3>2. st[z + ((a - z) + i)] = rest[(a - z) + i]
      BY <1>7, <3>1
    <3>. QED
      BY <2>5, <3>1, <3>2
  <2>7. b - z = (a - z) + Len(e) + 1
    BY <1>5, <2>3, <2>4, <2>5
  <2>8. Segment(rest, a - z, b - z, e)
    BY <2>6, <2>7 DEF Segment
  <2>. QED
    BY <2>3, <2>8 DEF e
<1>21. ~open => new[hi] = Len(rest)
  <2>1. hi \in (lo + 1)..hi
    BY <1>5, <1>11
  <2>2. ~open => ends[hi] = Len(st)
    BY <1>1 DEF hi
  <2>3. new[hi] = ends[hi] - z
    BY <1>13, <2>1
  <2>. QED
    BY <1>2, <1>5, <2>2, <2>3
<1>22. Delimited(rest, lo + 1, frames, open)
  BY <1>19, <1>20, <1>21 DEF Delimited, hi
<1>23. lo + 1 <= Len(frames)
  BY <1>11 DEF hi
<1>. QED
  BY <1>12, <1>22, <1>23

-----------------------------------------------------------------------------
(* The inductive invariant: the bytes read of a frame, buffered and on the *)
(* line hold the ends of the frames that are not yet answered.             *)
Answer == ({"frame"} \X Seq(Byte)) \cup {<<"error">>}

Stream == readBytes \o (buffered \o wire)

FramingInv ==
  /\ FramingTypeOK /\ OneFrameInOneOut
  /\ readBytes \in Seq(NonZero)
  /\ received \in Seq(Answer)
  /\ Delimited(Stream, Len(received), sent, torn)

(* What is used of it in every step.                                       *)
LEMMA InvIs ==
  ASSUME FramingInv
  PROVE  /\ readBytes \in Seq(NonZero) /\ buffered \in Seq(Byte) /\ wire \in Seq(Byte)
         /\ readBytes \in Seq(Byte) /\ Stream \in Seq(Byte)
         /\ sent \in Seq(Frame) /\ received \in Seq(Answer)
         /\ Len(received) \in Nat /\ Len(sent) \in Nat
         /\ Len(received) <= Len(sent)
         /\ torn \in BOOLEAN /\ bufSize \in Nat
         /\ decoder = Push(readBytes) /\ decoder \in DecoderState
         /\ Len(decoder.out) <= bufSize
         /\ \A k \in DOMAIN received :
              sent[k].intact => received[k] = <<"frame", sent[k].message>>
<1>1. /\ readBytes \in Seq(NonZero) /\ buffered \in Seq(Byte) /\ wire \in Seq(Byte)
      /\ sent \in Seq(Frame) /\ received \in Seq(Answer)
      /\ torn \in BOOLEAN /\ bufSize \in Nat
      /\ decoder = Push(readBytes)
      /\ Len(decoder.out) <= bufSize
      /\ Len(received) <= Len(sent)
      /\ \A k \in DOMAIN received :
           sent[k].intact => received[k] = <<"frame", sent[k].message>>
  BY DEF FramingInv, FramingTypeOK, OneFrameInOneOut, Frame, Fits
<1>2. readBytes \in Seq(Byte) /\ decoder \in DecoderState
  BY <1>1, NonZeroIs, PushIs
<1>3. Stream \in Seq(Byte)
  <2>1. buffered \o wire \in Seq(Byte)
    BY <1>1
  <2>. QED
    BY <1>2, <2>1 DEF Stream
<1>4. Len(received) \in Nat /\ Len(sent) \in Nat
  BY <1>1
<1>. QED
  BY <1>1, <1>2, <1>3, <1>4

Associates(r, s, t) == (r \o s) \o t = r \o (s \o t)

LEMMA ConcatThree ==
  ASSUME NEW r \in Seq(Byte), NEW s \in Seq(Byte), NEW t \in Seq(Byte)
  PROVE  Associates(r, s, t)
BY DEF Associates

Regrouped(r, s, t, x) == r \o (s \o (t \o x)) = (r \o (s \o t)) \o x

LEMMA StreamGrows ==
  ASSUME NEW r \in Seq(Byte), NEW s \in Seq(Byte), NEW t \in Seq(Byte),
         NEW x \in Seq(Byte)
  PROVE  Regrouped(r, s, t, x)
<1>1. s \o (t \o x) = (s \o t) \o x
  <2>1. Associates(s, t, x)
    BY ConcatThree
  <2>. QED
    BY <2>1 DEF Associates
<1>. DEFINE u == s \o t
<1>2. u \in Seq(Byte)
  OBVIOUS
<1>3. (r \o u) \o x = r \o (u \o x)
  <2>. HIDE DEF u
  <2>1. Associates(r, u, x)
    BY <1>2, ConcatThree
  <2>. QED
    BY <2>1 DEF Associates
<1>. QED
  BY <1>1, <1>3, Zenon DEF Regrouped

LEMMA WriteFrameKeepsInv ==
  ASSUME FramingInv, NEW m \in Messages, WriteFrame(m)
  PROVE  FramingInv'
<1>. DEFINE e == Encode(m)
            x == WriteBytes(e)
            ok == ~torn /\ WriteBytes(Framed(m)) = Framed(m)
            f == [message |-> m, intact |-> ok]
<1>1. e \in Seq(NonZero) /\ m \in Seq(Byte)
  BY EncodedIsDecoded, FramingAssumption
<1>2. Framed(m) = Append(e, 0)
  BY DEF Framed
<1>. HIDE DEF e
<1>3. x \in Seq(NonZero) /\ WriteBytes(Framed(m)) = Append(x, 0)
  BY <1>1, <1>2, SentinelIsWritten
<1>. HIDE DEF x
<1>4. f \in Frame
  BY DEF Frame
<1>5. f.intact => ~torn /\ x = Encode(m)
  <2>. SUFFICES ASSUME ok PROVE ~torn /\ x = Encode(m)
    OBVIOUS
  <2>1. ~torn /\ Append(x, 0) = Append(e, 0)
    BY <1>2, <1>3
  <2>2. x \in Seq(Byte) /\ e \in Seq(Byte) /\ 0 \in Byte
    BY <1>1, <1>3, NonZeroIs
  <2>3. x = e
    BY <2>1, <2>2, AppendInjective
  <2>. QED
    BY <2>1, <2>3 DEF e
<1>6. f.message = m
  OBVIOUS
<1>7. /\ wire' = wire \o WriteBytes(Framed(m))
      /\ sent' = Append(sent, f)
      /\ torn' = FALSE
      /\ UNCHANGED <<serial, cuts, buffered, readBytes, bufSize, decoder, received>>
  BY DEF WriteFrame, frameVars
<1>. HIDE DEF f
<1>8. wire' = wire \o Append(x, 0)
  BY <1>3, <1>7
<1>9. Append(x, 0) \in Seq(Byte)
  BY <1>3, NonZeroIs
<1>10. Stream' = Stream \o Append(x, 0)
  <2>. DEFINE y == Append(x, 0)
  <2>1. y \in Seq(Byte) /\ wire' = wire \o y
    BY <1>8, <1>9
  <2>. HIDE DEF y
  <2>2. Stream' = readBytes \o (buffered \o (wire \o y))
    BY <1>7, <2>1 DEF Stream
  <2>3. readBytes \o (buffered \o (wire \o y)) = (readBytes \o (buffered \o wire)) \o y
    <3>1. readBytes \in Seq(Byte) /\ buffered \in Seq(Byte) /\ wire \in Seq(Byte)
      BY InvIs
    <3>2. Regrouped(readBytes, buffered, wire, y)
      BY <2>1, <3>1, StreamGrows
    <3>. QED
      BY <3>2 DEF Regrouped
  <2>. QED
    BY <2>2, <2>3, Zenon DEF Stream, y
<1>11. Delimited(Stream, Len(received), sent, torn)
  BY DEF FramingInv
<1>12. f.intact => ~torn /\ x = Encode(f.message)
  BY <1>5, <1>6
<1>13. Delimited(Stream \o Append(x, 0), Len(received), Append(sent, f), FALSE)
  BY <1>3, <1>4, <1>11, <1>12, InvIs, FrameIsWritten
<1>14. Delimited(Stream, Len(received), sent, torn)'
  BY <1>7, <1>10, <1>13
<1>15. /\ sent' \in Seq(Frame) /\ Len(sent') = Len(sent) + 1
       /\ \A k \in 1..Len(sent) : sent'[k] = sent[k]
  BY <1>4, <1>7, InvIs
<1>16. wire' \in Seq(Byte)
  BY <1>8, <1>9, InvIs
<1>17. FramingTypeOK'
  BY <1>7, <1>15, <1>16 DEF FramingInv, FramingTypeOK, Frame, Fits
<1>18. OneFrameInOneOut'
  <2>1. \A k \in DOMAIN received : k \in 1..Len(sent)
    BY InvIs
  <2>2. Len(received') <= Len(sent')
    BY <1>7, <1>15, InvIs
  <2>3. \A k \in DOMAIN received' :
          sent'[k].intact => received'[k] = <<"frame", sent'[k].message>>
    BY <1>7, <1>15, <2>1, InvIs
  <2>. QED
    BY <2>2, <2>3 DEF OneFrameInOneOut
<1>. QED
  BY <1>7, <1>14, <1>17, <1>18 DEF FramingInv

LEMMA CutFrameKeepsInv ==
  ASSUME FramingInv, NEW m \in Messages, NEW n \in Nat, CutFrame(m, n)
  PROVE  FramingInv'
<1>. DEFINE w == WriteBytes(Encode(m))
            x == SubSeq(w, 1, n)
<1>1. m \in Seq(Byte)
  BY FramingAssumption
<1>2. Encode(m) \in Seq(NonZero)
  BY <1>1, EncodedIsDecoded
<1>3. w \in Seq(NonZero) /\ n \in 1..Len(w)
  BY <1>2, SentinelIsWritten DEF CutFrame
<1>4. x \in Seq(NonZero)
  <2>. HIDE DEF w
  <2>. QED
    BY <1>3
<1>5. /\ wire' = wire \o x /\ torn' = TRUE
      /\ cuts < MaxCuts /\ cuts' = cuts + 1
      /\ UNCHANGED <<serial, sent, buffered, readBytes, bufSize, decoder, received>>
  BY DEF CutFrame, frameVars
<1>. HIDE DEF x
<1>6. x \in Seq(Byte)
  BY <1>4, NonZeroIs
<1>7. Stream' = Stream \o x
  <2>1. Stream' = readBytes \o (buffered \o (wire \o x))
    BY <1>5 DEF Stream
  <2>2. readBytes \o (buffered \o (wire \o x)) = (readBytes \o (buffered \o wire)) \o x
    <3>1. readBytes \in Seq(Byte) /\ buffered \in Seq(Byte) /\ wire \in Seq(Byte)
      BY InvIs
    <3>2. Regrouped(readBytes, buffered, wire, x)
      BY <1>6, <3>1, StreamGrows
    <3>. QED
      BY <3>2 DEF Regrouped
  <2>. QED
    BY <2>1, <2>2, Zenon DEF Stream
<1>8. Delimited(Stream, Len(received), sent, torn)
  BY DEF FramingInv
<1>9. Delimited(Stream \o x, Len(received), sent, TRUE)
  BY <1>4, <1>8, InvIs, PartIsWritten
<1>10. Delimited(Stream, Len(received), sent, torn)'
  BY <1>5, <1>7, <1>9
<1>11. wire' \in Seq(Byte)
  BY <1>5, <1>6, InvIs
<1>12. cuts' \in 0..MaxCuts
  BY <1>5, FramingAssumption DEF FramingInv, FramingTypeOK
<1>13. FramingTypeOK'
  BY <1>5, <1>11, <1>12 DEF FramingInv, FramingTypeOK, Fits
<1>14. OneFrameInOneOut'
  BY <1>5 DEF FramingInv, OneFrameInOneOut
<1>. QED
  BY <1>5, <1>10, <1>13, <1>14 DEF FramingInv

LEMMA ReadChunkKeepsInv ==
  ASSUME FramingInv, NEW n \in 1..ChunkSize, ReadChunk(n)
  PROVE  FramingInv'
<1>1. /\ buffered = <<>> /\ n \in 1..Len(wire)
      /\ buffered' = SubSeq(wire, 1, n)
      /\ wire' = SubSeq(wire, n + 1, Len(wire))
      /\ UNCHANGED <<serial, torn, sent, cuts, readBytes, bufSize, decoder, received>>
  BY DEF ReadChunk, writeVars, frameVars
<1>2. wire \in Seq(Byte)
  BY InvIs
<1>3. /\ buffered' \in Seq(Byte) /\ Len(buffered') = n /\ wire' \in Seq(Byte)
      /\ buffered' \o wire' = wire /\ <<>> \o wire = wire
  BY <1>1, <1>2
<1>4. Stream' = Stream
  BY <1>1, <1>3 DEF Stream
<1>5. FramingTypeOK'
  BY <1>1, <1>3 DEF FramingInv, FramingTypeOK, Fits
<1>6. OneFrameInOneOut'
  BY <1>1 DEF FramingInv, OneFrameInOneOut
<1>7. Delimited(Stream, Len(received), sent, torn)'
  BY <1>1, <1>4 DEF FramingInv
<1>. QED
  BY <1>1, <1>5, <1>6, <1>7 DEF FramingInv

(* A byte that is taken from the buffer.                                   *)
LEMMA ReadByteIs ==
  ASSUME FramingInv, NEW b \in Byte, ReadByte(b)
  PROVE  /\ buffered' \in Seq(Byte) /\ Len(buffered') <= ChunkSize
         /\ Stream = readBytes \o (<<b>> \o (buffered' \o wire))
         /\ Stream = Append(readBytes, b) \o (buffered' \o wire)
         /\ UNCHANGED <<serial, torn, sent, cuts, wire>>
<1>1. /\ buffered # <<>> /\ b = Head(buffered) /\ buffered' = Tail(buffered)
      /\ UNCHANGED <<serial, torn, sent, cuts, wire>>
  BY DEF ReadByte, writeVars
<1>2. /\ buffered \in Seq(Byte) /\ wire \in Seq(Byte) /\ readBytes \in Seq(Byte)
      /\ Len(buffered) <= ChunkSize
  BY InvIs DEF FramingInv, FramingTypeOK
<1>3. /\ buffered' \in Seq(Byte) /\ Len(buffered') = Len(buffered) - 1
      /\ buffered = <<b>> \o buffered'
  BY <1>1, <1>2
<1>4. Len(buffered') <= ChunkSize
  BY <1>2, <1>3, FramingAssumption
<1>. DEFINE t == buffered'
<1>. HIDE DEF t
<1>5. t \in Seq(Byte) /\ <<b>> \in Seq(Byte)
  BY <1>3 DEF t
<1>6. (<<b>> \o t) \o wire = <<b>> \o (t \o wire)
  <2>1. Associates(<<b>>, t, wire)
    BY <1>2, <1>5, ConcatThree
  <2>. QED
    BY <2>1 DEF Associates
<1>7. Stream = readBytes \o (<<b>> \o (t \o wire))
  BY <1>3, <1>6, Zenon DEF Stream, t
<1>8. readBytes \o (<<b>> \o (t \o wire)) = Append(readBytes, b) \o (t \o wire)
  <2>. DEFINE u == t \o wire
  <2>1. u \in Seq(Byte)
    BY <1>2, <1>5
  <2>. HIDE DEF u
  <2>2. (readBytes \o <<b>>) \o u = readBytes \o (<<b>> \o u)
    <3>1. Associates(readBytes, <<b>>, u)
      BY <1>2, <1>5, <2>1, ConcatThree
    <3>. QED
      BY <3>1 DEF Associates
  <2>3. readBytes \o <<b>> = Append(readBytes, b)
    BY <1>2
  <2>. QED
    BY <2>2, <2>3, Zenon DEF u
<1>9. Stream = Append(readBytes, b) \o (t \o wire)
  BY <1>7, <1>8, Zenon
<1>. QED
  BY <1>1, <1>3, <1>4, <1>7, <1>9 DEF t

(* A byte of a frame: what has been read is what the decoder was fed, and  *)
(* fits, also after the buffer has grown.                                  *)
LEMMA ByteKeepsInv ==
  ASSUME FramingInv, NEW b \in Byte, FeedByte(b) \/ GrowBuffer(b)
  PROVE  FramingInv'
<1>1. /\ ReadByte(b) /\ b # 0
      /\ readBytes' = Append(readBytes, b)
      /\ received' = received
  BY DEF FeedByte, GrowBuffer
<1>2. b \in NonZero
  BY <1>1 DEF NonZero
<1>3. readBytes \in Seq(NonZero) /\ decoder = Push(readBytes)
      /\ decoder \in DecoderState /\ Len(decoder.out) <= bufSize /\ bufSize \in Nat
  BY InvIs
<1>. DEFINE d == Feed(decoder, b)
<1>4. /\ readBytes' \in Seq(NonZero) /\ Push(readBytes') = d
      /\ d \in DecoderState /\ Len(d.out) <= Len(decoder.out) + 1
  <2>1. Append(readBytes, b) \in Seq(NonZero)
    BY <1>2, <1>3
  <2>2. Push(Append(readBytes, b)) = Feed(Push(readBytes), b)
    BY <1>2, <1>3, PushIs
  <2>. QED
    BY <1>1, <1>2, <1>3, <2>1, <2>2, FeedIs
<1>5. Len(d.out) \in Nat /\ Len(decoder.out) \in Nat
  BY <1>3, <1>4 DEF DecoderState
<1>. HIDE DEF d
<1>6. /\ decoder' = d /\ bufSize' \in Nat /\ Len(d.out) <= bufSize'
  <2>1. CASE FeedByte(b)
    <3>1. decoder' = d /\ bufSize' = bufSize /\ Len(d.out) <= bufSize
      BY <2>1 DEF FeedByte, Fits, d
    <3>. QED
      BY <1>3, <3>1
  <2>2. CASE GrowBuffer(b)
    <3>1. decoder' = Push(Append(readBytes, b)) /\ bufSize' = bufSize + FrameBufSize
      BY <2>2 DEF GrowBuffer
    <3>2. decoder' = d
      BY <1>1, <1>4, <3>1
    <3>3. Len(d.out) <= bufSize + FrameBufSize /\ bufSize + FrameBufSize \in Nat
      BY <1>3, <1>4, <1>5, FramingAssumption
    <3>. QED
      BY <3>1, <3>2, <3>3
  <2>. QED
    BY <2>1, <2>2
<1>7. /\ buffered' \in Seq(Byte) /\ Len(buffered') <= ChunkSize
      /\ Stream = Append(readBytes, b) \o (buffered' \o wire)
      /\ UNCHANGED <<serial, torn, sent, cuts, wire>>
  BY <1>1, ReadByteIs
<1>8. Stream' = Stream
  BY <1>1, <1>7 DEF Stream
<1>9. readBytes' \in Seq(Byte) /\ wire' \in Seq(Byte)
  BY <1>4, <1>7, NonZeroIs, InvIs
<1>10. decoder' = Push(readBytes') /\ Len(decoder'.out) <= bufSize'
  BY <1>4, <1>6
<1>11. FramingTypeOK'
  BY <1>6, <1>7, <1>9, <1>10 DEF FramingInv, FramingTypeOK, Fits
<1>12. OneFrameInOneOut'
  BY <1>1, <1>7 DEF FramingInv, OneFrameInOneOut
<1>13. Delimited(Stream, Len(received), sent, torn)'
  BY <1>1, <1>7, <1>8 DEF FramingInv
<1>14. received' \in Seq(Answer)
  BY <1>1, InvIs
<1>. QED
  BY <1>4, <1>11, <1>12, <1>13, <1>14 DEF FramingInv

(* A sentinel: the bytes before it are the next frame, and an intact frame *)
(* is decoded to its message.                                              *)
LEMMA SentinelKeepsInv ==
  ASSUME FramingInv, NEW b \in Byte, EndFrame(b) \/ FrameError(b)
  PROVE  FramingInv'
<1>. DEFINE lo == Len(received)
            out == IF decoder.left = 0 THEN <<"frame", decoder.out>> ELSE <<"error">>
<1>1. /\ ReadByte(b) /\ b = 0
      /\ received' = Append(received, out)
      /\ readBytes' = <<>> /\ bufSize' = FrameBufSize /\ decoder' = NewDecoder
  BY DEF EndFrame, FrameError, Return
<1>2. /\ buffered' \in Seq(Byte) /\ Len(buffered') <= ChunkSize
      /\ Stream = readBytes \o (<< 0 >> \o (buffered' \o wire))
      /\ UNCHANGED <<serial, torn, sent, cuts, wire>>
  BY <1>1, ReadByteIs
<1>. DEFINE rest == buffered' \o wire
<1>3. rest \in Seq(Byte)
  BY <1>2, InvIs
<1>4. /\ readBytes \in Seq(NonZero) /\ lo \in Nat /\ sent \in Seq(Frame)
      /\ lo <= Len(sent) /\ torn \in BOOLEAN /\ received \in Seq(Answer)
      /\ decoder = Push(readBytes) /\ decoder \in DecoderState
  BY InvIs
<1>. HIDE DEF rest
<1>5. Delimited(readBytes \o (<< 0 >> \o rest), lo, sent, torn)
  BY <1>2 DEF FramingInv, rest
<1>6. /\ lo + 1 <= Len(sent)
      /\ sent[lo + 1].intact => readBytes = Encode(sent[lo + 1].message)
      /\ Delimited(rest, lo + 1, sent, torn)
  <2>. HIDE DEF lo
  <2>. QED
    BY <1>3, <1>4, <1>5, FrameIsRead
<1>7. sent[lo + 1].intact => out = <<"frame", sent[lo + 1].message>>
  <2>. SUFFICES ASSUME sent[lo + 1].intact
                PROVE  out = <<"frame", sent[lo + 1].message>>
    OBVIOUS
  <2>1. lo + 1 \in 1..Len(sent)
    BY <1>4, <1>6
  <2>2. sent[lo + 1].message \in Seq(Byte)
    BY <1>4, <2>1, MessageIs
  <2>3. decoder.left = 0 /\ decoder.out = sent[lo + 1].message
    BY <1>4, <1>6, <2>2, EncodedIsDecoded
  <2>. QED
    BY <2>3
<1>8. out \in Answer
  BY <1>4 DEF Answer, DecoderState
<1>. HIDE DEF out
<1>9. /\ received' \in Seq(Answer) /\ Len(received') = lo + 1
      /\ \A k \in 1..lo : received'[k] = received[k]
      /\ received'[lo + 1] = out
  BY <1>1, <1>4, <1>8
<1>10. Stream' = rest
  <2>1. Stream' = <<>> \o rest
    BY <1>1, <1>2 DEF Stream, rest
  <2>. QED
    BY <1>3, <2>1
<1>11. Delimited(Stream, Len(received), sent, torn)'
  BY <1>2, <1>6, <1>9, <1>10
<1>12. OneFrameInOneOut'
  <2>1. ASSUME NEW k \in 1..(lo + 1), sent[k].intact
        PROVE  received'[k] = <<"frame", sent[k].message>>
    <3>1. CASE k = lo + 1
      BY <1>7, <1>9, <2>1, <3>1
    <3>2. CASE k # lo + 1
      <4>1. k \in 1..lo /\ k \in DOMAIN received
        BY <1>4, <3>2
      <4>2. received[k] = <<"frame", sent[k].message>>
        BY <2>1, <4>1, InvIs
      <4>. QED
        BY <1>9, <4>1, <4>2
    <3>. QED
      BY <3>1, <3>2
  <2>2. DOMAIN received' = 1..(lo + 1)
    BY <1>9
  <2>. QED
    BY <1>2, <1>6, <1>9, <2>1, <2>2 DEF OneFrameInOneOut
<1>13. /\ readBytes' = <<>> /\ <<>> \in Seq(NonZero) /\ <<>> \in Seq(Byte)
       /\ decoder' = Push(readBytes') /\ Len(decoder'.out) <= bufSize'
       /\ bufSize' \in Nat
  <2>1. NewDecoder.out = <<>> /\ Len(<<>>) = 0
    BY DEF NewDecoder
  <2>2. Len(decoder'.out) = 0 /\ bufSize' \in Nat
    BY <1>1, <2>1, FramingAssumption
  <2>3. decoder' = Push(readBytes')
    BY <1>1, PushIs
  <2>. QED
    BY <1>1, <2>2, <2>3
<1>14. FramingTypeOK'
  BY <1>2, <1>13 DEF FramingInv, FramingTypeOK, Fits
<1>. QED
  BY <1>9, <1>11, <1>12, <1>13, <1>14 DEF FramingInv

LEMMA InitFramingInv == FramingInit => FramingInv
<1>. SUFFICES ASSUME FramingInit PROVE FramingInv
  OBVIOUS
<1>1. /\ serial \in BOOLEAN /\ wire = <<>> /\ torn = FALSE /\ sent = <<>> /\ cuts = 0
      /\ buffered = <<>> /\ readBytes = <<>> /\ bufSize = FrameBufSize
      /\ decoder = NewDecoder /\ received = <<>>
  BY DEF FramingInit
<1>2. /\ <<>> \in Seq(Byte) /\ <<>> \in Seq(NonZero) /\ <<>> \in Seq(Answer)
      /\ <<>> \in Seq(Frame) /\ Len(<<>>) = 0 /\ <<>> \o (<<>> \o <<>>) = <<>>
  OBVIOUS
<1>3. decoder = Push(readBytes) /\ Len(decoder.out) <= bufSize
  <2>1. NewDecoder.out = <<>> /\ FrameBufSize \in Nat
    BY FramingAssumption DEF NewDecoder
  <2>. QED
    BY <1>1, <1>2, <2>1, PushIs
<1>4. FramingTypeOK
  <2>1. cuts \in 0..MaxCuts /\ bufSize \in Nat /\ Len(buffered) <= ChunkSize
    BY <1>1, <1>2, FramingAssumption
  <2>2. /\ wire \in Seq(Byte) /\ buffered \in Seq(Byte) /\ readBytes \in Seq(Byte)
        /\ sent \in Seq(Frame) /\ torn \in BOOLEAN /\ serial \in BOOLEAN
    BY <1>1, <1>2
  <2>. QED
    BY <1>3, <2>1, <2>2 DEF FramingTypeOK, Frame, Fits
<1>5. OneFrameInOneOut
  BY <1>1, <1>2 DEF OneFrameInOneOut
<1>6. Delimited(<<>>, 0, <<>>, FALSE)
  <2>. DEFINE ends == [j \in 0..0 |-> 0]
  <2>1. Marked(<<>>, ends, 0, 0) /\ ends[0] = 0
    BY <1>2 DEF Marked
  <2>2. Carries(<<>>, ends, 0, <<>>)
    BY <1>2 DEF Carries
  <2>. HIDE DEF ends
  <2>. QED
    BY <1>2, <2>1, <2>2 DEF Delimited
<1>7. Delimited(Stream, Len(received), sent, torn)
  <2>1. Stream = <<>>
    BY <1>1, <1>2 DEF Stream
  <2>. QED
    BY <1>1, <1>2, <1>6, <2>1
<1>. QED
  BY <1>1, <1>2, <1>4, <1>5, <1>7 DEF FramingInv

LEMMA NextFramingInv == FramingInv /\ [FramingNext]_framingVars => FramingInv'
<1>. SUFFICES ASSUME FramingInv, [FramingNext]_framingVars PROVE FramingInv'
  OBVIOUS
<1>1. CASE \E m \in Messages : WriteFrame(m)
  BY <1>1, WriteFrameKeepsInv
<1>2. CASE \E m \in Messages : \E n \in 1..Len(WriteBytes(Encode(m))) : CutFrame(m, n)
  <2>0. PICK m \in Messages : \E n \in 1..Len(WriteBytes(Encode(m))) : CutFrame(m, n)
    BY <1>2
  <2>1. PICK n \in 1..Len(WriteBytes(Encode(m))) : CutFrame(m, n)
    BY <2>0
  <2>2. n \in Nat
    OBVIOUS
  <2>. QED
    BY <2>1, <2>2, CutFrameKeepsInv
<1>3. CASE \E n \in 1..ChunkSize : ReadChunk(n)
  BY <1>3, ReadChunkKeepsInv
<1>4. CASE \E b \in Byte : FeedByte(b) \/ GrowBuffer(b)
  BY <1>4, ByteKeepsInv
<1>5. CASE \E b \in Byte : EndFrame(b) \/ FrameError(b)
  BY <1>5, SentinelKeepsInv
<1>6. CASE UNCHANGED framingVars
  <2>1. UNCHANGED <<serial, torn, sent, cuts, wire, buffered, readBytes, bufSize,
                    decoder, received>>
    BY <1>6 DEF framingVars, writeVars, frameVars
  <2>2. Stream' = Stream
    BY <2>1 DEF Stream
  <2>3. FramingTypeOK' /\ OneFrameInOneOut'
    BY <2>1 DEF FramingInv, FramingTypeOK, OneFrameInOneOut, Fits
  <2>4. Delimited(Stream, Len(received), sent, torn)'
    BY <2>1, <2>2 DEF FramingInv
  <2>. QED
    BY <2>1, <2>3, <2>4 DEF FramingInv
<1>. QED
  BY <1>1, <1>2, <1>3, <1>4, <1>5, <1>6 DEF FramingNext, Write, Read

LEMMA FramingInvariance == FramingSpec => []FramingInv
<1>. QED
  BY InitFramingInv, NextFramingInv, PTL DEF FramingSpec

(* The types, and that what has been read of a frame is what the decoder   *)
(* was fed and fits the buffer, however often it has grown (mod.rs:210).   *)
THEOREM FramingTypeCorrect == FramingSpec => []FramingTypeOK
<1>1. FramingInv => FramingTypeOK
  BY DEF FramingInv
<1>. QED
  BY <1>1, FramingInvariance, PTL

(* The k-th answer is that of the k-th frame, and it is the message if the *)
(* frame is intact (mod.rs:202-236).                                       *)
THEOREM FramesArriveInOrder == FramingSpec => []OneFrameInOneOut
<1>1. FramingInv => OneFrameInOneOut
  BY DEF FramingInv
<1>. QED
  BY <1>1, FramingInvariance, PTL
=============================================================================
