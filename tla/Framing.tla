------------------------------ MODULE Framing ------------------------------
(***************************************************************************)
(* How a message goes from one party to another, one direction of one      *)
(* connection (shared/src/communication/mod.rs, FramedBytes;               *)
(* shared/src/communication/tcp.rs, host/src/com.rs, client/src/com.rs,    *)
(* tdx/src/com.rs).                                                        *)
(*                                                                         *)
(* A message is encoded with COBS, which leaves no zero in it, and ended   *)
(* with a zero, the sentinel.  The reader takes the bytes in chunks and    *)
(* feeds them to a decoder one by one; when the frame does not fit its     *)
(* buffer it takes a larger one and feeds it all the bytes again.  The     *)
(* serial port of the TDX guest rewrites some bytes, and a writer that is  *)
(* killed leaves a part of a frame on the line.                            *)
(***************************************************************************)
EXTENDS Naturals, Sequences

CONSTANTS
  Messages,      \* the messages, as sequences of bytes
  MaxRun,        \* the most bytes of a COBS block, 254 in the code
  Rewritten,     \* the bytes that the serial port rewrites: 8 and 0x7F
  Space,         \* and the byte it puts between two backspaces
  Backspace,
  FrameBufSize,  \* FRAME_BUF_SIZE
  ChunkSize,     \* the most bytes of one read, 10 in the code
  MaxFrames,     \* bound on the frames written
  MaxCuts        \* bound on the frames cut short

Byte == 0..(MaxRun + 1)

ASSUME FramingAssumption ==
  /\ MaxRun \in Nat \ {0}
  /\ Messages \subseteq Seq(Byte)
  /\ Rewritten \subseteq Byte \ {0} /\ {Space, Backspace} \subseteq Byte \ {0}
  /\ FrameBufSize \in Nat \ {0} /\ ChunkSize \in Nat \ {0}
  /\ MaxFrames \in Nat /\ MaxCuts \in Nat

VARIABLES
  serial,     \* the writer is a TDX guest behind its serial port
  wire,       \* the bytes on the line
  torn,       \* the last frame on the line has no end
  sent,       \* history: the frames that have one, whether they are intact
  cuts,       \* frames cut short so far
  buffered,   \* Tcp.buffered
  readBytes,  \* get_frame: read_bytes
  bufSize,    \* get_frame: buf_size
  decoder,    \* get_frame: the decoder, and what it has put in the buffer
  received    \* what get_frame has returned, call after call

writeVars   == <<serial, torn, sent, cuts>>
frameVars   == <<readBytes, bufSize, decoder>>
framingVars == <<writeVars, wire, buffered, frameVars, received>>

-----------------------------------------------------------------------------
(* The COBS library.  A block is its length plus one and its bytes; a zero *)
(* follows each block but a full one and the last.                         *)
CloseBlock(e) == [done |-> e.done \o <<Len(e.run) + 1>> \o e.run, run |-> <<>>]

EncodeByte(e, b) ==
  LET longer == [e EXCEPT !.run = Append(@, b)]
  IN  IF b = 0 THEN CloseBlock(e)
      ELSE IF Len(longer.run) = MaxRun THEN CloseBlock(longer)
      ELSE longer

Encode(m) ==
  LET blocks[n \in 0..Len(m)] ==
        IF n = 0 THEN [done |-> <<>>, run |-> <<>>]
        ELSE EncodeByte(blocks[n - 1], m[n])
  IN  CloseBlock(blocks[Len(m)]).done

(* The decoder: the bytes it has put in the buffer, how many of the block  *)
(* are left, and whether a zero follows the block if another block does.   *)
NewDecoder == [out |-> <<>>, left |-> 0, zero |-> FALSE]

Pending(d) == IF d.zero THEN Append(d.out, 0) ELSE d.out

Feed(d, b) ==
  IF d.left = 0
  THEN [out |-> Pending(d), left |-> b - 1, zero |-> b <= MaxRun]
  ELSE [d EXCEPT !.out = Append(@, b), !.left = @ - 1]

Push(bytes) ==
  LET fed[n \in 0..Len(bytes)] ==
        IF n = 0 THEN NewDecoder ELSE Feed(fed[n - 1], bytes[n])
  IN  fed[Len(bytes)]

Fits(d) == Len(d.out) <= bufSize

-----------------------------------------------------------------------------
(* HostCom::write_byte, and the other writers.                             *)
WriteByte(b) ==
  IF serial /\ b \in Rewritten THEN <<Backspace, Space, Backspace>> ELSE <<b>>

WriteBytes(bytes) ==
  LET written[n \in 0..Len(bytes)] ==
        IF n = 0 THEN <<>> ELSE written[n - 1] \o WriteByte(bytes[n])
  IN  written[Len(bytes)]

FramingInit ==
  /\ serial \in BOOLEAN
  /\ wire = <<>> /\ torn = FALSE /\ sent = <<>> /\ cuts = 0
  /\ buffered = <<>>
  /\ readBytes = <<>> /\ bufSize = FrameBufSize /\ decoder = NewDecoder
  /\ received = <<>>

(* Mutant: write_frame does not push the sentinel.                         *)
MutFramed(m) == Encode(m)

Framed(m) == Append(Encode(m), 0)

WriteFrame(m) ==
  /\ Len(sent) < MaxFrames
  /\ wire' = wire \o WriteBytes(Framed(m))
  /\ sent' = Append(sent, [message |-> m,
                           intact |-> ~torn /\ WriteBytes(Framed(m)) = Framed(m)])
  /\ torn' = FALSE
  /\ UNCHANGED <<serial, cuts, buffered, frameVars, received>>

(* The writer is killed in write_all, and its successor goes on with the   *)
(* same line.                                                              *)
CutFrame(m, n) ==
  /\ cuts < MaxCuts
  /\ n \in 1..Len(WriteBytes(Encode(m)))
  /\ wire' = wire \o SubSeq(WriteBytes(Encode(m)), 1, n)
  /\ torn' = TRUE
  /\ cuts' = cuts + 1
  /\ UNCHANGED <<serial, sent, buffered, frameVars, received>>

-----------------------------------------------------------------------------
(* Mutant: the bytes that were buffered are overwritten.                   *)
MutReadChunk(n) ==
  /\ n \in 1..Len(wire)
  /\ buffered' = SubSeq(wire, 1, n)
  /\ wire' = SubSeq(wire, n + 1, Len(wire))
  /\ UNCHANGED <<writeVars, frameVars, received>>

(* buffered_read, when nothing is buffered.                                *)
ReadChunk(n) ==
  /\ buffered = <<>>
  /\ n \in 1..Len(wire)
  /\ buffered' = SubSeq(wire, 1, n)
  /\ wire' = SubSeq(wire, n + 1, Len(wire))
  /\ UNCHANGED <<writeVars, frameVars, received>>

(* get_frame: a byte is read, remembered, and fed to the decoder.          *)
ReadByte(b) ==
  /\ buffered # <<>> /\ b = Head(buffered)
  /\ buffered' = Tail(buffered)
  /\ UNCHANGED <<writeVars, wire>>

Return(result) ==
  /\ received' = Append(received, result)
  /\ readBytes' = <<>> /\ bufSize' = FrameBufSize /\ decoder' = NewDecoder

FeedByte(b) ==
  /\ ReadByte(b)
  /\ b # 0
  /\ Fits(Feed(decoder, b))
  /\ decoder' = Feed(decoder, b)
  /\ readBytes' = Append(readBytes, b)
  /\ UNCHANGED <<bufSize, received>>

(* Mutant: the new buffer is no larger.                                    *)
MutGrowBuffer(b) ==
  /\ ReadByte(b)
  /\ b # 0
  /\ ~Fits(Feed(decoder, b))
  /\ decoder' = Push(Append(readBytes, b))
  /\ readBytes' = Append(readBytes, b)
  /\ UNCHANGED <<bufSize, received>>

(* Mutant: the byte that did not fit is not fed to the new decoder.        *)
MutForget(b) ==
  /\ ReadByte(b)
  /\ b # 0
  /\ ~Fits(Feed(decoder, b))
  /\ bufSize' = bufSize + FrameBufSize
  /\ decoder' = Push(readBytes)
  /\ UNCHANGED <<readBytes, received>>

(* TargetBufTooSmall: a larger buffer, and all the bytes again.            *)
GrowBuffer(b) ==
  /\ ReadByte(b)
  /\ b # 0
  /\ ~Fits(Feed(decoder, b))
  /\ bufSize' = bufSize + FrameBufSize
  /\ decoder' = Push(Append(readBytes, b))
  /\ readBytes' = Append(readBytes, b)
  /\ UNCHANGED received

(* The sentinel, where the length of a block could be.                     *)
EndFrame(b) ==
  /\ ReadByte(b)
  /\ b = 0 /\ decoder.left = 0
  /\ Return(<<"frame", decoder.out>>)

(* Mutant: the reader goes on with the next frame after an error.          *)
MutFrameError(b) ==
  /\ ReadByte(b)
  /\ b = 0 /\ decoder.left # 0
  /\ decoder' = NewDecoder
  /\ UNCHANGED <<readBytes, bufSize, received>>

(* A sentinel in the middle of a block.                                    *)
FrameError(b) ==
  /\ ReadByte(b)
  /\ b = 0 /\ decoder.left # 0
  /\ Return(<<"error">>)

-----------------------------------------------------------------------------
Write == \E m \in Messages :
           WriteFrame(m) \/ \E n \in 1..Len(WriteBytes(Encode(m))) : CutFrame(m, n)

Read ==
  \/ \E n \in 1..ChunkSize : ReadChunk(n)
  \/ \E b \in Byte : FeedByte(b) \/ GrowBuffer(b) \/ EndFrame(b) \/ FrameError(b)

FramingNext == Write \/ Read

FramingSpec == FramingInit /\ [][FramingNext]_framingVars

(* The reader waits for the next byte and takes it.                        *)
FramingFairSpec == FramingSpec /\ WF_framingVars(Read)

-----------------------------------------------------------------------------
(* The types of the variables.  What has been read of a frame always fits  *)
(* the buffer, so that the bytes that are fed again never produce an error *)
(* (mod.rs:216 "Previously read bytes should not produce a frame error."). *)
FramingTypeOK ==
  /\ serial \in BOOLEAN /\ torn \in BOOLEAN
  /\ wire \in Seq(Byte) /\ buffered \in Seq(Byte) /\ readBytes \in Seq(Byte)
  /\ Len(buffered) <= ChunkSize
  /\ sent \in Seq([message : Messages, intact : BOOLEAN])
  /\ cuts \in 0..MaxCuts
  /\ bufSize \in Nat
  /\ decoder = Push(readBytes) /\ Fits(decoder)

(* One frame in, one answer out: the k-th call of get_frame returns for    *)
(* the k-th sentinel, and a frame that was written whole and not rewritten *)
(* arrives as it was sent, however the bytes are chunked, however often    *)
(* the buffer grows, and whatever happened to the frames before it         *)
(* (mod.rs:202-236).                                                       *)
OneFrameInOneOut ==
  /\ Len(received) <= Len(sent)
  /\ \A k \in DOMAIN received :
       sent[k].intact => received[k] = <<"frame", sent[k].message>>

(* Every frame that has an end is answered, also a broken one: the reader  *)
(* never waits for a byte that the writer will not send (mod.rs:210-235).  *)
EventuallyReceived ==
  \A k \in 1..MaxFrames : Len(sent) >= k ~> Len(received) >= k
=============================================================================
