----------------------------- MODULE MCFetcher -----------------------------
(* Fetcher on a chain of six blocks fetched two at a time, one of them     *)
(* with two MASP transactions and three with none.                         *)
EXTENDS Fetcher

MCNotes == {<<1, 1>>, <<2, 1>>, <<2, 2>>, <<5, 1>>}
=============================================================================
