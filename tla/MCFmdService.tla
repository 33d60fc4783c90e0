---------------------------- MODULE MCFmdService ----------------------------
(* The service on a chain of three blocks, with two transactions.          *)
EXTENDS FmdService

MCNotes == {<<2, 1>>, <<3, 1>>}
MCBirthdays == {NoBirthday, 2}
=============================================================================
