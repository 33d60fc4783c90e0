------------------------------ MODULE MCClient ------------------------------
(* Client with two services that may hold three shares, a chain of two     *)
(* blocks above the birthday, one transaction of the user and one that     *)
(* only the first share detects.                                           *)
EXTENDS Client

MCTxs       == {<<2, 0>>, <<3, 0>>}
MCRelevant  == {<<2, 0>>}
MCNoise     == {<<1, <<3, 0>>>>}
MCBirthdays == {NoBirthday}

ServiceSymmetry == Permutations(Services)
=============================================================================
