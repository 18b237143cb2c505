---------------------------- MODULE MCQrPairing ----------------------------
(***************************************************************************)
(* Instances of QrPairing for TLC.                                         *)
(***************************************************************************)
EXTENDS QrPairing, TLC

Symmetry == Permutations(Sids) \cup Permutations(Tasks) \cup Permutations(Socks)
=============================================================================
