----------------------------- MODULE MCFtpPassive -----------------------------
(***************************************************************************)
(* FtpPassive for TLC: the properties do not tell connections apart.       *)
(***************************************************************************)
EXTENDS FtpPassive, TLC

Symmetry == Permutations(Controls) \cup Permutations(Transfers)
=============================================================================
