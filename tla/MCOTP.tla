------------------------------- MODULE MCOTP -------------------------------
(***************************************************************************)
(* Instances of OTP for TLC.                                               *)
(***************************************************************************)
EXTENDS OTP, TLC

Fresh == Permutations(Ids) \cup Permutations(Ips) \cup Permutations(Tokens)
=============================================================================
