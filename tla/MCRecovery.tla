----------------------------- MODULE MCRecovery -----------------------------
(***************************************************************************)
(* Instances of Recovery for TLC.                                          *)
(***************************************************************************)
EXTENDS Recovery, TLC

Symmetric ==
    Permutations(Users) \cup Permutations(Threads) \cup Permutations(Codes)
=============================================================================
