----------------------------- MODULE MCWebAuthn -----------------------------
(***************************************************************************)
(* Instances of WebAuthn for TLC.                                          *)
(***************************************************************************)
EXTENDS WebAuthn, TLC

Fresh == Permutations(Users) \cup Permutations(Threads)
=============================================================================
