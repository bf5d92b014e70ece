----------------------------- MODULE MCPushAuth -----------------------------
(***************************************************************************)
(* Instances of PushAuth for TLC.                                          *)
(***************************************************************************)
EXTENDS PushAuth, TLC

Fresh == Permutations(Reqs) \cup Permutations(Users) \cup Permutations(Keys)
           \cup Permutations(Threads)
=============================================================================
