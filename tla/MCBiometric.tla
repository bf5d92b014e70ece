---------------------------- MODULE MCBiometric ----------------------------
(***************************************************************************)
(* Instances of Biometric for TLC.                                         *)
(***************************************************************************)
EXTENDS Biometric, TLC

Fresh == Permutations(Users) \cup Permutations(Threads) \cup Permutations(Keys)
           \cup Permutations(Challenges) \cup Permutations(Spellings)

\* One life of the server process.
LifeSpec == Init /\ [][Next /\ ~Restart]_vars
=============================================================================
