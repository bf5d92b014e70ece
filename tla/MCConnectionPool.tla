-------------------------- MODULE MCConnectionPool --------------------------
(***************************************************************************)
(* Instances of ConnectionPool for TLC.  No symmetry: there are temporal   *)
(* properties.                                                             *)
(***************************************************************************)
EXTENDS ConnectionPool

CONSTANTS t1, t2, t3, t4
=============================================================================
