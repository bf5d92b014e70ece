------------------------------ MODULE MCQRAuth ------------------------------
(***************************************************************************)
(* Instances of QRAuth for TLC.                                            *)
(***************************************************************************)
EXTENDS QRAuth, TLC

\* One desktop; a phone beside it, on a network next to it, and elsewhere.
ThreeNetworks == {<<10, 0, 1, 5>>, <<10, 0, 2, 5>>, <<172, 16, 1, 5>>}

\* One network, and a caller that passes no address.
OneNetwork == {<<10, 0, 1, 5>>}

Fresh == Permutations(Sids) \cup Permutations(Devices) \cup Permutations(Threads)
=============================================================================
