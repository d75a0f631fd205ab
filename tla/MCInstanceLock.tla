---------------------------- MODULE MCInstanceLock ----------------------------
(***************************************************************************)
(* Model-checking values for InstanceLock: three processes, three baseline *)
(* files.                                                                  *)
(***************************************************************************)
EXTENDS InstanceLock, TLC

CONSTANTS p1, p2, p3

MCProcs == {p1, p2, p3}
MCSymmetry == Permutations(MCProcs)
=============================================================================
