------------------------------ MODULE MCLifecycle ------------------------------
(***************************************************************************)
(* Model-checking values for Lifecycle.                                    *)
(***************************************************************************)
EXTENDS Lifecycle, TLC

CONSTANTS c1, c2

MCClients == {c1, c2}
MCSymmetry == Permutations(MCClients)
=============================================================================
