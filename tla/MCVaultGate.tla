------------------------------ MODULE MCVaultGate ------------------------------
(***************************************************************************)
(* Model-checking values for VaultGate.                                    *)
(***************************************************************************)
EXTENDS VaultGate, TLC

CONSTANTS f1, f2

MCFolders == {f1, f2}
MCSymmetry == Permutations(MCFolders)
=============================================================================
