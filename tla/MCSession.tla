------------------------------- MODULE MCSession -------------------------------
(***************************************************************************)
(* Model-checking values for Session.                                      *)
(***************************************************************************)
EXTENDS Session

CONSTANTS a, d

MCAttended == {a}
MCUnattended == {d}
=============================================================================
