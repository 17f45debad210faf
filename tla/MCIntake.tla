------------------------------ MODULE MCIntake ------------------------------
(***************************************************************************)
(* An instance of Intake for TLC: one channel with three messages, the     *)
(* second of which carries media.                                          *)
(***************************************************************************)
EXTENDS Intake

CONSTANT c1

SecondHasMedia == {<<c1, 2>>}
=============================================================================
