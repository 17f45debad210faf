------------------------------ MODULE MCSchema ------------------------------
(***************************************************************************)
(* An instance of Schema for TLC: one content in published_dedupe.         *)
(***************************************************************************)
EXTENDS Schema

CONSTANT h1
=============================================================================
