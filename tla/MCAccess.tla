------------------------------ MODULE MCAccess ------------------------------
(***************************************************************************)
(* An instance of Access for TLC: two admins, two requests that change     *)
(* them, and one login at a time of an address that may try once.          *)
(***************************************************************************)
EXTENDS Access, TLC

CONSTANTS a1, a2, r1, r2, k1

Patch(role, disabled) == [role |-> role, disabled |-> disabled]

SomePayloads == {Patch("editor", "unset"), Patch("none", "yes"),
                 Patch("super_admin", "yes"), Patch("super_admin", "no")}

RequestSymmetry == Permutations(Requests)
=============================================================================
