----------------------------- MODULE MCCatalog -----------------------------
(***************************************************************************)
(* An instance of Catalog for TLC: a channel, a post, two tags and two     *)
(* requests at a time.                                                     *)
(***************************************************************************)
EXTENDS Catalog

CONSTANTS c1, p1, t1, t2, r1, r2

SomeLists == {{}, {t1, t2}}

OneChannel == [p \in Posts |-> c1]
=============================================================================
