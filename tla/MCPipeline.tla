----------------------------- MODULE MCPipeline -----------------------------
(***************************************************************************)
(* Instances of Pipeline for TLC: two posts with the same content.         *)
(***************************************************************************)
EXTENDS Pipeline

CONSTANTS p1, p2, s1, w1, w2, h1, c1

OneHash == [p \in Posts |-> h1]
OneChannel == [p \in Posts |-> c1]
=============================================================================
