---------------------------- MODULE MCPublishing ----------------------------
(***************************************************************************)
(* Instances of Publishing for TLC: one or two posts of one or two         *)
(* channels. Two posts carry the same content unless their name says so.   *)
(***************************************************************************)
EXTENDS PublishingClaims

CONSTANTS p1, p2, s1, s2, h1, h2, c1, c2

OneHash == [p \in Posts |-> h1]
TwoHashes == [p \in Posts |-> IF p = p1 THEN h1 ELSE h2]
OneChannel == [p \in Posts |-> c1]
OwnChannel == [p \in Posts |-> IF p = p1 THEN c1 ELSE c2]
=============================================================================
