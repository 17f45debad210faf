---------------------------- MODULE MCDraftCards ----------------------------
(***************************************************************************)
(* An instance of DraftCards for TLC: two callbacks beside the job, a job  *)
(* of a kind that waits beside the one in hand, two cards and one stop.    *)
(***************************************************************************)
EXTENDS DraftCards
=============================================================================
