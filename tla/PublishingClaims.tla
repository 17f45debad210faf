-------------------------- MODULE PublishingClaims --------------------------
(***************************************************************************)
(* What the documentation says of publishing and the code does not keep.   *)
(* Each is checked by a run of its own that is expected to refute it.      *)
(***************************************************************************)
EXTENDS Publishing

(* docs/ARCHITECTURE.md: `rejected (terminal)'. A job that read the row    *)
(* before the rejection claims it after.                                   *)
RejectedIsNotClaimed ==
    [][\A p \in Posts : post[p].state = "rejected"
                            => post'[p].state # "publishing"]_vars

(* docs/ARCHITECTURE.md: if the send succeeds, _mark_published completes   *)
(* normally. With nothing going wrong, no post that was sent is failed.    *)
SentIsNotFailed ==
    \A p \in Posts : post[p].state = "publish_failed" => sends[p] = 0
=============================================================================
