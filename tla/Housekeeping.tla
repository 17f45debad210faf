---------------------------- MODULE Housekeeping ----------------------------
(***************************************************************************)
(* worker/reconcile.py: the overdue scheduled posts re-enqueued when the   *)
(* worker boots, and the daily pruning of published_dedupe.                *)
(***************************************************************************)
EXTENDS PostStore

CONSTANT ReconcileMaxAge    \* _RECONCILE_MAX_AGE_DAYS, in ticks

ASSUME ReconcileAssumption == ReconcileMaxAge \in Nat

Overdue == {p \in Posts : /\ post[p].state = "scheduled"
                          /\ post[p].scheduledFor # Never
                          /\ post[p].scheduledFor <= now
                          /\ now - post[p].scheduledFor <= ReconcileMaxAge
                          /\ ~post[p].hasMessage}

\* reconcile_scheduled at boot. The loop stops where an enqueue raises.
ReconcileScheduled ==
    /\ Overdue # {}
    /\ \A p \in Overdue : HasRoom(p, Never)
    /\ \E requeued \in SUBSET Overdue :
          /\ requeued = Overdue \/ "enqueue" \in Faults
          /\ queue' = [p \in Posts |-> IF p \in requeued
                                       THEN [queue[p] EXCEPT ![Never] = @ + 1]
                                       ELSE queue[p]]
    /\ UNCHANGED <<post, dedupe, now>>

\* prune_dedupe: one DELETE for every row older than the lookback window.
PruneDedupe ==
    /\ \E h \in Hashes : Expired(h)
    /\ dedupe' = [h \in Hashes |-> IF Expired(h) THEN Never ELSE dedupe[h]]
    /\ UNCHANGED <<post, queue, now>>

HousekeepingNext == ReconcileScheduled \/ PruneDedupe
=============================================================================
