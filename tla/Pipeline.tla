------------------------------ MODULE Pipeline ------------------------------
(***************************************************************************)
(* Normalizer and Publishing together: from a pending row without a hash   *)
(* to the destination channel, on the rows, reservations and jobs that the *)
(* worker, the bot and the editors share.                                  *)
(***************************************************************************)
EXTENDS Publishing, Normalizer

VARIABLE cleared    \* history: for a post of a `queue' channel, the earliest instant
                    \* from which an editor has let it out

pipelineVars == <<vars, normalizerVars, duplicates, cleared>>

\* An instant that does not come.
NotYet == MaxTime + 1

\* Every message has been ingested; nothing is normalized.
PipelineInit == /\ Init /\ Normalized = {} /\ NormalizerInit
                /\ cleared = [p \in Posts \ AutoPosts |-> NotYet]

\* What publishing does to the list of duplicates: MarkDuplicate adds to it.
MarkedDuplicate == {job[s].post : s \in {t \in Slots : /\ At(t, "duplicate")
                                                       /\ job'[t].pc = "idle"
                                                       /\ post'[job[t].post].state = "rejected"}}

\* Approve, schedule and the Approve button say in the row since when.
LetOut(p) == IF post[p].state = "approved" THEN Never
             ELSE IF post[p].state = "scheduled" THEN post[p].scheduledFor ELSE NotYet

PublishingStep == /\ Next
                  /\ duplicates' = duplicates \cup MarkedDuplicate
                  /\ cleared' = [p \in Posts \ AutoPosts |->
                        IF cleared[p] <= LetOut(p)' THEN cleared[p] ELSE LetOut(p)']
                  /\ UNCHANGED normalizerVars

PipelineNext == \/ PublishingStep
                \/ NormalizerNext /\ UNCHANGED <<publisherVars, deleting, cleared>>

PipelineSpec == PipelineInit /\ [][PipelineNext]_pipelineVars
-----------------------------------------------------------------------------
(* Types. *)
PipelineTypeOK == /\ TypeOK
                  /\ NormalizerTypeOK
                  /\ cleared \in [Posts \ AutoPosts -> {Never, NotYet} \cup Times]

OnItsWay(p) == \/ normQueue[p] > 0
               \/ \E w \in Workers : ~Working(w, "idle") /\ work[w].post = p
               \/ IF p \in AutoPosts THEN queue[p][Never] > 0 \/ \E s \in Slots : job[s].post = p
                  ELSE p \in drafted

(* No post is forgotten between the services unless its normalize job      *)
(* raised: one that is pending is queued for normalize or in its hands, or *)
(* has its publish job or its draft card, though the worker and the bot    *)
(* may stop at any point (normalize, retry_jobs). Only the publish job of  *)
(* an `auto' channel is lost when it is cancelled or cannot say it failed. *)
PendingIsOnItsWay ==
    \A p \in Posts \ dropped :
        /\ post[p].state = "pending"
        /\ p \in AutoPosts => Faults \cap {"timeout", "db"} = {}
        => OnItsWay(p)

(* What is rejected as a duplicate is a duplicate of something: as long as *)
(* Telegram answers and no job of the bot is interrupted, its content is   *)
(* in the channel or in the hands of a publish job (_is_duplicate,         *)
(* _dedupe_exists).                                                        *)
DuplicateOfSomething ==
    Faults \cap {"telegram", "crash", "timeout", "db"} = {} =>
        \A p \in duplicates : \/ acked[HashOf[p]] # Never
                              \/ \E s \in Slots : Holds(s, HashOf[p])

(* Nothing of a channel with policy `queue' reaches the destination before *)
(* an editor approved it, or before the earliest time an editor scheduled  *)
(* it for, whatever jobs are left over, started again or put back          *)
(* (decide_route, enqueue_publish, publish, reconcile_scheduled).          *)
NothingUnapprovedGoesOut == \A p \in Posts \ AutoPosts : sends[p] > 0 => cleared[p] <= now
=============================================================================
