----------------------------- MODULE Normalizer -----------------------------
(***************************************************************************)
(* worker/normalize.py: the normalize job, as the worker's ARQ slots run   *)
(* run it. It reads the row, waits for the language model, writes text and *)
(* hash in one transaction with the duplicate check, and enqueues what     *)
(* follows. Editors may change the row while it waits. The tags that it    *)
(* writes are part of Catalog.                                             *)
(***************************************************************************)
EXTENDS PostStore

CONSTANTS
    Workers,        \* the worker's concurrent jobs (max_jobs)
    MaxNormalize,   \* bound of the normalize jobs waiting per post
    TextPosts       \* posts whose raw_media_refs are empty

ASSUME WorkersAssumption == IsFiniteSet(Workers)
ASSUME NormalizeAssumption == MaxNormalize \in Nat \ {0} /\ TextPosts \subseteq Posts

VARIABLES
    normQueue,  \* normalize jobs waiting in Redis, per post
    work,       \* what each slot is doing
    drafted,    \* posts for which a post_draft job was enqueued
    dropped,    \* posts whose normalize job raised and was not run again
    duplicates  \* posts that a normalize or publish job rejected as duplicates

normalizerVars == <<normQueue, work, drafted, dropped>>

\* "started" has read the row and its channel, "routing" has committed.
Work == [pc : {"idle", "started", "routing"}, post : Posts \cup {NoPost}]

NormalizerTypeOK == /\ normQueue \in [Posts -> 0 .. MaxNormalize]
                    /\ work \in [Workers -> Work]
                    /\ drafted \subseteq Posts
                    /\ dropped \subseteq Posts
                    /\ duplicates \subseteq Posts

Free == [pc |-> "idle", post |-> NoPost]

NormalizerInit == /\ normQueue = [p \in Posts |-> 1]
                  /\ work = [w \in Workers |-> Free]
                  /\ drafted = {}
                  /\ dropped = {}
                  /\ duplicates = {}

Working(w, pc) == work[w].pc = pc

End(w) == work' = [work EXCEPT ![w] = Free]

AddNormalize(ps) == normQueue' = [p \in Posts |-> IF p \in ps THEN normQueue[p] + 1
                                                  ELSE normQueue[p]]

TakeNormalize(w, p) == /\ Working(w, "idle")
                       /\ normQueue[p] > 0
                       /\ normQueue' = [normQueue EXCEPT ![p] = @ - 1]
                       /\ UNCHANGED <<storeVars, drafted, dropped, duplicates>>

SkipNormalize(w, p) == /\ TakeNormalize(w, p)
                       /\ post[p].state \in {"absent", "published", "rejected"}
                       /\ UNCHANGED work

StartNormalize(w, p) ==
    /\ TakeNormalize(w, p)
    /\ post[p].state \notin {"absent", "published", "rejected"}
    /\ work' = [work EXCEPT ![w] = [pc |-> "started", post |-> p]]

\* (mutant) a post of the same content is enough, published or not
SeenBefore(h) == \E p \in Posts : post[p].hash = h

\* _is_duplicate looks at the rows within the window only.
IsDuplicate(h) == dedupe[h] # Never /\ ~Expired(h)

\* The end of the job's transaction: the flush of the row locks it, so the
\* duplicate check and the commit are one step. Whether the language model
\* answered makes no difference here. A row that is gone ends the job.
FinishNormalize(w) ==
    LET p == work[w].post
        duplicate == IsDuplicate(HashOf[p])
    IN /\ Working(w, "started")
       /\ IF ~Exists(p) THEN End(w) /\ UNCHANGED <<post, duplicates>>
          ELSE /\ post' = [post EXCEPT ![p].hash = HashOf[p],
                               ![p].state = IF duplicate THEN "rejected" ELSE @]
               /\ duplicates' = IF duplicate THEN duplicates \cup {p} ELSE duplicates
               /\ IF duplicate THEN End(w) ELSE work' = [work EXCEPT ![w].pc = "routing"]
       /\ UNCHANGED <<dedupe, queue, now, normQueue, drafted, dropped>>

\* (mutant) a draft is posted, and published at once
RouteToBoth(w) ==
    LET p == work[w].post IN
    /\ Working(w, "routing")
    /\ End(w)
    /\ HasRoom(p, Never) /\ Enqueue(p, Never)
    /\ IF p \in AutoPosts THEN UNCHANGED drafted ELSE drafted' = drafted \cup {p}
    /\ UNCHANGED <<post, dedupe, now, normQueue, dropped, duplicates>>

\* decide_route. The post_draft job is the business of the cards.
Route(w) ==
    LET p == work[w].post IN
    /\ Working(w, "routing")
    /\ End(w)
    /\ IF p \in AutoPosts THEN HasRoom(p, Never) /\ Enqueue(p, Never) /\ UNCHANGED drafted
       ELSE drafted' = drafted \cup {p} /\ UNCHANGED queue
    /\ UNCHANGED <<post, dedupe, now, normQueue, dropped, duplicates>>

\* A template that cannot be rendered, a statement, job_timeout, or Redis that
\* refuses the next job: ARQ drops this one, or runs it again.
NormalizeRaises(w) ==
    /\ "normalize" \in Faults
    /\ ~Working(w, "idle")
    /\ End(w)
    /\ \/ dropped' = dropped \cup {work[w].post} /\ UNCHANGED normQueue
       \/ /\ normQueue[work[w].post] < MaxNormalize
          /\ AddNormalize({work[w].post})
          /\ UNCHANGED dropped
    /\ UNCHANGED <<storeVars, drafted, duplicates>>

\* (mutant) ARQ takes a job off the queue when it starts
WorkerLosesJobs ==
    /\ "worker" \in Faults
    /\ \E w \in Workers : ~Working(w, "idle")
    /\ work' = [w \in Workers |-> Free]
    /\ UNCHANGED <<storeVars, normQueue, drafted, dropped, duplicates>>

\* retry_jobs: what was in hand is run again by the next process.
WorkerStops ==
    LET inHand == {work[w].post : w \in {v \in Workers : ~Working(v, "idle")}} IN
    /\ "worker" \in Faults
    /\ inHand # {}
    /\ \A p \in inHand : normQueue[p] < MaxNormalize
    /\ AddNormalize(inHand)
    /\ work' = [w \in Workers |-> Free]
    /\ UNCHANGED <<storeVars, drafted, dropped, duplicates>>

\* The userbot boots: reconcile_pending re-enqueues what looks like an orphan,
\* and any pending post without media does, normalized or not.
ReconcilePending ==
    LET orphans == {p \in TextPosts : post[p].state = "pending"} IN
    /\ orphans # {}
    /\ \A p \in orphans : normQueue[p] < MaxNormalize
    /\ AddNormalize(orphans)
    /\ UNCHANGED <<storeVars, work, drafted, dropped, duplicates>>

NormalizeStep(w) == \/ \E p \in Posts : SkipNormalize(w, p) \/ StartNormalize(w, p)
                    \/ FinishNormalize(w) \/ Route(w)

NormalizerNext == \/ \E w \in Workers : NormalizeStep(w) \/ NormalizeRaises(w)
                  \/ WorkerStops
                  \/ ReconcilePending
=============================================================================
