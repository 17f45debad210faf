----------------------------- MODULE Publisher -----------------------------
(***************************************************************************)
(* bot/publisher.py: the publish job, as the slots of the bot's ARQ worker *)
(* run it. Each action is what one job does between two awaits at which    *)
(* another job, another service or a failure can come in between.          *)
(***************************************************************************)
EXTENDS PostStore

CONSTANTS
    Slots,              \* the worker's concurrent jobs (max_concurrent_publishes)
    AddAcceptsInsert    \* does Session.add take an INSERT statement?

ASSUME SlotsAssumption == IsFiniteSet(Slots)
ASSUME AddAssumption == AddAcceptsInsert \in BOOLEAN

VARIABLES
    job,        \* what each slot is doing
    sends,      \* how often a post has shown up in the destination channel
    acked       \* the reservation under which content was last acknowledged

publisherVars == <<job, sends, acked>>

\* The point a job has reached: "loaded" has read the row, "claimed" has
\* committed `publishing', "checked" saw no dedupe row, "waiting" owns one
\* and waits for the send lock, and so on.
Reserving == {"waiting", "sending", "resending", "releasing", "sent"}
PC == {"idle", "loaded", "claimed", "checked", "duplicate", "marked", "failing"}
          \cup Reserving

Job == [pc: PC, post: Posts \cup {NoPost}, hash: Hashes \cup {NoHash},
        since: Times]

\* Sends are counted up to two: that a post was sent more than once is all
\* that any property asks.
SendBound == 2

JobTypeOK == /\ job \in [Slots -> Job]
             /\ \A s \in Slots : (job[s].pc = "idle") <=> (job[s].post = NoPost)

PublisherTypeOK == /\ JobTypeOK
                   /\ sends \in [Posts -> 0 .. SendBound]
                   /\ acked \in [Hashes -> Times \cup {Never}]

IdleJob == [pc |-> "idle", post |-> NoPost, hash |-> NoHash, since |-> 1]

PublisherInit == /\ job = [s \in Slots |-> IdleJob]
                 /\ sends = [p \in Posts |-> 0]
                 /\ acked = [h \in Hashes |-> Never]

Busy(s) == job[s].pc # "idle"

\* The job in slot s owns the dedupe row of its content.
Holds(s, h) == job[s].hash = h /\ job[s].pc \in Reserving

At(s, pc) == job[s].pc = pc

Goto(s, pc) == job' = [job EXCEPT ![s].pc = pc]

Finish(s) == job' = [job EXCEPT ![s] = IdleJob]

SetState(p, st) == post' = [post EXCEPT ![p].state = st]
-----------------------------------------------------------------------------
SkipStates == {"rejected", "published", "publishing"}

\* (mutant) only approved posts are picked up, scheduled ones are not
SkipsScheduled(p) == \/ ~Exists(p) \/ post[p].hasMessage
                     \/ post[p].state \in SkipStates \cup {"scheduled"}

\* (mutant) the state alone is looked at
SkipsByState(p) == ~Exists(p) \/ post[p].state \in SkipStates

Skips(p) == ~Exists(p) \/ post[p].hasMessage \/ post[p].state \in SkipStates

\* ARQ hands a due job for p to an idle slot.
Dequeue(s, p, d) == /\ At(s, "idle")
                    /\ d <= now
                    /\ queue[p][d] > 0
                    /\ queue' = [queue EXCEPT ![p][d] = @ - 1]

\* The row is gone, published, rejected or in some other job's hands.
Skip(s, p, d) == /\ Dequeue(s, p, d)
                 /\ Skips(p)
                 /\ UNCHANGED <<post, dedupe, now, publisherVars>>

Load(s, p, d) == /\ Dequeue(s, p, d)
                 /\ ~Skips(p)
                 /\ job' = [job EXCEPT ![s] = [pc |-> "loaded", post |-> p,
                                               hash |-> post[p].hash, since |-> now]]
                 /\ UNCHANGED <<post, dedupe, now, sends, acked>>

\* The UPDATE names the row only: what was committed since the SELECT is
\* overwritten, and a row deleted since makes the flush raise.
Claim(s) == /\ At(s, "loaded")
            /\ IF Exists(job[s].post)
               THEN SetState(job[s].post, "publishing") /\ Goto(s, "claimed")
               ELSE UNCHANGED post /\ Goto(s, "failing")
            /\ UNCHANGED <<dedupe, queue, now, sends, acked>>

ChannelMissing(s) == /\ At(s, "claimed")
                     /\ ~Exists(job[s].post)
                     /\ Finish(s)
                     /\ UNCHANGED <<storeVars, sends, acked>>

CheckDedupe(s) ==
    /\ At(s, "claimed")
    /\ Exists(job[s].post)
    /\ Goto(s, IF job[s].hash = NoHash THEN "waiting"
               ELSE IF dedupe[job[s].hash] = Never THEN "checked" ELSE "duplicate")
    /\ UNCHANGED <<storeVars, sends, acked>>

\* (mutant) whether the INSERT took is not looked at
ReserveAnyway(s) ==
    /\ At(s, "checked")
    /\ dedupe' = [dedupe EXCEPT ![job[s].hash] = now]
    /\ Goto(s, "waiting")
    /\ UNCHANGED <<post, queue, now, sends, acked>>

\* INSERT ... ON CONFLICT DO NOTHING
Reserve(s) ==
    /\ At(s, "checked")
    /\ IF dedupe[job[s].hash] = Never
       THEN dedupe' = [dedupe EXCEPT ![job[s].hash] = now] /\ Goto(s, "waiting")
       ELSE UNCHANGED dedupe /\ Goto(s, "duplicate")
    /\ UNCHANGED <<post, queue, now, sends, acked>>

MarkDuplicate(s) ==
    /\ At(s, "duplicate")
    /\ IF Exists(job[s].post) THEN SetState(job[s].post, "rejected") ELSE UNCHANGED post
    /\ Finish(s)
    /\ UNCHANGED <<dedupe, queue, now, sends, acked>>
-----------------------------------------------------------------------------
\* _send_lock is held from the pause before the send to its last outcome.
InSend(s) == job[s].pc \in {"sending", "resending"}

AcquireSendLock(s) == /\ At(s, "waiting")
                      /\ \A t \in Slots : ~InSend(t)
                      /\ Goto(s, "sending")
                      /\ UNCHANGED <<storeVars, sends, acked>>

\* The post, or the part of it that went out before a call raised, is visible
\* in the destination channel.
Deliver(s) == sends' = [sends EXCEPT ![job[s].post] =
                            IF @ = SendBound THEN @ ELSE @ + 1]

\* _send_post returns a message id.
SendSucceeds(s) ==
    /\ InSend(s)
    /\ Deliver(s)
    /\ acked' = IF job[s].hash = NoHash THEN acked
                ELSE [acked EXCEPT ![job[s].hash] = dedupe[job[s].hash]]
    /\ Goto(s, "sent")
    /\ UNCHANGED storeVars

\* A call of _send_post raises or returns no message id: nothing went out, or
\* the answer was lost, or a message after the primary one failed. Flood control asks for one more try
\* of the whole post; anything else, and flood control again, gives up.
SendRaises(s) ==
    /\ "telegram" \in Faults
    /\ InSend(s)
    /\ \/ At(s, "sending") /\ Goto(s, "resending")
       \/ Goto(s, "releasing")
    /\ Deliver(s) \/ UNCHANGED sends
    /\ UNCHANGED <<storeVars, acked>>

\* (mutant) the reservation of a failed send stays
KeepReservation(s) == /\ At(s, "releasing")
                      /\ Goto(s, "failing")
                      /\ UNCHANGED <<storeVars, sends, acked>>

Release(s) ==
    /\ At(s, "releasing")
    /\ dedupe' = IF job[s].hash = NoHash THEN dedupe
                 ELSE [dedupe EXCEPT ![job[s].hash] = Never]
    /\ Goto(s, "failing")
    /\ UNCHANGED <<post, queue, now, sends, acked>>

\* Session.add raises for a statement, before the commit.
AddRaises(s) == job[s].hash # NoHash /\ ~AddAcceptsInsert

\* (mutant) the reservation is taken for a lock and dropped with success
MarkPublishedAndRelease(s) ==
    /\ At(s, "sent")
    /\ Goto(s, "marked")
    /\ post' = IF ~Exists(job[s].post) THEN post
               ELSE [post EXCEPT ![job[s].post].state = "published",
                                 ![job[s].post].hasMessage = TRUE]
    /\ dedupe' = IF job[s].hash = NoHash THEN dedupe
                 ELSE [dedupe EXCEPT ![job[s].hash] = Never]
    /\ UNCHANGED <<queue, now, sends, acked>>

\* (mutant) a record that fails is treated like a send that failed
MarkPublishedOrRelease(s) == /\ At(s, "sent")
                             /\ Goto(s, "releasing")
                             /\ UNCHANGED <<storeVars, sends, acked>>

\* A row that is gone is left alone, and the job still ends well.
MarkPublished(s) ==
    /\ At(s, "sent")
    /\ IF Exists(job[s].post) /\ AddRaises(s)
       THEN Goto(s, "failing") /\ UNCHANGED <<post, dedupe>>
       ELSE /\ Goto(s, "marked")
            /\ post' = IF ~Exists(job[s].post) THEN post
                       ELSE [post EXCEPT ![job[s].post].state = "published",
                                         ![job[s].post].hasMessage = TRUE]
            /\ dedupe' = IF \/ ~Exists(job[s].post)
                            \/ job[s].hash = NoHash
                            \/ dedupe[job[s].hash] # Never
                         THEN dedupe ELSE [dedupe EXCEPT ![job[s].hash] = now]
    /\ UNCHANGED <<queue, now, sends, acked>>

\* The card's text is another component's; only that the job ends matters here.
EditDraftCard(s) == /\ At(s, "marked")
                    /\ Finish(s)
                    /\ UNCHANGED <<storeVars, sends, acked>>
-----------------------------------------------------------------------------
\* ARQ drops a job that raised or was cancelled, or runs it again: its retry
\* rules are the library's.
MayRunAgain(p) == UNCHANGED queue \/ Enqueue(p, Never)

\* (mutant) a state the column does not have
RecordFailureAsFailed(s) ==
    /\ At(s, "failing")
    /\ IF Exists(job[s].post) THEN SetState(job[s].post, "failed") ELSE UNCHANGED post
    /\ MayRunAgain(job[s].post)
    /\ Finish(s)
    /\ UNCHANGED <<dedupe, now, sends, acked>>

\* _on_publish_failure, and the re-raise.
RecordFailure(s) ==
    /\ At(s, "failing")
    /\ IF Exists(job[s].post)
       THEN SetState(job[s].post, "publish_failed") ELSE UNCHANGED post
    /\ MayRunAgain(job[s].post)
    /\ Finish(s)
    /\ UNCHANGED <<dedupe, now, sends, acked>>

\* A statement of _publish_core raises: on to _on_publish_failure. When that
\* one raises too, nothing is recorded.
StatementRaises(s) ==
    /\ "db" \in Faults
    /\ \/ /\ job[s].pc \in {"loaded", "claimed", "checked", "duplicate",
                            "releasing", "sent", "marked"}
          /\ Goto(s, "failing")
          /\ UNCHANGED queue
       \/ /\ At(s, "failing")
          /\ MayRunAgain(job[s].post)
          /\ Finish(s)
    /\ UNCHANGED <<post, dedupe, now, sends, acked>>

\* job_timeout cancels the job wherever it is: CancelledError passes every
\* `except Exception', so no reservation is released and no state recorded.
JobTimesOut(s) ==
    /\ "timeout" \in Faults
    /\ Busy(s)
    /\ MayRunAgain(job[s].post)
    /\ Finish(s)
    /\ UNCHANGED <<post, dedupe, now, sends, acked>>

\* (mutant) a job is taken off the queue when it starts
CrashLosesJobs ==
    /\ "crash" \in Faults
    /\ \E s \in Slots : Busy(s)
    /\ job' = [s \in Slots |-> IdleJob]
    /\ UNCHANGED <<storeVars, sends, acked>>

\* The process ends with jobs in hand; ARQ keeps a job queued until it is
\* finished, so each one starts over.
BotCrashes ==
    /\ "crash" \in Faults
    /\ \E s \in Slots : Busy(s)
    /\ queue' = [p \in Posts |-> [queue[p] EXCEPT
                     ![Never] = @ + Cardinality({s \in Slots : job[s].post = p})]]
    /\ job' = [s \in Slots |-> IdleJob]
    /\ UNCHANGED <<post, dedupe, now, sends, acked>>

\* What a slot does once it has a job, when nothing external goes wrong.
JobStep(s) == \/ Claim(s) \/ ChannelMissing(s) \/ CheckDedupe(s) \/ Reserve(s)
              \/ MarkDuplicate(s) \/ AcquireSendLock(s) \/ SendSucceeds(s)
              \/ SendRaises(s) \/ Release(s) \/ MarkPublished(s)
              \/ EditDraftCard(s) \/ RecordFailure(s)

StartJob(s, p) == \E d \in Dues : Skip(s, p, d) \/ Load(s, p, d)

PublisherNext == \/ \E s \in Slots : \/ \E p \in Posts : StartJob(s, p)
                                     \/ JobStep(s)
                                     \/ StatementRaises(s)
                                     \/ JobTimesOut(s)
                 \/ BotCrashes
=============================================================================
