--------------------------- MODULE OutcomeProofs ---------------------------
(***************************************************************************)
(* What is left behind when publishing is not disturbed: no decision       *)
(* without a job, no reservation without a send.                           *)
(***************************************************************************)
EXTENDS PublishingProofs

Undisturbed == Faults \cap {"enqueue", "callback", "timeout", "db"} = {}

LEMMA TimesAreNat ==
    /\ Never \in Dues /\ Times \cup {Never} \subseteq Nat
    /\ DueTimes \subseteq Dues /\ DueTimes \subseteq Nat
<1>1. Times \subseteq Nat /\ Never \in Nat
  BY TimeAssumption DEF Times, Never
<1>2. QED BY <1>1, TimeAssumption DEF Dues

(* A step that keeps a post's due times and its jobs, or leaves nothing to *)
(* be done for it, loses no decision.                                      *)
LEMMA PostKept ==
    ASSUME NEW p \in Posts, Undone(p) => JobInTime(p),
           \/ ~Undone(p)'
           \/ /\ post'[p] = post[p]
              /\ \A d \in Dues : queue[p][d] > 0 => queue'[p][d] > 0
              /\ \A s \in Slots : job[s].post = p /\ At(s, "loaded")
                                      => job'[s] = job[s]
    PROVE  Undone(p)' => JobInTime(p)'
  BY DEF Undone, JobInTime, At

LEMMA EnqueueGrows ==
    ASSUME queue \in [Posts -> [Dues -> Nat]], NEW p \in Posts, NEW d \in Dues, Enqueue(p, d)
    PROVE  /\ queue'[p][d] > 0
           /\ \A q \in Posts, e \in Dues : queue[q][e] > 0 => queue'[q][e] > 0
  BY DEF Enqueue

(* Retries only add jobs.                                                  *)
LEMMA MayRunAgainGrows ==
    ASSUME queue \in [Posts -> [Dues -> Nat]], NEW p \in Posts, MayRunAgain(p)
    PROVE  \A q \in Posts, e \in Dues : queue[q][e] > 0 => queue'[q][e] > 0
<1>1. Never \in Dues
  BY DEF Dues
<1>2. QED BY <1>1, EnqueueGrows DEF MayRunAgain

LEMMA JobStepLosesNoDecision ==
    ASSUME TypeOK, Undisturbed, \A p \in Posts : Undone(p) => JobInTime(p),
           NEW s \in Slots, JobStep(s), NEW p \in Posts
    PROVE  Undone(p)' => JobInTime(p)'
<1>1. /\ JobTypeOK /\ post \in [Posts -> PostRow]
      /\ queue \in [Posts -> [Dues -> Nat]]
  BY DEF TypeOK, StoreTypeOK, PublisherTypeOK
<1>2. Busy(s) /\ job[s].post \in Posts
  BY <1>1, BusyJob
     DEF JobStep, Claim, ChannelMissing, CheckDedupe, Reserve, MarkDuplicate,
         AcquireSendLock, SendSucceeds, SendRaises, Release, MarkPublished,
         EditDraftCard, RecordFailure, InSend, Busy, At
<1>3. ASSUME ~At(s, "loaded"), \A t \in Slots \ {s} : job'[t] = job[t],
             \/ post' = post
             \/ \E st \in PostState \ {"approved", "scheduled"} : SetState(job[s].post, st),
             \A e \in Dues : queue[p][e] > 0 => queue'[p][e] > 0
      PROVE  Undone(p)' => JobInTime(p)'
  <2>1. post'[p] = post[p] \/ ~Undone(p)'
    BY <1>1, <1>2, <1>3 DEF SetState, Undone, PostRow
  <2>2. \A t \in Slots : job[t].post = p /\ At(t, "loaded") => job'[t] = job[t]
    BY <1>3
  <2>3. QED BY <1>3, <2>1, <2>2, PostKept
<1>4. \A pc : Goto(s, pc) => \A t \in Slots \ {s} : job'[t] = job[t]
  BY <1>1 DEF Goto, JobTypeOK
<1>5. Finish(s) => \A t \in Slots \ {s} : job'[t] = job[t]
  BY <1>1 DEF Finish, JobTypeOK
<1>6. CASE Claim(s)
  <2>1. CASE p = job[s].post
    <3>1. ~Undone(p)'
      BY <1>1, <1>6, <2>1 DEF Claim, SetState, Exists, Undone, PostRow
    <3>2. QED BY <3>1
  <2>2. CASE p # job[s].post
    <3>1. post'[p] = post[p] /\ queue' = queue /\ \A t \in Slots \ {s} : job'[t] = job[t]
      BY <1>1, <1>4, <1>6, <2>2 DEF Claim, SetState
    <3>2. QED BY <2>2, <3>1, PostKept
  <2>3. QED BY <2>1, <2>2
<1>7. CASE MarkPublished(s)
  <2>1. \A t \in Slots \ {s} : job'[t] = job[t]
    BY <1>4, <1>7 DEF MarkPublished
  <2>2. post'[p] = post[p] \/ ~Undone(p)'
    BY <1>1, <1>2, <1>7 DEF MarkPublished, Undone, PostRow
  <2>3. queue' = queue /\ ~At(s, "loaded")
    BY <1>7 DEF MarkPublished, At
  <2>4. QED BY <2>1, <2>2, <2>3, PostKept
<1>8. CASE MarkDuplicate(s) \/ RecordFailure(s)
  <2>1. {"rejected", "publish_failed"} \subseteq PostState \ {"approved", "scheduled"}
    BY DEF PostState
  <2>2. ~At(s, "loaded") /\ \A t \in Slots \ {s} : job'[t] = job[t]
    BY <1>5, <1>8 DEF MarkDuplicate, RecordFailure, At
  <2>3. \A e \in Dues : queue[p][e] > 0 => queue'[p][e] > 0
    BY <1>1, <1>2, <1>8, MayRunAgainGrows DEF MarkDuplicate, RecordFailure
  <2>4. \/ post' = post
        \/ \E st \in PostState \ {"approved", "scheduled"} : SetState(job[s].post, st)
    BY <1>8, <2>1 DEF MarkDuplicate, RecordFailure
  <2>5. QED BY <1>3, <2>2, <2>3, <2>4
<1>9. CASE \/ ChannelMissing(s) \/ CheckDedupe(s) \/ Reserve(s) \/ AcquireSendLock(s)
           \/ SendSucceeds(s) \/ SendRaises(s) \/ Release(s) \/ EditDraftCard(s)
  <2>1. post' = post /\ queue' = queue /\ ~At(s, "loaded")
    BY <1>9 DEF ChannelMissing, CheckDedupe, Reserve, AcquireSendLock, SendSucceeds,
                SendRaises, Release, EditDraftCard, InSend, At, storeVars
  <2>2. \A t \in Slots \ {s} : job'[t] = job[t]
    BY <1>4, <1>5, <1>9 DEF ChannelMissing, CheckDedupe, Reserve, AcquireSendLock,
                SendSucceeds, SendRaises, Release, EditDraftCard
  <2>3. QED BY <1>3, <2>1, <2>2
<1>10. QED BY <1>6, <1>7, <1>8, <1>9 DEF JobStep

(* A job leaves the queue into a slot, or for a post that is settled.      *)
LEMMA StartJobLosesNoDecision ==
    ASSUME TypeOK, \A p \in Posts : Undone(p) => JobInTime(p),
           NEW s \in Slots, NEW q \in Posts, StartJob(s, q), NEW p \in Posts
    PROVE  Undone(p)' => JobInTime(p)'
<1>1. JobTypeOK /\ queue \in [Posts -> [Dues -> Nat]]
  BY DEF TypeOK, StoreTypeOK, PublisherTypeOK
<1>2. PICK d \in Dues : Skip(s, q, d) \/ Load(s, q, d)
  BY DEF StartJob
<1>3. /\ post' = post /\ At(s, "idle") /\ queue' = [queue EXCEPT ![q][d] = @ - 1]
      /\ \A t \in Slots \ {s} : job'[t] = job[t]
  BY <1>1, <1>2 DEF Skip, Load, Dequeue, publisherVars, JobTypeOK
<1>4. CASE p # q
  <2>1. queue'[p] = queue[p]
    BY <1>1, <1>3, <1>4
  <2>2. QED BY <1>3, <1>4, <2>1, PostKept DEF At
<1>5. CASE p = q /\ Skip(s, q, d)
  <2>1. ~Undone(p)'
    BY <1>3, <1>5 DEF Skip, Skips, SkipStates, Exists, Undone
  <2>2. QED BY <2>1
<1>6. CASE p = q /\ Load(s, q, d)
  <2>1. job'[s].post = p /\ job'[s].pc = "loaded"
    BY <1>1, <1>6 DEF Load, JobTypeOK
  <2>2. QED BY <2>1 DEF JobInTime, At
<1>7. QED BY <1>2, <1>4, <1>5, <1>6

(* A job in hand is put back, due at once.                                 *)
LEMMA CrashLosesNoDecision ==
    ASSUME TypeOK, \A p \in Posts : Undone(p) => JobInTime(p), BotCrashes, NEW p \in Posts
    PROVE  Undone(p)' => JobInTime(p)'
<1>1. /\ post \in [Posts -> PostRow] /\ queue \in [Posts -> [Dues -> Nat]]
      /\ Never \in Dues /\ Times \cup {Never} \subseteq Nat
  BY TimesAreNat DEF TypeOK, StoreTypeOK
<1> DEFINE mine == {s \in Slots : job[s].post = p}
<1>2. IsFiniteSet(mine) /\ Cardinality(mine) \in Nat
  BY SlotsAssumption, FS_Subset, JobsOfPost
<1>3. /\ post' = post
      /\ queue'[p] = [queue[p] EXCEPT ![Never] = @ + Cardinality(mine)]
  BY DEF BotCrashes
<1>4. \A d \in Dues : queue[p][d] > 0 => queue'[p][d] > 0
  BY <1>1, <1>2, <1>3
<1>5. ASSUME NEW s \in Slots, job[s].post = p PROVE queue'[p][Never] > 0
  <2>1. mine # {}
    BY <1>5
  <2>2. Cardinality(mine) # 0
    BY <1>2, <2>1, FS_EmptySet
  <2>3. QED BY <1>1, <1>2, <1>3, <2>2
<1>6. Never <= post[p].scheduledFor
  BY <1>1 DEF PostRow, Never
<1>7. QED BY <1>1, <1>3, <1>4, <1>5, <1>6 DEF Undone, JobInTime

(* Every decision to publish brings a job of its own that is in time.      *)
LEMMA DecideLosesNoDecision ==
    ASSUME TypeOK, Undisturbed, \A p \in Posts : Undone(p) => JobInTime(p),
           NEW q \in Posts, Decide(q), UNCHANGED publisherVars, NEW p \in Posts
    PROVE  Undone(p)' => JobInTime(p)'
<1>1. /\ post \in [Posts -> PostRow] /\ queue \in [Posts -> [Dues -> Nat]]
      /\ Never \in Dues /\ Times \cup {Never} \subseteq Nat
      /\ DueTimes \subseteq Dues /\ DueTimes \subseteq Nat
  BY TimesAreNat DEF TypeOK, StoreTypeOK
<1>2. job' = job /\ {"enqueue", "callback"} \cap Faults = {}
  BY DEF publisherVars, Undisturbed
<1>3. CASE Reject(q) \/ CbReject(q)
  <2>1. queue' = queue /\ (post'[p] = post[p] \/ ~Undone(p)')
    BY <1>1, <1>3 DEF Reject, CbReject, Undone, PostRow
  <2>2. QED BY <1>2, <2>1, PostKept
<1>4. ASSUME NEW d \in Dues, Enqueue(q, d), d <= post'[q].scheduledFor,
             \A r \in Posts \ {q} : post'[r] = post[r]
      PROVE  Undone(p)' => JobInTime(p)'
  <2>1. /\ queue'[q][d] > 0
        /\ \A r \in Posts, e \in Dues : queue[r][e] > 0 => queue'[r][e] > 0
    BY <1>1, <1>4, EnqueueGrows
  <2>2. CASE p = q
    BY <1>4, <2>1, <2>2 DEF JobInTime
  <2>3. CASE p # q
    BY <1>2, <1>4, <2>1, <2>3, PostKept
  <2>4. QED BY <2>2, <2>3
<1>5. CASE Approve(q) \/ CbApprove(q)
  <2>1. Enqueue(q, Never) /\ \A r \in Posts \ {q} : post'[r] = post[r]
    BY <1>1, <1>2, <1>5 DEF Approve, CbApprove, EnqueueAfterCommit
  <2>2. Never <= post'[q].scheduledFor
    BY <1>1, <1>5 DEF Approve, CbApprove, PostRow, Never
  <2>3. QED BY <1>1, <1>4, <2>1, <2>2
<1>6. ASSUME NEW t \in DueTimes, Schedule(q, t) PROVE Undone(p)' => JobInTime(p)'
  <2>1. Enqueue(q, t) /\ \A r \in Posts \ {q} : post'[r] = post[r]
    BY <1>1, <1>2, <1>6 DEF Schedule, EnqueueAfterCommit
  <2>2. t <= post'[q].scheduledFor
    BY <1>1, <1>6 DEF Schedule, PostRow
  <2>3. QED BY <1>1, <1>4, <2>1, <2>2
<1>7. QED BY <1>3, <1>5, <1>6 DEF Decide

LEMMA NextLosesNoDecision == TypeOK /\ DecidedHasJob /\ [Next]_vars => DecidedHasJob'
<1> SUFFICES ASSUME TypeOK, DecidedHasJob, [Next]_vars, Undisturbed, NEW p \in Posts
             PROVE  Undone(p)' => JobInTime(p)'
  BY DEF DecidedHasJob, Undisturbed
<1>1. \A q \in Posts : Undone(q) => JobInTime(q)
  BY DEF DecidedHasJob, Undisturbed
<1>2. ASSUME UNCHANGED <<post, queue, job>> PROVE Undone(p)' => JobInTime(p)'
  BY <1>1, <1>2, PostKept
<1>3. CASE PublisherNext
  <2>1. ASSUME NEW s \in Slots, StatementRaises(s) \/ JobTimesOut(s) PROVE FALSE
    BY <2>1 DEF StatementRaises, JobTimesOut, Undisturbed
  <2>2. QED
    BY <1>1, <1>3, <2>1, JobStepLosesNoDecision, StartJobLosesNoDecision,
       CrashLosesNoDecision DEF PublisherNext
<1>4. CASE DecisionsNext /\ UNCHANGED publisherVars
  <2>1. ASSUME NEW q \in Posts, Decide(q) PROVE Undone(p)' => JobInTime(p)'
    BY <1>1, <1>4, <2>1, DecideLosesNoDecision
  <2>2. ASSUME NEW c \in Channels, CheckChannelDeletable(c) PROVE Undone(p)' => JobInTime(p)'
    BY <1>2, <1>4, <2>2 DEF CheckChannelDeletable, storeVars, publisherVars
  <2>3. ASSUME NEW c \in Channels, DeleteChannel(c) PROVE Undone(p)' => JobInTime(p)'
    <3>1. post'[p] = post[p] \/ ~Undone(p)'
      BY <2>3 DEF DeleteChannel, NoRow, Undone
    <3>2. queue' = queue /\ job' = job
      BY <1>4, <2>3 DEF DeleteChannel, publisherVars
    <3>3. QED BY <1>1, <3>1, <3>2, PostKept
  <2>4. QED BY <1>4, <2>1, <2>2, <2>3 DEF DecisionsNext
<1>5. CASE HousekeepingNext /\ UNCHANGED <<publisherVars, deleting>>
  <2>1. CASE PruneDedupe
    BY <1>2, <1>5, <2>1 DEF PruneDedupe, publisherVars
  <2>2. CASE ReconcileScheduled
    <3>1. queue \in [Posts -> [Dues -> Nat]]
      BY DEF TypeOK, StoreTypeOK
    <3>2. \A d \in Dues : queue[p][d] > 0 => queue'[p][d] > 0
      BY <2>2, <3>1 DEF ReconcileScheduled
    <3>3. post' = post /\ job' = job
      BY <1>5, <2>2 DEF ReconcileScheduled, publisherVars
    <3>4. QED BY <1>1, <3>2, <3>3, PostKept
  <2>3. QED BY <1>5, <2>1, <2>2 DEF HousekeepingNext
<1>6. CASE Tick \/ UNCHANGED vars
  BY <1>2, <1>6 DEF Tick, vars, storeVars, publisherVars
<1>7. QED BY <1>3, <1>4, <1>5, <1>6 DEF Next

(* With Redis, the database and callbacks answering and no job timing out, *)
(* every approved or scheduled post that is not out has a job in time,     *)
(* however often the bot crashes and Telegram fails.                       *)
THEOREM NoDecisionIsLost == Spec => []DecidedHasJob
<1>1. Init => DecidedHasJob
  BY DEF Init, DecidedHasJob, Undone
<1>2. QED BY <1>1, NextLosesNoDecision, TypeCorrect, PTL DEF Spec

-----------------------------------------------------------------------------
(* What a job's step does to the rows that are held.                       *)
Held(h) == \E s \in Slots : Holds(s, h)

LEMMA SentKept ==
    ASSUME SentIsAcked,
           \A t \in Slots, h \in Hashes :
               Holds(t, h)' /\ At(t, "sent")'
                   => /\ Holds(t, h) /\ At(t, "sent")
                      /\ dedupe'[h] = dedupe[h] /\ acked'[h] = acked[h]
    PROVE  SentIsAcked'
  BY DEF SentIsAcked

LEMMA JobStepSentIsAcked ==
    ASSUME ReservationInv, SentIsAcked, NEW s \in Slots,
           JobStep(s) \/ StatementRaises(s) \/ JobTimesOut(s)
    PROVE  SentIsAcked'
<1>1. /\ JobTypeOK /\ acked \in [Hashes -> Times \cup {Never}]
      /\ dedupe \in [Hashes -> Times \cup {Never}]
  BY DEF ReservationInv, TypeOK, StoreTypeOK, PublisherTypeOK
<1>2. ASSUME NEW pc, Goto(s, pc) \/ Finish(s), pc # "sent",
             \A t \in Slots \ {s}, h \in Hashes :
                 Holds(t, h) => dedupe'[h] = dedupe[h] /\ acked'[h] = acked[h]
      PROVE  SentIsAcked'
  <2>1. job'[s].pc # "sent" /\ \A t \in Slots \ {s} : job'[t] = job[t]
    BY <1>1, <1>2, GotoEffect, FinishEffect
  <2>2. QED BY <1>2, <2>1, SentKept DEF Holds, At
<1>3. CASE Reserve(s)
  <2>1. \A h \in Hashes : dedupe[h] # Never => dedupe'[h] = dedupe[h]
    BY <1>1, <1>3 DEF Reserve
  <2>2. \A t \in Slots, h \in Hashes : Holds(t, h) => dedupe'[h] = dedupe[h]
    BY <2>1 DEF ReservationInv, RowsAreHeld
  <2>3. QED BY <1>2, <1>3, <2>2 DEF Reserve
<1>4. CASE Release(s)
  <2>1. \A t \in Slots \ {s} : ~Holds(t, job[s].hash) \/ job[s].hash \notin Hashes
    BY <1>4 DEF Release, ReservationInv, HoldersDiffer, Holds, At, Reserving
  <2>2. \A t \in Slots \ {s}, h \in Hashes : Holds(t, h) => dedupe'[h] = dedupe[h]
    BY <1>1, <1>4, <2>1 DEF Release
  <2>3. QED BY <1>2, <1>4, <2>2 DEF Release
<1>5. CASE MarkPublished(s)
  <2>1. \A h \in Hashes : dedupe[h] # Never => dedupe'[h] = dedupe[h]
    BY <1>1, <1>5 DEF MarkPublished
  <2>2. \A t \in Slots, h \in Hashes : Holds(t, h) => dedupe'[h] = dedupe[h]
    BY <2>1 DEF ReservationInv, RowsAreHeld
  <2>3. QED BY <1>2, <1>5, <2>2 DEF MarkPublished
<1>6. CASE SendSucceeds(s)
  <2>1. /\ job'[s].hash = job[s].hash /\ dedupe' = dedupe
        /\ \A t \in Slots \ {s} : job'[t] = job[t]
    BY <1>1, <1>6, GotoEffect DEF SendSucceeds, storeVars
  <2>2. job[s].hash \in Hashes => Holds(s, job[s].hash)
    BY <1>6 DEF SendSucceeds, InSend, Holds, Reserving
  <2>3. ASSUME NEW t \in Slots \ {s}, NEW h \in Hashes, Holds(t, h), At(t, "sent")
        PROVE  acked'[h] = dedupe'[h]
    <3>1. h # job[s].hash
      BY <2>2, <2>3 DEF ReservationInv, HoldersDiffer
    <3>2. acked'[h] = acked[h]
      BY <1>1, <1>6, <3>1 DEF SendSucceeds
    <3>3. QED BY <2>1, <2>3, <3>2 DEF SentIsAcked
  <2>4. \A h \in Hashes : Holds(s, h)' => acked'[h] = dedupe'[h]
    BY <1>1, <1>6, <2>1, NoHashAssumption DEF SendSucceeds, Holds
  <2>5. QED BY <2>1, <2>3, <2>4 DEF SentIsAcked, Holds, At
<1>7. CASE \/ Claim(s) \/ ChannelMissing(s) \/ CheckDedupe(s) \/ MarkDuplicate(s)
           \/ AcquireSendLock(s) \/ SendRaises(s) \/ EditDraftCard(s) \/ RecordFailure(s)
           \/ StatementRaises(s) \/ JobTimesOut(s)
  <2>1. dedupe' = dedupe /\ acked' = acked
    BY <1>7 DEF Claim, ChannelMissing, CheckDedupe, MarkDuplicate, AcquireSendLock,
                SendRaises, EditDraftCard, RecordFailure, StatementRaises, JobTimesOut,
                storeVars
  <2>2. \E pc : pc # "sent" /\ (Goto(s, pc) \/ Finish(s))
    BY <1>7 DEF Claim, ChannelMissing, CheckDedupe, MarkDuplicate, AcquireSendLock,
                SendRaises, EditDraftCard, RecordFailure, StatementRaises, JobTimesOut
  <2>3. QED BY <1>2, <2>1, <2>2
<1>8. QED BY <1>3, <1>4, <1>5, <1>6, <1>7 DEF JobStep

LEMMA NextSentIsAcked == ReservationInv /\ SentIsAcked /\ [Next]_vars => SentIsAcked'
<1> SUFFICES ASSUME ReservationInv, SentIsAcked, [Next]_vars PROVE SentIsAcked'
  OBVIOUS
<1>1. ASSUME UNCHANGED <<job, dedupe, acked>> PROVE SentIsAcked'
  BY <1>1, SentKept DEF Holds, At
<1>2. CASE PublisherNext
  <2>1. ASSUME NEW s \in Slots, NEW p \in Posts, StartJob(s, p) PROVE SentIsAcked'
    <3>1. PICK d \in Dues : Skip(s, p, d) \/ Load(s, p, d)
      BY <2>1 DEF StartJob
    <3>2. CASE Skip(s, p, d)
      BY <1>1, <3>2 DEF Skip, publisherVars
    <3>3. CASE Load(s, p, d)
      <4>1. job'[s].pc = "loaded" /\ \A t \in Slots \ {s} : job'[t] = job[t]
        BY <3>3 DEF Load, ReservationInv, TypeOK, PublisherTypeOK, JobTypeOK
      <4>2. QED BY <3>3, <4>1, SentKept DEF Load, Holds, At
    <3>4. QED BY <3>1, <3>2, <3>3
  <2>2. CASE BotCrashes
    BY <2>2, SentKept DEF BotCrashes, IdleJob, At
  <2>3. QED BY <1>2, <2>1, <2>2, JobStepSentIsAcked DEF PublisherNext
<1>3. CASE DecisionsNext /\ UNCHANGED publisherVars
  BY <1>1, <1>3 DEF DecisionsNext, Decide, Approve, Schedule, Reject, CbApprove, CbReject,
                    CheckChannelDeletable, DeleteChannel, storeVars, publisherVars
<1>4. CASE HousekeepingNext /\ UNCHANGED <<publisherVars, deleting>>
  <2>1. CASE PruneDedupe
    <3>1. \A t \in Slots, h \in Hashes : Holds(t, h) => dedupe'[h] = dedupe[h]
      BY <2>1, HeldRowIsFresh DEF PruneDedupe
    <3>2. QED BY <1>4, <3>1, SentKept DEF publisherVars, Holds, At
  <2>2. CASE ReconcileScheduled
    BY <1>1, <1>4, <2>2 DEF ReconcileScheduled, publisherVars
  <2>3. QED BY <1>4, <2>1, <2>2 DEF HousekeepingNext
<1>5. CASE Tick \/ UNCHANGED vars
  BY <1>1, <1>5 DEF Tick, vars, storeVars, publisherVars
<1>6. QED BY <1>2, <1>3, <1>4, <1>5 DEF Next

LEMMA SentIsAckedInvariant == Spec => []SentIsAcked
<1>1. Init => SentIsAcked
  BY DEF Init, PublisherInit, IdleJob, SentIsAcked, At
<1>2. QED BY <1>1, NextSentIsAcked, ReservationInvariant, PTL DEF Spec

-----------------------------------------------------------------------------
Uninterrupted == Faults \cap {"crash", "timeout", "db"} = {}

RowIsJustified(h) == dedupe[h] # Never => Held(h) \/ acked[h] = dedupe[h]

(* A row is left justified by a step that leaves it and its holder, or a   *)
(* holder that goes once the send is acknowledged.                         *)
LEMMA RowKept ==
    ASSUME NEW h \in Hashes, RowIsJustified(h),
           dedupe'[h] = dedupe[h], acked'[h] = acked[h],
           \A t \in Slots : Holds(t, h) => Holds(t, h)' \/ acked[h] = dedupe[h]
    PROVE  RowIsJustified(h)'
  BY DEF RowIsJustified, Held

LEMMA JobStepLeavesNoOrphan ==
    ASSUME ReservationInv, SentIsAcked, \A h \in Hashes : RowIsJustified(h),
           NEW s \in Slots, JobStep(s), NEW h \in Hashes
    PROVE  RowIsJustified(h)'
<1>1. /\ JobTypeOK /\ acked \in [Hashes -> Times \cup {Never}]
      /\ dedupe \in [Hashes -> Times \cup {Never}]
  BY DEF ReservationInv, TypeOK, StoreTypeOK, PublisherTypeOK
<1>2. ASSUME NEW pc, Goto(s, pc) \/ Finish(s), dedupe' = dedupe, acked' = acked,
             \/ job[s].pc \notin Reserving \/ At(s, "sent")
             \/ Goto(s, pc) /\ pc \in Reserving
      PROVE  RowIsJustified(h)'
  <2>1. \A t \in Slots \ {s} : job'[t] = job[t]
    BY <1>1, <1>2, GotoEffect, FinishEffect
  <2>2. Holds(s, h) => Holds(s, h)' \/ acked[h] = dedupe[h]
    <3>1. CASE At(s, "sent")
      BY <3>1 DEF SentIsAcked
    <3>2. CASE job[s].pc \notin Reserving
      BY <3>2 DEF Holds
    <3>3. CASE Goto(s, pc) /\ pc \in Reserving
      <4>1. job'[s].pc = pc /\ job'[s].hash = job[s].hash
        BY <1>1, <3>3, GotoEffect
      <4>2. QED BY <3>3, <4>1 DEF Holds
    <3>4. QED BY <1>2, <3>1, <3>2, <3>3
  <2>3. \A t \in Slots : Holds(t, h) => Holds(t, h)' \/ acked[h] = dedupe[h]
    BY <2>1, <2>2 DEF Holds
  <2>4. QED BY <1>2, <2>3, RowKept
<1>3. CASE Reserve(s)
  <2>1. CASE job[s].hash = h /\ dedupe[h] = Never
    <3>1. job'[s].hash = h /\ job'[s].pc = "waiting"
      BY <1>1, <1>3, <2>1, GotoEffect DEF Reserve
    <3>2. QED BY <3>1 DEF RowIsJustified, Held, Holds, Reserving
  <2>2. CASE job[s].hash # h \/ dedupe[h] # Never
    <3>1. dedupe'[h] = dedupe[h] /\ acked' = acked
      BY <1>1, <1>3, <2>2 DEF Reserve
    <3>2. ~Holds(s, h) /\ \A t \in Slots \ {s} : job'[t] = job[t]
      BY <1>1, <1>3, GotoEffect DEF Reserve, Holds, At, Reserving
    <3>3. QED BY <3>1, <3>2, RowKept DEF Holds
  <2>3. QED BY <2>1, <2>2
<1>4. CASE SendSucceeds(s)
  <2>1. /\ job'[s].pc = "sent" /\ job'[s].hash = job[s].hash /\ dedupe' = dedupe
        /\ \A t \in Slots \ {s} : job'[t] = job[t]
    BY <1>1, <1>4, GotoEffect DEF SendSucceeds, storeVars
  <2>2. CASE job[s].hash = h
    <3>1. acked'[h] = dedupe'[h]
      BY <1>1, <1>4, <2>1, <2>2, NoHashAssumption DEF SendSucceeds
    <3>2. QED BY <3>1 DEF RowIsJustified
  <2>3. CASE job[s].hash # h
    <3>1. acked'[h] = acked[h] /\ ~Holds(s, h)
      BY <1>1, <1>4, <2>3 DEF SendSucceeds, Holds
    <3>2. QED BY <2>1, <3>1, RowKept DEF Holds
  <2>4. QED BY <2>2, <2>3
<1>5. CASE Release(s)
  <2>1. CASE job[s].hash = h
    <3>1. dedupe'[h] = Never
      BY <1>1, <1>5, <2>1, NoHashAssumption DEF Release
    <3>2. QED BY <3>1 DEF RowIsJustified
  <2>2. CASE job[s].hash # h
    <3>1. dedupe'[h] = dedupe[h] /\ acked' = acked /\ ~Holds(s, h)
      BY <1>1, <1>5, <2>2 DEF Release, Holds
    <3>2. \A t \in Slots \ {s} : job'[t] = job[t]
      BY <1>1, <1>5, GotoEffect DEF Release
    <3>3. QED BY <3>1, <3>2, RowKept DEF Holds
  <2>3. QED BY <2>1, <2>2
<1>6. CASE MarkPublished(s)
  <2>1. job[s].hash \in Hashes => dedupe[job[s].hash] # Never
    BY <1>6 DEF MarkPublished, ReservationInv, RowsAreHeld, Holds, At, Reserving
  <2>2. dedupe' = dedupe
    BY <1>1, <1>6, <2>1 DEF MarkPublished
  <2>3. QED BY <1>2, <1>6, <2>2 DEF MarkPublished
<1>7. CASE AcquireSendLock(s) \/ SendRaises(s)
  BY <1>2, <1>7 DEF AcquireSendLock, SendRaises, storeVars, Reserving
<1>8. CASE \/ Claim(s) \/ ChannelMissing(s) \/ CheckDedupe(s) \/ MarkDuplicate(s)
           \/ EditDraftCard(s) \/ RecordFailure(s)
  <2>1. dedupe' = dedupe /\ acked' = acked /\ job[s].pc \notin Reserving
    BY <1>8 DEF Claim, ChannelMissing, CheckDedupe, MarkDuplicate, EditDraftCard,
                RecordFailure, storeVars, At, Reserving
  <2>2. \E pc : Goto(s, pc) \/ Finish(s)
    BY <1>8 DEF Claim, ChannelMissing, CheckDedupe, MarkDuplicate, EditDraftCard,
                RecordFailure
  <2>3. QED BY <1>2, <2>1, <2>2
<1>9. QED BY <1>3, <1>4, <1>5, <1>6, <1>7, <1>8 DEF JobStep

LEMMA NextLeavesNoOrphan ==
    ReservationInv /\ SentIsAcked /\ NoOrphanReservation /\ [Next]_vars => NoOrphanReservation'
<1> SUFFICES ASSUME ReservationInv, SentIsAcked, NoOrphanReservation, [Next]_vars,
                    Uninterrupted, NEW h \in Hashes
             PROVE  RowIsJustified(h)'
  BY DEF NoOrphanReservation, Uninterrupted, RowIsJustified, Held
<1>1. \A g \in Hashes : RowIsJustified(g)
  BY DEF NoOrphanReservation, Uninterrupted, RowIsJustified, Held
<1>2. ASSUME UNCHANGED <<job, dedupe, acked>> PROVE RowIsJustified(h)'
  BY <1>1, <1>2, RowKept DEF Holds
<1>3. CASE PublisherNext
  <2>1. ASSUME NEW s \in Slots, NEW p \in Posts, StartJob(s, p) PROVE RowIsJustified(h)'
    <3>1. PICK d \in Dues : Skip(s, p, d) \/ Load(s, p, d)
      BY <2>1 DEF StartJob
    <3>2. CASE Skip(s, p, d)
      BY <1>2, <3>2 DEF Skip, publisherVars
    <3>3. CASE Load(s, p, d)
      <4>1. ~Holds(s, h) /\ \A t \in Slots \ {s} : job'[t] = job[t]
        BY <3>3 DEF Load, Dequeue, Holds, At, Reserving,
                    ReservationInv, TypeOK, PublisherTypeOK, JobTypeOK
      <4>2. QED BY <1>1, <3>3, <4>1, RowKept DEF Load, Holds
    <3>4. QED BY <3>1, <3>2, <3>3
  <2>2. ASSUME NEW s \in Slots, StatementRaises(s) \/ JobTimesOut(s) PROVE FALSE
    BY <2>2 DEF StatementRaises, JobTimesOut, Uninterrupted
  <2>3. CASE BotCrashes
    BY <2>3 DEF BotCrashes, Uninterrupted
  <2>4. QED BY <1>1, <1>3, <2>1, <2>2, <2>3, JobStepLeavesNoOrphan DEF PublisherNext
<1>4. CASE DecisionsNext /\ UNCHANGED publisherVars
  BY <1>2, <1>4 DEF DecisionsNext, Decide, Approve, Schedule, Reject, CbApprove, CbReject,
                    CheckChannelDeletable, DeleteChannel, storeVars, publisherVars
<1>5. CASE HousekeepingNext /\ UNCHANGED <<publisherVars, deleting>>
  <2>1. CASE PruneDedupe
    <3>1. dedupe'[h] \in {dedupe[h], Never} /\ acked' = acked /\ job' = job
      BY <1>5, <2>1 DEF PruneDedupe, publisherVars
    <3>2. QED BY <1>1, <3>1, RowKept DEF RowIsJustified, Holds
  <2>2. CASE ReconcileScheduled
    BY <1>2, <1>5, <2>2 DEF ReconcileScheduled, publisherVars
  <2>3. QED BY <1>5, <2>1, <2>2 DEF HousekeepingNext
<1>6. CASE Tick \/ UNCHANGED vars
  BY <1>2, <1>6 DEF Tick, vars, storeVars, publisherVars
<1>7. QED BY <1>3, <1>4, <1>5, <1>6 DEF Next

(* A failed send gives its reservation back: unless a job is interrupted,  *)
(* whatever is reserved is being sent or was sent.                         *)
THEOREM NoReservationIsOrphaned == Spec => []NoOrphanReservation
<1>1. Init => NoOrphanReservation
  BY DEF Init, NoOrphanReservation, Never
<1>2. QED
  BY <1>1, NextLeavesNoOrphan, ReservationInvariant, SentIsAckedInvariant, PTL DEF Spec
-----------------------------------------------------------------------------
(* Why a recorded post is not sent again. A job carries the hash of its    *)
(* row; a job whose post was recorded since it began is not more than a    *)
(* tick younger than the reservation of the send, so the window keeps it   *)
(* from sending; and a bot with one slot has no such job.                  *)
AtRisk == {"loaded", "claimed", "checked", "duplicate"} \cup Reserving

HashIsOfRow ==
    \A s \in Slots : Busy(s) =>
        job[s].hash = post[job[s].post].hash \/ post[job[s].post] = NoRow

RecordedInTime ==
    \A s \in Slots : Busy(s) /\ post[job[s].post].hasMessage /\ job[s].hash # NoHash =>
        acked[job[s].hash] # Never /\ job[s].since <= acked[job[s].hash] + 1

AloneUnrecorded ==
    \A s \in Slots : Slots = {s} /\ job[s].pc \in AtRisk => ~post[job[s].post].hasMessage

RecordInv == HashIsOfRow /\ RecordedInTime /\ AloneUnrecorded

\* What a step may do to a row without recording a send: it keeps the hash, or
\* the row goes.
RowUnrecorded(p) == \/ post'[p] = NoRow
                    \/ /\ post[p] # NoRow
                       /\ post'[p].hash = post[p].hash
                       /\ post'[p].hasMessage => post[p].hasMessage

\* A job goes on with what it has, or ends.
JobGoesOn(t) == Busy(t)' => /\ Busy(t)
                            /\ job'[t].post = job[t].post
                            /\ job'[t].hash = job[t].hash
                            /\ job'[t].since = job[t].since
                            /\ job'[t].pc \in AtRisk => job[t].pc \in AtRisk

LEMMA QuietRecord ==
    ASSUME RecordInv, JobTypeOK, acked' = acked,
           \A p \in Posts : RowUnrecorded(p), \A t \in Slots : JobGoesOn(t)
    PROVE  RecordInv'
<1>1. \A t \in Slots : Busy(t) => job[t].post \in Posts
  BY BusyJob
<1>2. HashIsOfRow'
  BY <1>1 DEF RecordInv, HashIsOfRow, RowUnrecorded, JobGoesOn
<1>3. ASSUME NEW p \in Posts, post'[p].hasMessage PROVE post[p].hasMessage
  BY <1>3 DEF RowUnrecorded, NoRow
<1>4. RecordedInTime'
  BY <1>1, <1>3 DEF RecordInv, RecordedInTime, JobGoesOn
<1>5. \A t \in Slots : job'[t].pc \in AtRisk => Busy(t)'
  BY DEF AtRisk, Busy, Reserving
<1>6. AloneUnrecorded'
  BY <1>1, <1>3, <1>5 DEF RecordInv, AloneUnrecorded, JobGoesOn
<1>7. QED BY <1>2, <1>4, <1>6 DEF RecordInv

LEMMA RowsOfJobStep ==
    ASSUME post \in [Posts -> PostRow], NEW p \in Posts, NEW q \in Posts, NEW st \in PostState,
           Exists(q), SetState(q, st)
    PROVE  RowUnrecorded(p)
<1>1. CASE post'[p] = post[p]
  BY <1>1 DEF RowUnrecorded
<1>2. CASE p = q
  <2>1. post[p] \in PostRow /\ post'[p] = [post[p] EXCEPT !.state = st]
    BY <1>2 DEF SetState
  <2>2. post'[p].hash = post[p].hash /\ post'[p].hasMessage = post[p].hasMessage
    BY <2>1 DEF PostRow
  <2>3. post[p] # NoRow
    BY <1>2 DEF Exists, NoRow
  <2>4. QED BY <2>2, <2>3 DEF RowUnrecorded
<1>3. QED BY <1>1, <1>2 DEF SetState

(* The row that a later send of the same content is entered under is not   *)
(* older than any job of now.                                              *)
LEMMA SendSucceedsRecord ==
    ASSUME ReservationInv, RecordInv, NEW s \in Slots, SendSucceeds(s)
    PROVE  RecordInv'
<1>1. /\ JobTypeOK /\ acked \in [Hashes -> Times \cup {Never}]
      /\ dedupe \in [Hashes -> Times \cup {Never}]
      /\ now \in Nat /\ Times \cup {Never} \subseteq Nat
  BY TimesAreNat DEF ReservationInv, TypeOK, StoreTypeOK, PublisherTypeOK
<1>2. /\ post' = post /\ Goto(s, "sent") /\ InSend(s) /\ Busy(s)
      /\ acked' = IF job[s].hash = NoHash THEN acked
                  ELSE [acked EXCEPT ![job[s].hash] = dedupe[job[s].hash]]
  BY DEF SendSucceeds, storeVars, InSend, Busy
<1>3. /\ job'[s].pc = "sent" /\ job'[s].hash = job[s].hash
      /\ job'[s].since = job[s].since /\ job'[s].post = job[s].post
      /\ \A t \in Slots \ {s} : job'[t] = job[t]
  BY <1>1, <1>2, GotoEffect
<1>4. \A t \in Slots : Busy(t)' => /\ Busy(t) /\ job'[t].post = job[t].post
                                   /\ job'[t].hash = job[t].hash /\ job'[t].since = job[t].since
  BY <1>2, <1>3 DEF Busy
<1>5. HashIsOfRow'
  BY <1>2, <1>4 DEF RecordInv, HashIsOfRow
<1>6. ASSUME job[s].hash # NoHash, NEW t \in Slots, Busy(t)
      PROVE  dedupe[job[s].hash] # Never /\ job[t].since <= dedupe[job[s].hash] + 1
  <2>1. Holds(s, job[s].hash) /\ job[s].hash \in Hashes
    BY <1>1, <1>2, <1>6, BusyJob DEF Holds, InSend, Reserving
  <2>2. dedupe[job[s].hash] # Never /\ job[s].since <= dedupe[job[s].hash]
    BY <2>1 DEF ReservationInv, RowsAreHeld
  <2>3. job[t].since <= now /\ now <= job[s].since + 1
    BY <1>2, <1>6 DEF ReservationInv, JobsAreRecent
  <2>4. job[t].since \in Nat /\ job[s].since \in Nat /\ dedupe[job[s].hash] \in Nat
    BY <1>1, <1>2, <1>6, <2>1, BusyJob
  <2>5. QED BY <1>1, <2>2, <2>3, <2>4
<1>7. RecordedInTime'
  <2> SUFFICES ASSUME NEW t \in Slots, Busy(t), post[job[t].post].hasMessage,
                      job[t].hash # NoHash
               PROVE  acked'[job[t].hash] # Never /\ job[t].since <= acked'[job[t].hash] + 1
    BY <1>2, <1>4 DEF RecordedInTime
  <2>1. job[t].hash \in Hashes
    BY <1>1, BusyJob
  <2>2. CASE job[t].hash = job[s].hash
    BY <1>1, <1>2, <1>6, <2>1, <2>2
  <2>3. CASE job[t].hash # job[s].hash
    <3>1. acked'[job[t].hash] = acked[job[t].hash]
      BY <1>1, <1>2, <2>1, <2>3
    <3>2. QED BY <3>1 DEF RecordInv, RecordedInTime
  <2>4. QED BY <2>2, <2>3
<1>8. job[s].pc \in AtRisk
  BY <1>2 DEF InSend, AtRisk, Reserving
<1>9. AloneUnrecorded'
  BY <1>2, <1>3, <1>8 DEF RecordInv, AloneUnrecorded
<1>10. QED BY <1>5, <1>7, <1>9 DEF RecordInv

(* The record itself: the send it records was entered under a row of the   *)
(* same job, and a bot with one slot has no other.                         *)
LEMMA MarkPublishedRecord ==
    ASSUME ReservationInv, SentIsAcked, RecordInv, NEW s \in Slots, MarkPublished(s)
    PROVE  RecordInv'
<1> DEFINE p == job[s].post
<1>1. /\ JobTypeOK /\ post \in [Posts -> PostRow] /\ now \in Nat /\ Times \cup {Never} \subseteq Nat
      /\ acked \in [Hashes -> Times \cup {Never}]
  BY TimesAreNat DEF ReservationInv, TypeOK, StoreTypeOK, PublisherTypeOK
<1>2. Busy(s) /\ At(s, "sent") /\ acked' = acked
  BY DEF MarkPublished, Busy, At
<1>3. p \in Posts /\ job[s].hash \in Hashes \cup {NoHash}
  BY <1>1, <1>2, BusyJob
<1>4. PICK pc \in {"failing", "marked"} : Goto(s, pc)
  BY DEF MarkPublished
<1>5. /\ job'[s].pc = pc /\ job'[s].hash = job[s].hash
      /\ job'[s].since = job[s].since /\ job'[s].post = job[s].post
      /\ \A t \in Slots \ {s} : job'[t] = job[t]
  BY <1>1, <1>4, GotoEffect
<1>6. pc \notin AtRisk /\ \A t \in Slots : JobGoesOn(t)
  BY <1>2, <1>5 DEF JobGoesOn, AtRisk, Reserving, Busy
<1>7. \/ post' = post
      \/ /\ post[p] # NoRow
         /\ \A q \in Posts \ {p} : post'[q] = post[q]
         /\ post'[p].hash = post[p].hash
  BY <1>1, <1>3 DEF MarkPublished, Exists, NoRow, PostRow
<1>8. HashIsOfRow'
  <2> SUFFICES ASSUME NEW t \in Slots, Busy(t)'
               PROVE  job'[t].hash = post'[job'[t].post].hash \/ post'[job'[t].post] = NoRow
    BY DEF HashIsOfRow
  <2>1. Busy(t) /\ job'[t].post = job[t].post /\ job'[t].hash = job[t].hash
    BY <1>6 DEF JobGoesOn
  <2>2. job[t].post \in Posts
    BY <1>1, <2>1, BusyJob
  <2>3. job[t].hash = post[job[t].post].hash \/ post[job[t].post] = NoRow
    BY <2>1 DEF RecordInv, HashIsOfRow
  <2>4. QED BY <1>7, <2>1, <2>2, <2>3
<1>9. RecordedInTime'
  <2> SUFFICES ASSUME NEW t \in Slots, Busy(t), post'[job[t].post].hasMessage,
                      job[t].hash # NoHash
               PROVE  acked[job[t].hash] # Never /\ job[t].since <= acked[job[t].hash] + 1
    BY <1>2, <1>6 DEF RecordedInTime, JobGoesOn
  <2>1. job[t].post \in Posts /\ job[t].hash \in Hashes
    BY <1>1, BusyJob
  <2>2. CASE post'[job[t].post] = post[job[t].post]
    BY <2>2 DEF RecordInv, RecordedInTime
  <2>3. CASE post'[job[t].post] # post[job[t].post]
    <3>1. job[t].post = p /\ post[p] # NoRow
      BY <1>7, <2>1, <2>3
    <3>2. job[t].hash = job[s].hash
      BY <1>2, <3>1 DEF RecordInv, HashIsOfRow
    <3>3. Holds(s, job[s].hash) /\ job[s].hash \in Hashes
      BY <1>2, <2>1, <3>2 DEF Holds, At, Reserving
    <3>4. acked[job[s].hash] # Never /\ job[s].since <= acked[job[s].hash]
      BY <1>2, <3>3 DEF SentIsAcked, ReservationInv, RowsAreHeld
    <3>5. job[t].since <= now /\ now <= job[s].since + 1
      BY <1>2 DEF ReservationInv, JobsAreRecent
    <3>6. job[t].since \in Nat /\ job[s].since \in Nat /\ acked[job[s].hash] \in Nat
      BY <1>1, <1>2, <3>3, BusyJob
    <3>7. QED BY <1>1, <3>2, <3>4, <3>5, <3>6
  <2>4. QED BY <2>2, <2>3
<1>10. AloneUnrecorded'
  BY <1>5, <1>6 DEF AloneUnrecorded
<1>11. QED BY <1>8, <1>9, <1>10 DEF RecordInv
LEMMA JobStepRecord ==
    ASSUME ReservationInv, SentIsAcked, RecordInv, NEW s \in Slots,
           JobStep(s) \/ StatementRaises(s) \/ JobTimesOut(s)
    PROVE  RecordInv'
<1>1. JobTypeOK /\ post \in [Posts -> PostRow]
  BY DEF ReservationInv, TypeOK, StoreTypeOK, PublisherTypeOK
<1>2. Busy(s) => job[s].post \in Posts
  BY <1>1, BusyJob
<1>3. ASSUME Busy(s), acked' = acked,
             \/ UNCHANGED post
             \/ \E st \in PostState : Exists(job[s].post) /\ SetState(job[s].post, st),
             \/ Finish(s)
             \/ \E pc : Goto(s, pc) /\ (pc \in AtRisk => job[s].pc \in AtRisk)
      PROVE  RecordInv'
  <2>1. ASSUME NEW p \in Posts PROVE RowUnrecorded(p)
    <3>1. CASE UNCHANGED post
      BY <3>1 DEF RowUnrecorded
    <3>2. CASE \E st \in PostState : Exists(job[s].post) /\ SetState(job[s].post, st)
      BY <1>1, <1>2, <1>3, <3>2, RowsOfJobStep
    <3>3. QED BY <1>3, <3>1, <3>2
  <2>2. \A t \in Slots : JobGoesOn(t)
    <3>1. CASE Finish(s)
      BY <1>1, <3>1, FinishEffect DEF JobGoesOn, Busy
    <3>2. ASSUME NEW pc, Goto(s, pc), pc \in AtRisk => job[s].pc \in AtRisk
          PROVE  \A t \in Slots : JobGoesOn(t)
      <4>1. /\ job'[s].pc = pc /\ job'[s].hash = job[s].hash
            /\ job'[s].since = job[s].since /\ job'[s].post = job[s].post
            /\ \A t \in Slots \ {s} : job'[t] = job[t]
        BY <1>1, <3>2, GotoEffect
      <4>2. QED BY <1>3, <3>2, <4>1 DEF JobGoesOn, Busy
    <3>3. QED BY <1>3, <3>1, <3>2
  <2>3. QED BY <1>1, <1>3, <2>1, <2>2, QuietRecord
<1>4. {"publishing", "rejected", "publish_failed"} \subseteq PostState
  BY DEF PostState
<1>5. CASE SendSucceeds(s)
  BY <1>5, SendSucceedsRecord
<1>6. CASE MarkPublished(s)
  BY <1>6, MarkPublishedRecord
<1>7. CASE Claim(s) \/ MarkDuplicate(s) \/ RecordFailure(s)
  BY <1>3, <1>4, <1>7 DEF Claim, MarkDuplicate, RecordFailure, Busy, At, AtRisk, Reserving
<1>8. CASE \/ ChannelMissing(s) \/ CheckDedupe(s) \/ Reserve(s) \/ AcquireSendLock(s)
           \/ SendRaises(s) \/ Release(s) \/ EditDraftCard(s)
  <2>1. acked' = acked /\ post' = post /\ Busy(s)
    BY <1>8 DEF ChannelMissing, CheckDedupe, Reserve, AcquireSendLock, SendRaises, Release,
                EditDraftCard, storeVars, InSend, Busy, At
  <2>2. \/ Finish(s)
        \/ \E pc : Goto(s, pc) /\ (pc \in AtRisk => job[s].pc \in AtRisk)
    BY <1>8 DEF ChannelMissing, CheckDedupe, Reserve, AcquireSendLock, SendRaises, Release,
                EditDraftCard, InSend, At, AtRisk, Reserving
  <2>3. QED BY <1>3, <2>1, <2>2
<1>9. CASE StatementRaises(s) \/ JobTimesOut(s)
  BY <1>3, <1>9 DEF StatementRaises, JobTimesOut, Busy, At, AtRisk, Reserving
<1>10. QED BY <1>5, <1>6, <1>7, <1>8, <1>9 DEF JobStep

LEMMA StartJobRecord ==
    ASSUME ReservationInv, RecordInv, NEW s \in Slots, NEW p \in Posts, StartJob(s, p)
    PROVE  RecordInv'
<1>1. JobTypeOK /\ post \in [Posts -> PostRow]
  BY DEF ReservationInv, TypeOK, StoreTypeOK, PublisherTypeOK
<1>2. PICK d \in Dues : Skip(s, p, d) \/ Load(s, p, d)
  BY DEF StartJob
<1>3. post' = post /\ acked' = acked
  BY <1>2 DEF Skip, Load, publisherVars
<1>4. CASE Skip(s, p, d)
  <2>1. \A q \in Posts : RowUnrecorded(q)
    BY <1>3 DEF RowUnrecorded
  <2>2. \A t \in Slots : JobGoesOn(t)
    BY <1>4 DEF Skip, publisherVars, JobGoesOn, Busy
  <2>3. QED BY <1>1, <1>3, <2>1, <2>2, QuietRecord
<1>5. CASE Load(s, p, d)
  <2>1. /\ job'[s].post = p /\ job'[s].hash = post[p].hash /\ ~post[p].hasMessage
        /\ \A t \in Slots \ {s} : job'[t] = job[t]
    BY <1>1, <1>5 DEF Load, Skips, JobTypeOK
  <2>2. HashIsOfRow' /\ RecordedInTime' /\ AloneUnrecorded'
    BY <1>3, <2>1 DEF RecordInv, HashIsOfRow, RecordedInTime, AloneUnrecorded, Busy
  <2>3. QED BY <2>2 DEF RecordInv
<1>6. QED BY <1>2, <1>4, <1>5

LEMMA NextRecord == ReservationInv /\ SentIsAcked /\ RecordInv /\ [Next]_vars => RecordInv'
<1> SUFFICES ASSUME ReservationInv, SentIsAcked, RecordInv, [Next]_vars PROVE RecordInv'
  OBVIOUS
<1>1. JobTypeOK /\ post \in [Posts -> PostRow]
  BY DEF ReservationInv, TypeOK, StoreTypeOK, PublisherTypeOK
<1>2. ASSUME job' = job, acked' = acked, \A p \in Posts : RowUnrecorded(p)
      PROVE  RecordInv'
  BY <1>1, <1>2, QuietRecord DEF JobGoesOn, Busy
<1>3. post' = post => \A p \in Posts : RowUnrecorded(p)
  BY DEF RowUnrecorded
<1>4. CASE PublisherNext
  <2>1. CASE BotCrashes
    <3>1. acked' = acked /\ post' = post /\ \A t \in Slots : JobGoesOn(t)
      BY <2>1 DEF BotCrashes, IdleJob, JobGoesOn, Busy
    <3>2. QED BY <1>1, <1>3, <3>1, QuietRecord
  <2>2. QED BY <1>4, <2>1, StartJobRecord, JobStepRecord DEF PublisherNext
<1>5. CASE DecisionsNext /\ UNCHANGED publisherVars
  <2>1. ASSUME NEW q \in Posts, Decide(q), NEW p \in Posts PROVE RowUnrecorded(p)
    <3>1. Exists(q) /\ \A r \in Posts \ {q} : post'[r] = post[r]
      BY <1>1, <2>1 DEF Decide, Approve, Reject, CbApprove, CbReject, Schedule
    <3>2. post[q] \in PostRow /\ post[q] # NoRow
      BY <1>1, <3>1 DEF Exists, NoRow
    <3>3. post'[q].hash = post[q].hash /\ post'[q].hasMessage = post[q].hasMessage
      BY <1>1, <2>1, <3>2 DEF Decide, Approve, Reject, CbApprove, CbReject, Schedule, PostRow
    <3>4. QED BY <3>1, <3>2, <3>3 DEF RowUnrecorded
  <2>2. ASSUME NEW c \in Channels, CheckChannelDeletable(c) \/ DeleteChannel(c), NEW p \in Posts
        PROVE  RowUnrecorded(p)
    BY <2>2 DEF CheckChannelDeletable, DeleteChannel, storeVars, RowUnrecorded
  <2>3. QED BY <1>2, <1>5, <2>1, <2>2 DEF DecisionsNext, publisherVars
<1>6. CASE \/ HousekeepingNext /\ UNCHANGED <<publisherVars, deleting>>
           \/ Tick \/ UNCHANGED vars
  BY <1>2, <1>3, <1>6 DEF HousekeepingNext, PruneDedupe, ReconcileScheduled, Tick, vars,
                          storeVars, publisherVars
<1>7. QED BY <1>4, <1>5, <1>6 DEF Next

LEMMA RecordInvariant == Spec => []RecordInv
<1>1. Init => RecordInv
  BY DEF Init, PublisherInit, IdleJob, RecordInv, HashIsOfRow, RecordedInTime, AloneUnrecorded,
         Busy, AtRisk, Reserving
<1>2. QED BY <1>1, NextRecord, ReservationInvariant, SentIsAckedInvariant, PTL DEF Spec

(* A job that is sending a recorded post would be sending within the window *)
(* of the send that was recorded.                                          *)
LEMMA RecordedIsNotSent ==
    ASSUME ReservationInv, RecordInv, NEW s \in Slots, InSend(s), post[job[s].post].hasMessage
    PROVE  post[job[s].post].hash = NoHash /\ Cardinality(Slots) # 1
<1> DEFINE h == job[s].hash
<1>1. /\ JobTypeOK /\ acked \in [Hashes -> Times \cup {Never}]
      /\ now \in Nat /\ Times \cup {Never} \subseteq Nat
  BY TimesAreNat DEF ReservationInv, TypeOK, StoreTypeOK, PublisherTypeOK
<1>2. Busy(s) /\ job[s].pc \in Reserving /\ job[s].pc \in AtRisk /\ ~At(s, "sent")
  BY DEF InSend, Busy, Reserving, AtRisk, At
<1>3. h \in Hashes \cup {NoHash} /\ job[s].since \in Nat
  BY <1>1, <1>2, BusyJob
<1>4. h = post[job[s].post].hash
  BY <1>2 DEF RecordInv, HashIsOfRow, NoRow
<1>5. ASSUME h # NoHash PROVE FALSE
  <2>1. Holds(s, h) /\ h \in Hashes
    BY <1>2, <1>3, <1>5 DEF Holds
  <2>2. acked[h] # Never /\ job[s].since <= acked[h] + 1
    BY <1>2, <1>5 DEF RecordInv, RecordedInTime
  <2>3. now - acked[h] > Lookback
    BY <1>2, <2>1, <2>2 DEF ReservationInv, HoldersAreOutOfWindow
  <2>4. now <= job[s].since + 1
    BY <1>2 DEF ReservationInv, JobsAreRecent
  <2>5. acked[h] \in Nat
    BY <1>1, <2>1
  <2>6. QED BY <1>1, <1>3, <2>2, <2>3, <2>4, <2>5, TimeAssumption
<1>6. ASSUME Cardinality(Slots) = 1 PROVE FALSE
  <2>1. Slots = {s}
    <3>1. Cardinality(Slots \ {s}) = 0 /\ IsFiniteSet(Slots \ {s})
      BY <1>6, SlotsAssumption, FS_RemoveElement
    <3>2. Slots \ {s} = {}
      BY <3>1, FS_EmptySet
    <3>3. QED BY <3>2
  <2>2. QED BY <1>2, <2>1 DEF RecordInv, AloneUnrecorded
<1>7. QED BY <1>4, <1>5, <1>6

(* Only a job in its send is seen in the channel.                          *)
LEMMA OnlySendersDeliver ==
    ASSUME JobTypeOK, sends \in [Posts -> 0 .. SendBound], [Next]_vars, NEW p \in Posts,
           sends'[p] # sends[p]
    PROVE  \E s \in Slots : InSend(s) /\ job[s].post = p
<1>1. ASSUME NEW s \in Slots, SendSucceeds(s) \/ SendRaises(s)
      PROVE  InSend(s) /\ job[s].post = p
  BY <1>1 DEF SendSucceeds, SendRaises, Deliver
<1>2. ASSUME NEW s \in Slots, JobStep(s), ~SendSucceeds(s), ~SendRaises(s) PROVE FALSE
  BY <1>2 DEF JobStep, Claim, ChannelMissing, CheckDedupe, Reserve, MarkDuplicate,
              AcquireSendLock, Release, MarkPublished, EditDraftCard, RecordFailure
<1>3. CASE PublisherNext
  BY <1>1, <1>2, <1>3 DEF PublisherNext, StartJob, Skip, Load, publisherVars, StatementRaises,
                          JobTimesOut, BotCrashes
<1>4. CASE ~PublisherNext
  BY <1>4 DEF Next, Tick, vars, publisherVars
<1>5. QED BY <1>3, <1>4

(* A post whose message id is recorded is not sent again, by a job of      *)
(* whatever age, unless it was approved before it was normalized and the   *)
(* bot runs several jobs at a time.                                        *)
THEOREM RecordedIsNotResent == Spec => NoResendAfterRecord
<1> DEFINE Kept == \A p \in Posts : post[p].hasMessage
                                    /\ (post[p].hash # NoHash \/ Cardinality(Slots) = 1)
                       => sends'[p] = sends[p]
<1>1. ReservationInv /\ RecordInv /\ [Next]_vars => [Kept]_vars
  <2> SUFFICES ASSUME ReservationInv, RecordInv, [Next]_vars, NEW p \in Posts,
                      post[p].hasMessage, post[p].hash # NoHash \/ Cardinality(Slots) = 1
               PROVE  sends'[p] = sends[p]
    OBVIOUS
  <2>1. JobTypeOK /\ sends \in [Posts -> 0 .. SendBound]
    BY DEF ReservationInv, TypeOK, PublisherTypeOK
  <2>2. QED BY <2>1, OnlySendersDeliver, RecordedIsNotSent
<1>2. QED
  BY <1>1, ReservationInvariant, RecordInvariant, PTL DEF Spec, NoResendAfterRecord
=============================================================================
