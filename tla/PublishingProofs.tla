-------------------------- MODULE PublishingProofs --------------------------
(***************************************************************************)
(* Theorems about Publishing, for every set of posts, hashes, slots and    *)
(* channels, every lookback window of at least two ticks and every         *)
(* combination of faults.                                                  *)
(***************************************************************************)
EXTENDS Publishing, FiniteSetTheorems, TLAPS

(* A restart puts back a natural number of jobs.                           *)
LEMMA JobsOfPost ==
    ASSUME NEW p \in Posts
    PROVE  Cardinality({s \in Slots : job[s].post = p}) \in Nat
<1>1. IsFiniteSet({s \in Slots : job[s].post = p})
  BY SlotsAssumption, FS_Subset
<1>2. QED BY <1>1, FS_CardinalityType

LEMMA InitTypeOK == Init => TypeOK
<1> SUFFICES ASSUME Init PROVE TypeOK
  OBVIOUS
<1> USE DEF Init, PublisherInit, DecisionsInit, IdleJob
<1>1. StoreTypeOK
  BY TimeAssumption, ContentAssumption
     DEF StoreTypeOK, PostRow, PostState, Times, Dues, Never
<1>2. PublisherTypeOK
  BY TimeAssumption
     DEF PublisherTypeOK, JobTypeOK, Job, PC, Reserving, Times, Never, SendBound
<1>3. DecisionsTypeOK
  BY DEF DecisionsTypeOK
<1>4. QED BY <1>1, <1>2, <1>3 DEF TypeOK

-----------------------------------------------------------------------------
(* The small steps the actions are made of.                                *)

LEMMA BusyJob ==
    ASSUME JobTypeOK, NEW s \in Slots, Busy(s)
    PROVE  /\ job[s].post \in Posts
           /\ job[s].hash \in Hashes \cup {NoHash}
           /\ job[s].since \in Times
  BY DEF JobTypeOK, Busy, Job

LEMMA GotoKeepsTypes ==
    ASSUME JobTypeOK, NEW s \in Slots, Busy(s), NEW pc \in PC \ {"idle"}, Goto(s, pc)
    PROVE  JobTypeOK'
<1>1. job[s] \in Job /\ job'[s] = [job[s] EXCEPT !.pc = pc]
  BY DEF JobTypeOK, Goto
<1>2. job'[s] \in Job /\ job'[s].pc = pc /\ job'[s].post = job[s].post
  BY <1>1 DEF Job
<1>3. job' \in [Slots -> Job]
  BY <1>2 DEF JobTypeOK, Goto
<1>4. job'[s].post # NoPost
  BY <1>2 DEF JobTypeOK, Busy
<1>5. \A t \in Slots : t # s => job'[t] = job[t]
  BY DEF Goto, JobTypeOK
<1>6. QED BY <1>2, <1>3, <1>4, <1>5 DEF JobTypeOK

LEMMA FinishKeepsTypes ==
    ASSUME JobTypeOK, NEW s \in Slots, Finish(s)
    PROVE  JobTypeOK'
<1>1. IdleJob \in Job /\ IdleJob.pc = "idle" /\ IdleJob.post = NoPost
  BY TimeAssumption DEF IdleJob, Job, PC, Times
<1>2. QED BY <1>1 DEF JobTypeOK, Finish

LEMMA SetStateKeepsTypes ==
    ASSUME post \in [Posts -> PostRow], NEW p \in Posts, NEW st \in PostState, SetState(p, st)
    PROVE  post' \in [Posts -> PostRow]
<1>1. [post[p] EXCEPT !.state = st] \in PostRow
  BY DEF PostRow
<1>2. QED BY <1>1 DEF SetState

LEMMA EnqueueKeepsTypes ==
    ASSUME queue \in [Posts -> [Dues -> Nat]], NEW p \in Posts, NEW d \in Dues,
           Enqueue(p, d) \/ UNCHANGED queue
    PROVE  queue' \in [Posts -> [Dues -> Nat]]
  BY DEF Enqueue

-----------------------------------------------------------------------------
(* One job's own steps keep the types.                                     *)
LEMMA JobStepTypeOK ==
    ASSUME StoreTypeOK, PublisherTypeOK, NEW s \in Slots,
           JobStep(s) \/ StatementRaises(s) \/ JobTimesOut(s)
    PROVE  StoreTypeOK' /\ PublisherTypeOK'
<1> USE DEF StoreTypeOK, PublisherTypeOK, storeVars
<1> DEFINE p == job[s].post
<1>1. Busy(s)
  BY DEF JobStep, StatementRaises, JobTimesOut, Claim, ChannelMissing, CheckDedupe,
         Reserve, MarkDuplicate, AcquireSendLock, SendSucceeds, SendRaises, Release,
         MarkPublished, EditDraftCard, RecordFailure, InSend, Busy, At
<1>2. p \in Posts /\ job[s].hash \in Hashes \cup {NoHash}
  BY <1>1, BusyJob
<1>3. PC \ {"idle"} = {"loaded", "claimed", "checked", "duplicate", "marked", "failing",
                       "waiting", "sending", "resending", "releasing", "sent"}
  BY DEF PC, Reserving
<1>4. {"publishing", "rejected", "published", "publish_failed"} \subseteq PostState
  BY DEF PostState
<1>5. Never \in Dues
  BY DEF Dues
<1>6. now \in Times /\ now \in Times \cup {Never}
  OBVIOUS
<1>7. CASE Claim(s)
  <2>1. post' \in [Posts -> PostRow]
    BY <1>2, <1>4, <1>7, SetStateKeepsTypes DEF Claim
  <2>2. JobTypeOK'
    BY <1>1, <1>3, <1>7, GotoKeepsTypes DEF Claim
  <2>3. QED BY <1>7, <2>1, <2>2 DEF Claim
<1>8. CASE ChannelMissing(s)
  BY <1>8, FinishKeepsTypes DEF ChannelMissing
<1>9. CASE CheckDedupe(s)
  <2>1. JobTypeOK'
    BY <1>1, <1>3, <1>9, GotoKeepsTypes DEF CheckDedupe
  <2>2. QED BY <1>9, <2>1 DEF CheckDedupe
<1>10. CASE Reserve(s)
  <2>1. JobTypeOK'
    BY <1>1, <1>3, <1>10, GotoKeepsTypes DEF Reserve
  <2>2. dedupe' \in [Hashes -> Times \cup {Never}]
    BY <1>6, <1>10 DEF Reserve
  <2>3. QED BY <1>10, <2>1, <2>2 DEF Reserve
<1>11. CASE MarkDuplicate(s)
  <2>1. post' \in [Posts -> PostRow]
    BY <1>2, <1>4, <1>11, SetStateKeepsTypes DEF MarkDuplicate
  <2>2. QED BY <1>11, <2>1, FinishKeepsTypes DEF MarkDuplicate
<1>12. CASE AcquireSendLock(s)
  <2>1. JobTypeOK'
    BY <1>1, <1>3, <1>12, GotoKeepsTypes DEF AcquireSendLock
  <2>2. QED BY <1>12, <2>1 DEF AcquireSendLock
<1>13. CASE SendSucceeds(s)
  <2>1. JobTypeOK'
    BY <1>1, <1>3, <1>13, GotoKeepsTypes DEF SendSucceeds
  <2>2. sends' \in [Posts -> 0 .. SendBound]
    BY <1>2, <1>13 DEF SendSucceeds, Deliver, SendBound
  <2>3. acked' \in [Hashes -> Times \cup {Never}]
    BY <1>2, <1>13 DEF SendSucceeds
  <2>4. QED BY <1>13, <2>1, <2>2, <2>3 DEF SendSucceeds
<1>14. CASE SendRaises(s)
  <2>1. JobTypeOK'
    BY <1>1, <1>3, <1>14, GotoKeepsTypes DEF SendRaises
  <2>2. sends' \in [Posts -> 0 .. SendBound]
    BY <1>2, <1>14 DEF SendRaises, Deliver, SendBound
  <2>3. QED BY <1>14, <2>1, <2>2 DEF SendRaises
<1>15. CASE Release(s)
  <2>1. JobTypeOK'
    BY <1>1, <1>3, <1>15, GotoKeepsTypes DEF Release
  <2>2. dedupe' \in [Hashes -> Times \cup {Never}]
    BY <1>15 DEF Release
  <2>3. QED BY <1>15, <2>1, <2>2 DEF Release
<1>16. CASE MarkPublished(s)
  <2>1. JobTypeOK'
    BY <1>1, <1>3, <1>16, GotoKeepsTypes DEF MarkPublished
  <2>2. dedupe' \in [Hashes -> Times \cup {Never}]
    BY <1>6, <1>16 DEF MarkPublished
  <2>3. [post[p] EXCEPT !.state = "published", !.hasMessage = TRUE] \in PostRow
    <3>1. post[p] \in PostRow
      BY <1>2
    <3>2. "published" \in PostState \cup {"absent"} /\ TRUE \in BOOLEAN
      BY <1>4
    <3>3. QED BY <3>1, <3>2 DEF PostRow
  <2>4. post' \in [Posts -> PostRow]
    BY <1>2, <1>16, <2>3 DEF MarkPublished
  <2>5. QED BY <1>16, <2>1, <2>2, <2>4 DEF MarkPublished
<1>17. CASE EditDraftCard(s)
  BY <1>17, FinishKeepsTypes DEF EditDraftCard
<1>18. CASE RecordFailure(s)
  <2>1. post' \in [Posts -> PostRow]
    BY <1>2, <1>4, <1>18, SetStateKeepsTypes DEF RecordFailure
  <2>2. queue' \in [Posts -> [Dues -> Nat]]
    BY <1>2, <1>5, <1>18, EnqueueKeepsTypes DEF RecordFailure, MayRunAgain
  <2>3. QED BY <1>18, <2>1, <2>2, FinishKeepsTypes DEF RecordFailure
<1>19. CASE StatementRaises(s)
  <2>1. queue' \in [Posts -> [Dues -> Nat]]
    BY <1>2, <1>5, <1>19, EnqueueKeepsTypes DEF StatementRaises, MayRunAgain
  <2>2. JobTypeOK'
    BY <1>1, <1>3, <1>19, FinishKeepsTypes, GotoKeepsTypes DEF StatementRaises
  <2>3. QED BY <1>19, <2>1, <2>2 DEF StatementRaises
<1>20. CASE JobTimesOut(s)
  <2>1. queue' \in [Posts -> [Dues -> Nat]]
    BY <1>2, <1>5, <1>20, EnqueueKeepsTypes DEF JobTimesOut, MayRunAgain
  <2>2. QED BY <1>20, <2>1, FinishKeepsTypes DEF JobTimesOut
<1>21. QED
  BY <1>7, <1>8, <1>9, <1>10, <1>11, <1>12, <1>13, <1>14, <1>15, <1>16, <1>17,
     <1>18, <1>19, <1>20 DEF JobStep

LEMMA StartJobTypeOK ==
    ASSUME StoreTypeOK, PublisherTypeOK, NEW s \in Slots, NEW p \in Posts, StartJob(s, p)
    PROVE  StoreTypeOK' /\ PublisherTypeOK'
<1>1. PICK d \in Dues : Skip(s, p, d) \/ Load(s, p, d)
  BY DEF StartJob
<1>2. queue' \in [Posts -> [Dues -> Nat]]
  <2>1. queue[p][d] \in Nat /\ queue[p][d] > 0
    BY <1>1 DEF Skip, Load, Dequeue, StoreTypeOK
  <2>2. queue[p][d] - 1 \in Nat
    BY <2>1
  <2>3. queue' = [queue EXCEPT ![p][d] = queue[p][d] - 1]
    BY <1>1 DEF Skip, Load, Dequeue, StoreTypeOK
  <2>4. QED BY <2>2, <2>3 DEF StoreTypeOK
<1>3. CASE Skip(s, p, d)
  BY <1>2, <1>3 DEF Skip, StoreTypeOK, PublisherTypeOK, JobTypeOK, publisherVars
<1>4. CASE Load(s, p, d)
  <2> DEFINE r == [pc |-> "loaded", post |-> p, hash |-> post[p].hash, since |-> now]
  <2>1. r \in Job /\ r.pc # "idle" /\ r.post # NoPost
    BY NoPostAssumption DEF StoreTypeOK, PostRow, Job, PC
  <2>2. job' = [job EXCEPT ![s] = r]
    BY <1>4 DEF Load
  <2> HIDE DEF r
  <2>3. JobTypeOK'
    BY <2>1, <2>2 DEF PublisherTypeOK, JobTypeOK
  <2>4. QED BY <1>2, <1>4, <2>3 DEF Load, StoreTypeOK, PublisherTypeOK
<1>5. QED BY <1>1, <1>3, <1>4

LEMMA BotCrashesTypeOK ==
    ASSUME StoreTypeOK, PublisherTypeOK, BotCrashes
    PROVE  StoreTypeOK' /\ PublisherTypeOK'
<1>1. ASSUME NEW p \in Posts
      PROVE  [queue[p] EXCEPT ![Never] = @ + Cardinality({s \in Slots : job[s].post = p})]
                 \in [Dues -> Nat]
  BY <1>1, JobsOfPost DEF StoreTypeOK, Dues
<1>2. queue' \in [Posts -> [Dues -> Nat]]
  BY <1>1 DEF BotCrashes
<1>3. IdleJob \in Job /\ IdleJob.pc = "idle" /\ IdleJob.post = NoPost
  BY TimeAssumption DEF IdleJob, Job, PC, Times
<1>4. JobTypeOK'
  BY <1>3 DEF BotCrashes, JobTypeOK
<1>5. QED BY <1>2, <1>4 DEF BotCrashes, StoreTypeOK, PublisherTypeOK

LEMMA DecideTypeOK ==
    ASSUME StoreTypeOK, NEW p \in Posts, Decide(p)
    PROVE  StoreTypeOK'
<1> USE DEF StoreTypeOK
<1>1. Never \in Dues
  BY DEF Dues
<1>2. {"approved", "rejected", "scheduled"} \subseteq PostState
  BY DEF PostState
<1>3. post[p] \in PostRow
  OBVIOUS
<1>4. ASSUME NEW st \in PostState PROVE [post[p] EXCEPT !.state = st] \in PostRow
  BY <1>3 DEF PostRow
<1>5. ASSUME NEW st \in PostState, NEW t \in Times \cup {Never}
      PROVE  [post[p] EXCEPT !.state = st, !.scheduledFor = t] \in PostRow
  BY <1>3 DEF PostRow
<1>6. CASE Approve(p)
  <2>1. post' = [post EXCEPT ![p] = [post[p] EXCEPT !.state = "approved",
                                                    !.scheduledFor = Never]]
    BY <1>6 DEF Approve
  <2>2. post' \in [Posts -> PostRow]
    BY <1>2, <1>5, <2>1
  <2>3. queue' \in [Posts -> [Dues -> Nat]]
    BY <1>1, <1>6, EnqueueKeepsTypes DEF Approve, EnqueueAfterCommit
  <2>4. QED BY <1>6, <2>2, <2>3 DEF Approve
<1>7. CASE Reject(p)
  BY <1>2, <1>4, <1>7 DEF Reject
<1>8. CASE CbApprove(p)
  <2>1. post' \in [Posts -> PostRow]
    BY <1>2, <1>4, <1>8 DEF CbApprove
  <2>2. queue' \in [Posts -> [Dues -> Nat]]
    BY <1>1, <1>8, EnqueueKeepsTypes DEF CbApprove, EnqueueAfterCommit
  <2>3. QED BY <1>8, <2>1, <2>2 DEF CbApprove
<1>9. CASE CbReject(p)
  BY <1>2, <1>4, <1>9 DEF CbReject
<1>10. ASSUME NEW t \in DueTimes, Schedule(p, t) PROVE StoreTypeOK'
  <2>1. t \in Times \cup {Never} /\ t \in Dues
    BY TimeAssumption DEF Dues
  <2>2. post' = [post EXCEPT ![p] = [post[p] EXCEPT !.state = "scheduled",
                                                    !.scheduledFor = t]]
    BY <1>10 DEF Schedule
  <2>3. post' \in [Posts -> PostRow]
    BY <1>2, <1>5, <2>1, <2>2
  <2>4. queue' \in [Posts -> [Dues -> Nat]]
    BY <1>10, <2>1, EnqueueKeepsTypes DEF Schedule, EnqueueAfterCommit
  <2>5. QED BY <1>10, <2>3, <2>4 DEF Schedule
<1>11. QED BY <1>6, <1>7, <1>8, <1>9, <1>10 DEF Decide

LEMMA ChannelTypeOK ==
    ASSUME StoreTypeOK, DecisionsTypeOK, NEW c \in Channels,
           CheckChannelDeletable(c) \/ DeleteChannel(c)
    PROVE  StoreTypeOK' /\ DecisionsTypeOK'
<1>1. CASE CheckChannelDeletable(c)
  BY <1>1 DEF CheckChannelDeletable, StoreTypeOK, storeVars, DecisionsTypeOK
<1>2. CASE DeleteChannel(c)
  <2>1. NoRow \in PostRow
    BY DEF NoRow, PostRow
  <2>2. QED BY <1>2, <2>1 DEF DeleteChannel, StoreTypeOK, DecisionsTypeOK
<1>3. QED BY <1>1, <1>2

LEMMA HousekeepingTypeOK ==
    ASSUME StoreTypeOK, HousekeepingNext
    PROVE  StoreTypeOK'
<1>1. CASE ReconcileScheduled
  <2>1. ASSUME NEW p \in Posts
        PROVE  [queue[p] EXCEPT ![Never] = @ + 1] \in [Dues -> Nat]
    BY <2>1 DEF StoreTypeOK, Dues
  <2>2. queue' \in [Posts -> [Dues -> Nat]]
    BY <1>1, <2>1 DEF ReconcileScheduled, StoreTypeOK
  <2>3. QED BY <1>1, <2>2 DEF ReconcileScheduled, StoreTypeOK
<1>2. CASE PruneDedupe
  BY <1>2 DEF PruneDedupe, StoreTypeOK
<1>3. QED BY <1>1, <1>2 DEF HousekeepingNext

LEMMA NextTypeOK == TypeOK /\ [Next]_vars => TypeOK'
<1> SUFFICES ASSUME TypeOK, [Next]_vars PROVE TypeOK'
  OBVIOUS
<1> USE DEF TypeOK
<1>1. CASE PublisherNext /\ UNCHANGED deleting
  <2>1. StoreTypeOK' /\ PublisherTypeOK'
    BY <1>1, StartJobTypeOK, JobStepTypeOK, BotCrashesTypeOK DEF PublisherNext
  <2>2. QED BY <1>1, <2>1 DEF DecisionsTypeOK
<1>2. CASE DecisionsNext /\ UNCHANGED publisherVars
  <2>1. PublisherTypeOK'
    BY <1>2 DEF PublisherTypeOK, JobTypeOK, publisherVars
  <2>2. ASSUME NEW p \in Posts, Decide(p) PROVE StoreTypeOK' /\ DecisionsTypeOK'
    <3>1. UNCHANGED deleting
      BY <2>2 DEF Decide, Approve, Reject, CbApprove, CbReject, Schedule
    <3>2. QED BY <2>2, <3>1, DecideTypeOK DEF DecisionsTypeOK
  <2>3. QED BY <1>2, <2>1, <2>2, ChannelTypeOK DEF DecisionsNext
<1>3. CASE HousekeepingNext /\ UNCHANGED <<publisherVars, deleting>>
  BY <1>3, HousekeepingTypeOK
     DEF PublisherTypeOK, JobTypeOK, publisherVars, DecisionsTypeOK
<1>4. CASE Tick
  BY <1>4, TimeAssumption
     DEF Tick, StoreTypeOK, PublisherTypeOK, JobTypeOK, DecisionsTypeOK, publisherVars, Times
<1>5. CASE UNCHANGED vars
  BY <1>5 DEF vars, storeVars, publisherVars, StoreTypeOK, PublisherTypeOK, JobTypeOK,
              DecisionsTypeOK
<1>6. QED BY <1>1, <1>2, <1>3, <1>4, <1>5 DEF Next

(* Every variable stays within its type, whatever the constants are.       *)
THEOREM TypeCorrect == Spec => []TypeOK
<1>1. QED BY InitTypeOK, NextTypeOK, PTL DEF Spec

-----------------------------------------------------------------------------
(* The reservation of content.                                             *)

(* What Goto and Finish leave in the slots.                                *)
LEMMA GotoEffect ==
    ASSUME JobTypeOK, NEW s \in Slots, NEW pc, Goto(s, pc)
    PROVE  /\ job'[s].pc = pc /\ job'[s].hash = job[s].hash
           /\ job'[s].since = job[s].since /\ job'[s].post = job[s].post
           /\ \A t \in Slots \ {s} : job'[t] = job[t]
<1>1. job[s] \in Job /\ job'[s] = [job[s] EXCEPT !.pc = pc]
  BY DEF JobTypeOK, Goto
<1>2. QED BY <1>1 DEF Job, JobTypeOK, Goto

LEMMA FinishEffect ==
    ASSUME JobTypeOK, NEW s \in Slots, Finish(s)
    PROVE  /\ job'[s].pc = "idle" /\ job'[s].hash = NoHash
           /\ \A t \in Slots \ {s} : job'[t] = job[t]
  BY DEF JobTypeOK, Finish, IdleJob

(* A step that takes no reservation, drops no row and acknowledges nothing. *)
LEMMA QuietStep ==
    ASSUME ReservationInv, TypeOK', JobsAreRecent',
           now' = now, dedupe' = dedupe, acked' = acked,
           \A t \in Slots, h \in Hashes :
               Holds(t, h)' => /\ Holds(t, h)
                               /\ job'[t].since = job[t].since
                               /\ At(t, "sent") => At(t, "sent")'
    PROVE  ReservationInv'
<1>1. RowsAreHeld'
  BY DEF ReservationInv, RowsAreHeld
<1>2. HoldersDiffer'
  BY DEF ReservationInv, HoldersDiffer
<1>3. AckedRowStays'
  BY DEF ReservationInv, AckedRowStays
<1>4. HoldersAreOutOfWindow'
  BY DEF ReservationInv, HoldersAreOutOfWindow
<1>5. QED BY <1>1, <1>2, <1>3, <1>4 DEF ReservationInv

LEMMA InitReservation == Init => ReservationInv
<1> SUFFICES ASSUME Init PROVE ReservationInv
  OBVIOUS
<1>1. \A s \in Slots : job[s].pc = "idle" /\ ~Busy(s) /\ \A h \in Hashes : ~Holds(s, h)
  BY DEF Init, PublisherInit, IdleJob, Busy, Holds, Reserving
<1>2. JobsAreRecent /\ RowsAreHeld /\ HoldersDiffer /\ HoldersAreOutOfWindow
  BY <1>1 DEF JobsAreRecent, RowsAreHeld, HoldersDiffer, HoldersAreOutOfWindow
<1>3. AckedRowStays
  BY DEF Init, PublisherInit, AckedRowStays
<1>4. QED BY <1>2, <1>3, InitTypeOK DEF ReservationInv

(* Job steps that leave published_dedupe and the acknowledgements alone.   *)
LEMMA QuietJobStep ==
    ASSUME ReservationInv, TypeOK', NEW s \in Slots, UNCHANGED <<dedupe, acked, now>>,
           \/ Claim(s) \/ ChannelMissing(s) \/ CheckDedupe(s) \/ MarkDuplicate(s)
           \/ AcquireSendLock(s) \/ SendRaises(s) \/ EditDraftCard(s) \/ RecordFailure(s)
           \/ StatementRaises(s) \/ JobTimesOut(s)
    PROVE  ReservationInv'
<1>1. JobTypeOK /\ JobTypeOK'
  BY DEF ReservationInv, TypeOK, PublisherTypeOK
<1>2. CASE Finish(s)
  <2>1. /\ job'[s].pc = "idle" /\ job'[s].hash = NoHash
        /\ \A t \in Slots \ {s} : job'[t] = job[t]
    BY <1>1, <1>2, FinishEffect
  <2>2. \A t \in Slots, h \in Hashes : Holds(t, h)' => t # s
    BY <2>1 DEF Holds, Reserving
  <2>3. JobsAreRecent'
    BY <2>1 DEF ReservationInv, JobsAreRecent, Busy
  <2>4. QED BY <2>1, <2>2, <2>3, QuietStep DEF Holds, At
<1>3. ASSUME NEW pc \in PC, Goto(s, pc), Busy(s),
             pc \in Reserving => \/ At(s, "claimed") /\ job[s].hash = NoHash
                                 \/ job[s].pc \in Reserving \ {"sent"}
      PROVE  ReservationInv'
  <2>1. /\ job'[s].pc = pc /\ job'[s].hash = job[s].hash
        /\ job'[s].since = job[s].since
        /\ \A t \in Slots \ {s} : job'[t] = job[t]
    BY <1>1, <1>3, GotoEffect
  <2>2. JobsAreRecent'
    BY <1>3, <2>1 DEF ReservationInv, JobsAreRecent, Busy
  <2>3. ASSUME NEW h \in Hashes, Holds(s, h)'
        PROVE  Holds(s, h) /\ ~At(s, "sent")
    BY <1>3, <2>1, <2>3, NoHashAssumption DEF Holds, At
  <2>4. QED BY <2>1, <2>2, <2>3, QuietStep DEF Holds, At
<1>4. CASE Claim(s)
  <2>1. {"claimed", "failing"} \subseteq PC \ Reserving
    BY DEF PC, Reserving
  <2>2. QED BY <1>3, <1>4, <2>1 DEF Claim, Busy, At
<1>5. CASE CheckDedupe(s)
  <2>1. {"waiting", "checked", "duplicate"} \subseteq PC /\ {"checked", "duplicate"} \cap Reserving = {}
    BY DEF PC, Reserving
  <2>2. QED BY <1>3, <1>5, <2>1 DEF CheckDedupe, Busy, At
<1>6. CASE AcquireSendLock(s)
  <2>1. "sending" \in PC /\ "waiting" \in Reserving \ {"sent"}
    BY DEF PC, Reserving
  <2>2. QED BY <1>3, <1>6, <2>1 DEF AcquireSendLock, Busy, At
<1>7. CASE SendRaises(s)
  <2>1. /\ {"resending", "releasing"} \subseteq PC
        /\ {"sending", "resending"} \subseteq Reserving \ {"sent"}
    BY DEF PC, Reserving
  <2>2. QED BY <1>3, <1>7, <2>1 DEF SendRaises, InSend, Busy, At
<1>8. CASE StatementRaises(s)
  <2>1. "failing" \in PC \ Reserving
    BY DEF PC, Reserving
  <2>2. QED BY <1>2, <1>3, <1>8, <2>1 DEF StatementRaises, Busy
<1>9. QED
  BY <1>2, <1>4, <1>5, <1>6, <1>7, <1>8
     DEF ChannelMissing, MarkDuplicate, EditDraftCard, RecordFailure, JobTimesOut

(* The row was not there, so nobody held it, and an earlier acknowledgement *)
(* of the content is out of the window.                                    *)
LEMMA ReserveStep ==
    ASSUME ReservationInv, TypeOK', NEW s \in Slots, Reserve(s), job[s].hash \in Hashes,
           dedupe[job[s].hash] = Never
    PROVE  ReservationInv'
<1> DEFINE r == job[s].hash
<1>1. JobTypeOK /\ dedupe \in [Hashes -> Times \cup {Never}] /\ now \in Times /\ 0 \notin Times
  BY DEF ReservationInv, TypeOK, PublisherTypeOK, StoreTypeOK, Times
<1>2. /\ Goto(s, "waiting") /\ At(s, "checked") /\ now' = now /\ acked' = acked
      /\ dedupe' = [dedupe EXCEPT ![r] = now]
  BY DEF Reserve
<1>3. /\ job'[s].pc = "waiting" /\ job'[s].hash = r
      /\ job'[s].since = job[s].since
      /\ \A t \in Slots \ {s} : job'[t] = job[t]
  BY <1>1, <1>2, GotoEffect
<1>4. Busy(s) /\ \A h \in Hashes : ~Holds(s, h)
  BY <1>2 DEF At, Busy, Holds, Reserving
<1>5. \A t \in Slots, h \in Hashes : Holds(t, h)' => IF t = s THEN h = r ELSE Holds(t, h)
  BY <1>3 DEF Holds
<1>6. \A t \in Slots : ~Holds(t, r)
  BY DEF ReservationInv, RowsAreHeld
<1>7. dedupe'[r] = now /\ now # Never
  BY <1>1, <1>2 DEF Never
<1>8. JobsAreRecent'
  BY <1>2, <1>3, <1>4 DEF ReservationInv, JobsAreRecent, Busy
<1>9. RowsAreHeld'
  <2> SUFFICES ASSUME NEW t \in Slots, NEW h \in Hashes, Holds(t, h)'
               PROVE  dedupe'[h] # Never /\ job'[t].since <= dedupe'[h]
    BY DEF RowsAreHeld
  <2>1. CASE t = s
    BY <1>3, <1>4, <1>5, <1>7, <2>1 DEF ReservationInv, JobsAreRecent
  <2>2. CASE t # s
    BY <1>1, <1>2, <1>3, <1>5, <1>6, <2>2 DEF ReservationInv, RowsAreHeld
  <2>3. QED BY <2>1, <2>2
<1>10. HoldersDiffer'
  BY <1>5, <1>6 DEF ReservationInv, HoldersDiffer
<1>11. acked[r] # Never => now - acked[r] > Lookback
  BY DEF ReservationInv, AckedRowStays
<1>12. AckedRowStays'
  BY <1>1, <1>2, <1>11 DEF ReservationInv, AckedRowStays
<1>13. HoldersAreOutOfWindow'
  BY <1>2, <1>3, <1>5, <1>11 DEF ReservationInv, HoldersAreOutOfWindow, At
<1>14. QED BY <1>8, <1>9, <1>10, <1>12, <1>13 DEF ReservationInv

(* The acknowledgement is entered under the row the job holds; no other    *)
(* job holds that row.                                                     *)
LEMMA SendSucceedsStep ==
    ASSUME ReservationInv, TypeOK', NEW s \in Slots, SendSucceeds(s)
    PROVE  ReservationInv'
<1>1. JobTypeOK /\ acked \in [Hashes -> Times \cup {Never}]
  BY DEF ReservationInv, TypeOK, PublisherTypeOK
<1>2. /\ Goto(s, "sent") /\ InSend(s) /\ now' = now /\ dedupe' = dedupe
      /\ acked' = IF job[s].hash = NoHash THEN acked
                  ELSE [acked EXCEPT ![job[s].hash] = dedupe[job[s].hash]]
  BY DEF SendSucceeds, storeVars
<1>3. /\ job'[s].pc = "sent" /\ job'[s].hash = job[s].hash
      /\ job'[s].since = job[s].since
      /\ \A t \in Slots \ {s} : job'[t] = job[t]
  BY <1>1, <1>2, GotoEffect
<1>4. Busy(s) /\ job[s].pc \in Reserving
  BY <1>2 DEF InSend, Busy, Reserving
<1>5. \A t \in Slots, h \in Hashes : Holds(t, h)' => Holds(t, h)
  BY <1>3, <1>4 DEF Holds
<1>6. JobsAreRecent'
  BY <1>2, <1>3, <1>4 DEF ReservationInv, JobsAreRecent, Busy
<1>7. RowsAreHeld'
  BY <1>2, <1>3, <1>5 DEF ReservationInv, RowsAreHeld
<1>8. HoldersDiffer'
  BY <1>5 DEF ReservationInv, HoldersDiffer
<1>9. AckedRowStays'
  BY <1>1, <1>2 DEF ReservationInv, AckedRowStays
<1>10. HoldersAreOutOfWindow'
  <2> SUFFICES ASSUME NEW t \in Slots, NEW h \in Hashes,
                      Holds(t, h)', ~At(t, "sent")', acked'[h] # Never
               PROVE  now' - acked'[h] > Lookback
    BY DEF HoldersAreOutOfWindow
  <2>1. t # s
    BY <1>3 DEF At
  <2>2. Holds(t, h) /\ ~At(t, "sent") /\ h # job[s].hash
    BY <1>3, <1>4, <1>5, <2>1 DEF ReservationInv, HoldersDiffer, Holds, At
  <2>3. acked'[h] = acked[h]
    BY <1>1, <1>2, <2>2
  <2>4. QED BY <1>2, <2>2, <2>3 DEF ReservationInv, HoldersAreOutOfWindow
<1>11. QED BY <1>6, <1>7, <1>8, <1>9, <1>10 DEF ReservationInv

(* Only the holder's row goes, and what was acknowledged under the hash    *)
(* before it is out of the window.                                         *)
LEMMA ReleaseStep ==
    ASSUME ReservationInv, TypeOK', NEW s \in Slots, Release(s)
    PROVE  ReservationInv'
<1>1. JobTypeOK /\ dedupe \in [Hashes -> Times \cup {Never}]
  BY DEF ReservationInv, TypeOK, PublisherTypeOK, StoreTypeOK
<1>2. /\ Goto(s, "failing") /\ At(s, "releasing") /\ now' = now /\ acked' = acked
      /\ dedupe' = IF job[s].hash = NoHash THEN dedupe
                   ELSE [dedupe EXCEPT ![job[s].hash] = Never]
  BY DEF Release
<1>3. /\ job'[s].pc = "failing" /\ job'[s].hash = job[s].hash
      /\ job'[s].since = job[s].since
      /\ \A t \in Slots \ {s} : job'[t] = job[t]
  BY <1>1, <1>2, GotoEffect
<1>4. Busy(s) /\ job[s].pc \in Reserving /\ ~At(s, "sent")
  BY <1>2 DEF At, Busy, Reserving
<1>5. \A t \in Slots, h \in Hashes : Holds(t, h)' => Holds(t, h) /\ t # s
  BY <1>3 DEF Holds, Reserving
<1>6. \A t \in Slots, h \in Hashes : Holds(t, h)' => h # job[s].hash
  BY <1>4, <1>5 DEF ReservationInv, HoldersDiffer, Holds
<1>7. JobsAreRecent'
  BY <1>2, <1>3, <1>4 DEF ReservationInv, JobsAreRecent, Busy
<1>8. RowsAreHeld'
  BY <1>1, <1>2, <1>3, <1>5, <1>6 DEF ReservationInv, RowsAreHeld
<1>9. HoldersDiffer'
  BY <1>5 DEF ReservationInv, HoldersDiffer
<1>10. job[s].hash \in Hashes /\ acked[job[s].hash] # Never
           => now - acked[job[s].hash] > Lookback
  BY <1>4 DEF ReservationInv, HoldersAreOutOfWindow, Holds
<1>11. AckedRowStays'
  BY <1>1, <1>2, <1>10 DEF ReservationInv, AckedRowStays
<1>12. HoldersAreOutOfWindow'
  BY <1>2, <1>3, <1>5 DEF ReservationInv, HoldersAreOutOfWindow, At
<1>13. QED BY <1>7, <1>8, <1>9, <1>11, <1>12 DEF ReservationInv

(* The row the job reserved is still there: the second INSERT does nothing. *)
LEMMA MarkPublishedStep ==
    ASSUME ReservationInv, TypeOK', NEW s \in Slots, MarkPublished(s)
    PROVE  ReservationInv'
<1>1. JobTypeOK
  BY DEF ReservationInv, TypeOK, PublisherTypeOK
<1>2. At(s, "sent") /\ Busy(s) /\ now' = now /\ acked' = acked
  BY DEF MarkPublished, At, Busy
<1>3. job[s].hash # NoHash => dedupe[job[s].hash] # Never
  <2>1. Busy(s) => job[s].hash \in Hashes \cup {NoHash}
    BY <1>1, BusyJob
  <2>2. QED BY <1>2, <2>1 DEF ReservationInv, RowsAreHeld, Holds, At, Reserving
<1>4. dedupe' = dedupe
  BY <1>3 DEF MarkPublished
<1>5. PICK pc \in {"failing", "marked"} : Goto(s, pc)
  BY DEF MarkPublished
<1>6. /\ job'[s].pc = pc /\ job'[s].since = job[s].since
      /\ \A t \in Slots \ {s} : job'[t] = job[t]
  BY <1>1, <1>5, GotoEffect
<1>7. JobsAreRecent'
  BY <1>2, <1>6 DEF ReservationInv, JobsAreRecent, Busy
<1>8. \A t \in Slots, h \in Hashes : Holds(t, h)' => t # s
  BY <1>5, <1>6 DEF Holds, Reserving
<1>9. QED BY <1>2, <1>4, <1>6, <1>7, <1>8, QuietStep DEF Holds, At

LEMMA JobStepReservation ==
    ASSUME ReservationInv, TypeOK', NEW s \in Slots,
           JobStep(s) \/ StatementRaises(s) \/ JobTimesOut(s)
    PROVE  ReservationInv'
<1>1. CASE Reserve(s)
  <2>1. CASE dedupe[job[s].hash] = Never
    <3>1. CASE job[s].hash \in Hashes
      BY <1>1, <2>1, <3>1, ReserveStep
    <3>2. CASE job[s].hash \notin Hashes
      <4>1. JobTypeOK /\ Goto(s, "waiting") /\ At(s, "checked") /\ now' = now /\ acked' = acked
        BY <1>1, <2>1 DEF Reserve, ReservationInv, TypeOK, PublisherTypeOK
      <4>2. dedupe \in [Hashes -> Times \cup {Never}]
        BY DEF ReservationInv, TypeOK, StoreTypeOK
      <4>3. dedupe' = dedupe
        BY <1>1, <2>1, <3>2, <4>2 DEF Reserve
      <4>4. /\ job'[s].hash = job[s].hash /\ job'[s].since = job[s].since
            /\ \A t \in Slots \ {s} : job'[t] = job[t]
        BY <4>1, GotoEffect
      <4>5. JobsAreRecent'
        BY <4>1, <4>4 DEF ReservationInv, JobsAreRecent, Busy, At
      <4>6. QED BY <3>2, <4>1, <4>3, <4>4, <4>5, QuietStep DEF Holds, At
    <3>3. QED BY <3>1, <3>2
  <2>2. CASE dedupe[job[s].hash] # Never
    <3>1. JobTypeOK /\ Goto(s, "duplicate") /\ At(s, "checked")
      BY <1>1, <2>2 DEF Reserve, ReservationInv, TypeOK, PublisherTypeOK
    <3>2. UNCHANGED <<dedupe, acked, now>>
      BY <1>1, <2>2 DEF Reserve
    <3>3. /\ job'[s].pc = "duplicate" /\ job'[s].since = job[s].since
          /\ \A t \in Slots \ {s} : job'[t] = job[t]
      BY <3>1, GotoEffect
    <3>4. JobsAreRecent'
      BY <3>1, <3>2, <3>3 DEF ReservationInv, JobsAreRecent, Busy, At
    <3>5. \A t \in Slots, h \in Hashes : Holds(t, h)' => t # s
      BY <3>3 DEF Holds, Reserving
    <3>6. QED BY <3>2, <3>3, <3>4, <3>5, QuietStep DEF Holds, At
  <2>3. QED BY <2>1, <2>2
<1>2. CASE SendSucceeds(s)
  BY <1>2, SendSucceedsStep
<1>3. CASE Release(s)
  BY <1>3, ReleaseStep
<1>4. CASE MarkPublished(s)
  BY <1>4, MarkPublishedStep
<1>5. CASE \/ Claim(s) \/ ChannelMissing(s) \/ CheckDedupe(s) \/ MarkDuplicate(s)
           \/ AcquireSendLock(s) \/ SendRaises(s) \/ EditDraftCard(s) \/ RecordFailure(s)
           \/ StatementRaises(s) \/ JobTimesOut(s)
  <2>1. UNCHANGED <<dedupe, acked, now>>
    BY <1>5 DEF Claim, ChannelMissing, CheckDedupe, MarkDuplicate, AcquireSendLock,
                SendRaises, EditDraftCard, RecordFailure, StatementRaises, JobTimesOut,
                storeVars
  <2>2. QED BY <1>5, <2>1, QuietJobStep
<1>6. QED BY <1>1, <1>2, <1>3, <1>4, <1>5 DEF JobStep

LEMMA PublisherReservation ==
    ASSUME ReservationInv, TypeOK', PublisherNext
    PROVE  ReservationInv'
<1>1. JobTypeOK /\ now \in Times
  BY DEF ReservationInv, TypeOK, PublisherTypeOK, StoreTypeOK
<1>2. ASSUME NEW s \in Slots, NEW p \in Posts, StartJob(s, p)
      PROVE  ReservationInv'
  <2>1. PICK d \in Dues : Skip(s, p, d) \/ Load(s, p, d)
    BY <1>2 DEF StartJob
  <2>2. CASE Skip(s, p, d)
    <3>1. job' = job /\ UNCHANGED <<dedupe, acked, now>>
      BY <2>2 DEF Skip, publisherVars
    <3>2. JobsAreRecent'
      BY <3>1 DEF ReservationInv, JobsAreRecent, Busy
    <3>3. QED BY <3>1, <3>2, QuietStep DEF Holds, At
  <2>3. CASE Load(s, p, d)
    <3>1. /\ job'[s].pc = "loaded" /\ job'[s].since = now
          /\ \A t \in Slots \ {s} : job'[t] = job[t]
      BY <1>1, <2>3 DEF Load, JobTypeOK
    <3>2. UNCHANGED <<dedupe, acked, now>>
      BY <2>3 DEF Load
    <3>3. JobsAreRecent'
      BY <1>1, <3>1, <3>2 DEF ReservationInv, JobsAreRecent, Busy, Times
    <3>4. \A t \in Slots, h \in Hashes : Holds(t, h)' => t # s
      BY <3>1 DEF Holds, Reserving
    <3>5. QED BY <3>1, <3>2, <3>3, <3>4, QuietStep DEF Holds, At
  <2>4. QED BY <2>1, <2>2, <2>3
<1>3. CASE BotCrashes
  <2>1. \A s \in Slots : job'[s].pc = "idle"
    BY <1>3 DEF BotCrashes, IdleJob
  <2>2. UNCHANGED <<dedupe, acked, now>>
    BY <1>3 DEF BotCrashes
  <2>3. JobsAreRecent'
    BY <2>1 DEF JobsAreRecent, Busy
  <2>4. QED BY <2>1, <2>2, <2>3, QuietStep DEF Holds, Reserving
<1>4. QED BY <1>2, <1>3, JobStepReservation DEF PublisherNext

(* A held row is at most a tick old, so pruning leaves it.                 *)
LEMMA HeldRowIsFresh ==
    ASSUME ReservationInv, NEW s \in Slots, NEW h \in Hashes, Holds(s, h)
    PROVE  ~Expired(h)
<1>1. /\ now \in Times /\ dedupe \in [Hashes -> Times \cup {Never}] /\ JobTypeOK
  BY DEF ReservationInv, TypeOK, StoreTypeOK, PublisherTypeOK
<1>2. Busy(s)
  BY DEF Holds, Busy, Reserving
<1>3. job[s].since \in Times
  BY <1>1, <1>2, BusyJob
<1>4. job[s].since <= dedupe[h] /\ dedupe[h] # Never /\ now <= job[s].since + 1
  BY <1>2 DEF ReservationInv, RowsAreHeld, JobsAreRecent
<1>5. dedupe[h] \in Times
  BY <1>1, <1>4
<1>6. QED BY <1>1, <1>3, <1>4, <1>5, TimeAssumption DEF Expired, Times

LEMMA PruneReservation ==
    ASSUME ReservationInv, TypeOK', PruneDedupe, UNCHANGED <<publisherVars, deleting>>
    PROVE  ReservationInv'
<1>1. /\ now \in Times /\ now' = now /\ job' = job /\ acked' = acked
      /\ dedupe \in [Hashes -> Times \cup {Never}] /\ JobTypeOK
  BY DEF PruneDedupe, publisherVars, ReservationInv, TypeOK, StoreTypeOK, PublisherTypeOK
<1>2. \A h \in Hashes : dedupe'[h] = IF Expired(h) THEN Never ELSE dedupe[h]
  BY DEF PruneDedupe
<1>3. \A s \in Slots, h \in Hashes : Holds(s, h) => ~Expired(h)
  BY HeldRowIsFresh
<1>4. JobsAreRecent'
  BY <1>1 DEF ReservationInv, JobsAreRecent, Busy
<1>5. RowsAreHeld'
  BY <1>1, <1>2, <1>3 DEF ReservationInv, RowsAreHeld, Holds
<1>6. HoldersDiffer'
  BY <1>1 DEF ReservationInv, HoldersDiffer, Holds
<1>7. AckedRowStays'
  BY <1>1, <1>2 DEF ReservationInv, AckedRowStays, Expired
<1>8. HoldersAreOutOfWindow'
  BY <1>1 DEF ReservationInv, HoldersAreOutOfWindow, Holds, At
<1>9. QED BY <1>4, <1>5, <1>6, <1>7, <1>8 DEF ReservationInv

(* Time moves only when every job is of the present tick.                  *)
LEMMA TickReservation ==
    ASSUME ReservationInv, TypeOK', Tick
    PROVE  ReservationInv'
<1>1. /\ now \in Nat /\ now' = now + 1 /\ job' = job /\ acked' = acked /\ dedupe' = dedupe
      /\ acked \in [Hashes -> Times \cup {Never}] /\ JobTypeOK
  BY DEF Tick, publisherVars, ReservationInv, TypeOK, StoreTypeOK, PublisherTypeOK, Times
<1>2. Times \cup {Never} \subseteq Nat /\ Lookback \in Nat
  BY TimeAssumption DEF Times, Never
<1>3. JobsAreRecent'
  <2> SUFFICES ASSUME NEW s \in Slots, Busy(s) PROVE job[s].since <= now + 1 /\ now + 1 <= job[s].since + 1
    BY <1>1 DEF JobsAreRecent, Busy
  <2>1. job[s].since = now
    BY DEF Tick
  <2>2. QED BY <1>1, <2>1
<1>4. RowsAreHeld' /\ HoldersDiffer'
  BY <1>1 DEF ReservationInv, RowsAreHeld, HoldersDiffer, Holds
<1>5. ASSUME NEW h \in Hashes PROVE now - acked[h] > Lookback => now' - acked'[h] > Lookback
  BY <1>1, <1>2
<1>6. AckedRowStays' /\ HoldersAreOutOfWindow'
  BY <1>1, <1>5 DEF ReservationInv, AckedRowStays, HoldersAreOutOfWindow, Holds, At
<1>7. QED BY <1>3, <1>4, <1>6 DEF ReservationInv

LEMMA NextReservation == ReservationInv /\ [Next]_vars => ReservationInv'
<1> SUFFICES ASSUME ReservationInv, [Next]_vars PROVE ReservationInv'
  OBVIOUS
<1>1. TypeOK'
  BY NextTypeOK DEF ReservationInv
<1>2. ASSUME UNCHANGED <<dedupe, now, publisherVars>> PROVE ReservationInv'
  <2>1. job' = job /\ acked' = acked
    BY <1>2 DEF publisherVars
  <2>2. JobsAreRecent'
    BY <1>2, <2>1 DEF ReservationInv, JobsAreRecent, Busy
  <2>3. QED BY <1>1, <1>2, <2>1, <2>2, QuietStep DEF Holds, At
<1>3. CASE PublisherNext
  BY <1>1, <1>3, PublisherReservation
<1>4. CASE DecisionsNext /\ UNCHANGED publisherVars
  <2>1. UNCHANGED <<dedupe, now>>
    BY <1>4 DEF DecisionsNext, Decide, Approve, Schedule, Reject, CbApprove, CbReject,
                CheckChannelDeletable, DeleteChannel, storeVars
  <2>2. QED BY <1>2, <1>4, <2>1
<1>5. CASE HousekeepingNext /\ UNCHANGED <<publisherVars, deleting>>
  <2>1. CASE PruneDedupe
    BY <1>1, <1>5, <2>1, PruneReservation
  <2>2. CASE ReconcileScheduled
    BY <1>2, <1>5, <2>2 DEF ReconcileScheduled
  <2>3. QED BY <1>5, <2>1, <2>2 DEF HousekeepingNext
<1>6. CASE Tick
  BY <1>1, <1>6, TickReservation
<1>7. CASE UNCHANGED vars
  BY <1>2, <1>7 DEF vars, storeVars
<1>8. QED BY <1>3, <1>4, <1>5, <1>6, <1>7 DEF Next

LEMMA ReservationInvariant == Spec => []ReservationInv
<1>1. QED BY InitReservation, NextReservation, PTL DEF Spec

(* The dedupe row is a lock on content, whatever crashes, times out or     *)
(* raises: a job on its way to Telegram has its row, and is alone with it. *)
THEOREM ReservationIsExclusive == Spec => []ReservationExclusive
<1>1. ReservationInv => ReservationExclusive
  BY DEF ReservationInv, RowsAreHeld, HoldersDiffer, ReservationExclusive
<1>2. QED BY <1>1, ReservationInvariant, PTL

(* Content that Telegram has acknowledged is not sent again within the     *)
(* lookback window of that send.                                           *)
THEOREM NoRepeatWithinLookback == Spec => []NoRepeatInWindow
<1>1. ReservationInv => NoRepeatInWindow
  BY DEF ReservationInv, HoldersAreOutOfWindow, NoRepeatInWindow, At
<1>2. QED BY <1>1, ReservationInvariant, PTL

-----------------------------------------------------------------------------
(* The publish jobs implement OncePerWindow: every step of Publishing is a *)
(* step of the abstract specification or leaves its variables alone.       *)

SendersOf(h) == {s \in Slots : Sending(s, h)}

LEMMA InitRowsAreRecent == Init => RowsAreRecent
  BY DEF Init, RowsAreRecent, Never

(* Rows are dropped, left, or written with the present time.               *)
LEMMA NextRowsAreRecent == TypeOK /\ RowsAreRecent /\ [Next]_vars => RowsAreRecent'
<1> SUFFICES ASSUME TypeOK, RowsAreRecent, [Next]_vars PROVE RowsAreRecent'
  OBVIOUS
<1>1. /\ now \in Nat /\ now \in Times
      /\ dedupe \in [Hashes -> Times \cup {Never}]
      /\ Times \cup {Never} \subseteq Nat
  BY DEF TypeOK, StoreTypeOK, Times, Never
<1>2. ASSUME now' = now, \A h \in Hashes : dedupe'[h] \in {dedupe[h], now, Never}
      PROVE  RowsAreRecent'
  BY <1>1, <1>2 DEF RowsAreRecent, Never
<1>3. ASSUME now' = now, dedupe' = dedupe PROVE RowsAreRecent'
  BY <1>2, <1>3
<1>4. ASSUME NEW s \in Slots, JobStep(s) \/ StatementRaises(s) \/ JobTimesOut(s)
      PROVE  RowsAreRecent'
  <2>1. CASE Reserve(s) \/ Release(s) \/ MarkPublished(s)
    <3>1. now' = now
      BY <2>1 DEF Reserve, Release, MarkPublished
    <3>2. \A h \in Hashes : dedupe'[h] \in {dedupe[h], now, Never}
      BY <1>1, <2>1 DEF Reserve, Release, MarkPublished
    <3>3. QED BY <1>2, <3>1, <3>2
  <2>2. CASE \/ Claim(s) \/ ChannelMissing(s) \/ CheckDedupe(s) \/ MarkDuplicate(s)
             \/ AcquireSendLock(s) \/ SendSucceeds(s) \/ SendRaises(s) \/ EditDraftCard(s)
             \/ RecordFailure(s) \/ StatementRaises(s) \/ JobTimesOut(s)
    BY <1>3, <2>2 DEF Claim, ChannelMissing, CheckDedupe, MarkDuplicate, AcquireSendLock,
                      SendSucceeds, SendRaises, EditDraftCard, RecordFailure,
                      StatementRaises, JobTimesOut, storeVars
  <2>3. QED BY <1>4, <2>1, <2>2 DEF JobStep
<1>5. CASE PublisherNext
  <2>1. ASSUME NEW s \in Slots, NEW p \in Posts, StartJob(s, p) PROVE RowsAreRecent'
    BY <1>3, <2>1 DEF StartJob, Skip, Load
  <2>2. CASE BotCrashes
    BY <1>3, <2>2 DEF BotCrashes
  <2>3. QED BY <1>4, <1>5, <2>1, <2>2 DEF PublisherNext
<1>6. CASE DecisionsNext /\ UNCHANGED publisherVars
  BY <1>3, <1>6 DEF DecisionsNext, Decide, Approve, Schedule, Reject, CbApprove, CbReject,
                    CheckChannelDeletable, DeleteChannel, storeVars
<1>7. CASE HousekeepingNext /\ UNCHANGED <<publisherVars, deleting>>
  <2>1. CASE PruneDedupe
    BY <1>1, <1>2, <2>1 DEF PruneDedupe
  <2>2. CASE ReconcileScheduled
    BY <1>3, <2>2 DEF ReconcileScheduled
  <2>3. QED BY <1>7, <2>1, <2>2 DEF HousekeepingNext
<1>8. CASE Tick
  BY <1>1, <1>8 DEF Tick, RowsAreRecent
<1>9. CASE UNCHANGED vars
  BY <1>3, <1>9 DEF vars, storeVars
<1>10. QED BY <1>5, <1>6, <1>7, <1>8, <1>9 DEF Next

LEMMA RowsAreRecentInvariant == Spec => []RowsAreRecent
<1>1. QED BY InitRowsAreRecent, NextRowsAreRecent, TypeCorrect, PTL DEF Spec

-----------------------------------------------------------------------------
(* A step after which no one sends who did not before: tries were given up. *)
LEMMA GivenUp ==
    ASSUME ReservationInv, UNCHANGED <<acked, now>>,
           \A t \in Slots, h \in Hashes : Sending(t, h)' => Sending(t, h)
    PROVE  [OPW!Next]_OPW!vars
<1> DEFINE C == {h \in Hashes : SendersOf(h)' = {}}
<1>1. ASSUME NEW h \in Hashes PROVE SendersOf(h)' = IF h \in C THEN {} ELSE SendersOf(h)
  <2>1. SendersOf(h)' \subseteq SendersOf(h)
    BY DEF SendersOf
  <2>2. \A s, t \in SendersOf(h) : s = t
    BY DEF ReservationInv, HoldersDiffer, SendersOf, Sending
  <2>3. CASE h \in C
    BY <2>3
  <2>4. CASE h \notin C
    <3>1. PICK s \in SendersOf(h)' : TRUE
      BY <2>4
    <3>2. QED BY <2>1, <2>2, <2>4, <3>1
  <2>5. QED BY <2>3, <2>4
<1>2. OPW!GiveUp(C)
  BY <1>1 DEF OPW!GiveUp, SendersOf
<1>3. C \in SUBSET Hashes
  OBVIOUS
<1>4. QED BY <1>2, <1>3 DEF OPW!Next

LEMMA ReserveStarts ==
    ASSUME ReservationInv, NEW s \in Slots, Reserve(s), job[s].hash \in Hashes,
           dedupe[job[s].hash] = Never
    PROVE  OPW!Next
<1> DEFINE r == job[s].hash
<1>1. /\ JobTypeOK /\ now \in Times /\ acked \in [Hashes -> Times \cup {Never}]
      /\ Lookback \in Nat
  BY TimeAssumption DEF ReservationInv, TypeOK, PublisherTypeOK, StoreTypeOK
<1>2. /\ Goto(s, "waiting") /\ At(s, "checked") /\ now' = now /\ acked' = acked
  BY DEF Reserve
<1>3. /\ job'[s].pc = "waiting" /\ job'[s].hash = r
      /\ \A t \in Slots \ {s} : job'[t] = job[t]
  BY <1>1, <1>2, GotoEffect
<1>4. \A h \in Hashes : ~Sending(s, h)
  BY <1>2 DEF Sending, Holds, At, Reserving
<1>5. SendersOf(r) = {}
  BY DEF ReservationInv, RowsAreHeld, SendersOf, Sending
<1>6. \A t \in Slots, h \in Hashes :
          Sending(t, h)' <=> IF t = s THEN h = r ELSE Sending(t, h)
  BY <1>3 DEF Sending, Holds, At, Reserving
<1>7. \A h \in Hashes : SendersOf(h)' = IF h = r THEN {s} ELSE SendersOf(h)
  BY <1>4, <1>5, <1>6 DEF SendersOf
<1>8. acked[r] = 0 \/ now - acked[r] > Lookback
  BY DEF ReservationInv, AckedRowStays, Never
<1>9. OPW!Start(s, r)
  BY <1>2, <1>5, <1>7, <1>8 DEF OPW!Start, SendersOf
<1>10. QED BY <1>9 DEF OPW!Next

LEMMA SendAcknowledges ==
    ASSUME ReservationInv, RowsAreRecent, NEW s \in Slots, SendSucceeds(s),
           job[s].hash \in Hashes
    PROVE  OPW!Next
<1> DEFINE r == job[s].hash
<1>1. /\ JobTypeOK /\ now \in Times /\ acked \in [Hashes -> Times \cup {Never}]
      /\ dedupe \in [Hashes -> Times \cup {Never}]
  BY DEF ReservationInv, TypeOK, PublisherTypeOK, StoreTypeOK
<1>2. /\ Goto(s, "sent") /\ InSend(s) /\ now' = now
      /\ acked' = [acked EXCEPT ![r] = dedupe[r]]
  BY NoHashAssumption DEF SendSucceeds, storeVars
<1>3. /\ job'[s].pc = "sent" /\ job'[s].hash = r
      /\ \A t \in Slots \ {s} : job'[t] = job[t]
  BY <1>1, <1>2, GotoEffect
<1>4. Busy(s) /\ Holds(s, r) /\ Sending(s, r)
  BY <1>2 DEF InSend, Busy, Holds, Sending, At, Reserving
<1>5. \A t \in Slots, h \in Hashes : Sending(t, h)' <=> Sending(t, h) /\ t # s
  BY <1>3 DEF Sending, Holds, At, Reserving
<1>6. \A t \in Slots : Sending(t, r) => t = s
  BY <1>4 DEF ReservationInv, HoldersDiffer, Sending
<1>7. \A h \in Hashes : h # r => ~Sending(s, h)
  BY DEF Sending, Holds
<1>8. \A h \in Hashes : SendersOf(h)' = IF h = r THEN {} ELSE SendersOf(h)
  BY <1>5, <1>6, <1>7 DEF SendersOf
<1>9. /\ dedupe[r] <= now /\ now <= dedupe[r] + 1 /\ dedupe[r] \in {now - 1, now}
  <2>1. job[s].since \in Times /\ dedupe[r] \in Times
    BY <1>1, <1>4, BusyJob DEF ReservationInv, RowsAreHeld
  <2>2. job[s].since <= dedupe[r] /\ now <= job[s].since + 1 /\ dedupe[r] <= now
    BY <1>4 DEF ReservationInv, RowsAreHeld, JobsAreRecent, RowsAreRecent
  <2>3. QED BY <1>1, <2>1, <2>2 DEF Times
<1>10. OPW!Acknowledge(r, dedupe[r])
  BY <1>2, <1>4, <1>8, <1>9 DEF OPW!Acknowledge, SendersOf
<1>11. QED BY <1>9, <1>10 DEF OPW!Next

(* A job step that does not reserve and is not acknowledged gives up or    *)
(* changes nothing for the others.                                         *)
LEMMA QuietStepGivesUp ==
    ASSUME ReservationInv, NEW s \in Slots, UNCHANGED <<acked, now>>,
           \A t \in Slots \ {s} : job'[t] = job[t],
           \A h \in Hashes : Sending(s, h)' => Sending(s, h)
    PROVE  [OPW!Next]_OPW!vars
<1>1. \A t \in Slots, h \in Hashes : Sending(t, h)' => Sending(t, h)
  BY DEF Sending, Holds, At
<1>2. QED BY <1>1, GivenUp

LEMMA JobStepImplements ==
    ASSUME ReservationInv, RowsAreRecent, NEW s \in Slots,
           JobStep(s) \/ StatementRaises(s) \/ JobTimesOut(s)
    PROVE  [OPW!Next]_OPW!vars
<1>1. JobTypeOK /\ acked \in [Hashes -> Times \cup {Never}]
  BY DEF ReservationInv, TypeOK, PublisherTypeOK
<1>2. ASSUME Finish(s), UNCHANGED <<acked, now>> PROVE [OPW!Next]_OPW!vars
  <2>1. job'[s].pc = "idle" /\ \A t \in Slots \ {s} : job'[t] = job[t]
    BY <1>1, <1>2, FinishEffect
  <2>2. QED BY <1>2, <2>1, QuietStepGivesUp DEF Sending, Holds, Reserving
<1>3. ASSUME NEW pc, Goto(s, pc), UNCHANGED <<acked, now>>,
             pc \in Reserving \ {"sent"} =>
                 job[s].hash \notin Hashes \/ job[s].pc \in Reserving \ {"sent"}
      PROVE  [OPW!Next]_OPW!vars
  <2>1. /\ job'[s].pc = pc /\ job'[s].hash = job[s].hash
        /\ \A t \in Slots \ {s} : job'[t] = job[t]
    BY <1>1, <1>3, GotoEffect
  <2>2. QED BY <1>3, <2>1, QuietStepGivesUp DEF Sending, Holds, At
<1>4. CASE Reserve(s)
  <2>1. CASE job[s].hash \in Hashes /\ dedupe[job[s].hash] = Never
    BY <1>4, <2>1, ReserveStarts
  <2>2. CASE job[s].hash \notin Hashes \/ dedupe[job[s].hash] # Never
    <3>1. PICK pc \in {"waiting", "duplicate"} :
              Goto(s, pc) /\ (pc = "waiting" => job[s].hash \notin Hashes)
      BY <1>4, <2>2 DEF Reserve
    <3>2. QED BY <1>3, <1>4, <3>1 DEF Reserve, Reserving
  <2>3. QED BY <2>1, <2>2
<1>5. CASE SendSucceeds(s)
  <2>1. CASE job[s].hash \in Hashes
    BY <1>5, <2>1, SendAcknowledges
  <2>2. CASE job[s].hash \notin Hashes
    <3>1. acked' = acked
      BY <1>1, <1>5, <2>2 DEF SendSucceeds
    <3>2. QED BY <1>3, <1>5, <2>2, <3>1 DEF SendSucceeds, storeVars
  <2>3. QED BY <2>1, <2>2
<1>6. CASE Claim(s) \/ StatementRaises(s)
  BY <1>2, <1>3, <1>6 DEF Claim, StatementRaises, Reserving
<1>7. CASE CheckDedupe(s)
  BY <1>3, <1>7, NoHashAssumption DEF CheckDedupe, storeVars, Reserving
<1>8. CASE AcquireSendLock(s) \/ SendRaises(s)
  BY <1>3, <1>8 DEF AcquireSendLock, SendRaises, InSend, At, storeVars, Reserving
<1>9. CASE Release(s) \/ MarkPublished(s)
  BY <1>3, <1>9 DEF Release, MarkPublished, Reserving
<1>10. QED
  BY <1>2, <1>4, <1>5, <1>6, <1>7, <1>8, <1>9
     DEF JobStep, ChannelMissing, MarkDuplicate, EditDraftCard, RecordFailure, JobTimesOut,
         storeVars

LEMMA NextImplements == ReservationInv /\ RowsAreRecent /\ [Next]_vars => [OPW!Next]_OPW!vars
<1> SUFFICES ASSUME ReservationInv, RowsAreRecent, [Next]_vars PROVE [OPW!Next]_OPW!vars
  OBVIOUS
<1>1. ASSUME UNCHANGED <<job, acked, now>> PROVE [OPW!Next]_OPW!vars
  BY <1>1, GivenUp DEF Sending, Holds, At
<1>2. CASE PublisherNext
  <2>1. ASSUME NEW s \in Slots, NEW p \in Posts, StartJob(s, p) PROVE [OPW!Next]_OPW!vars
    <3>1. PICK d \in Dues : Skip(s, p, d) \/ Load(s, p, d)
      BY <2>1 DEF StartJob
    <3>2. CASE Skip(s, p, d)
      BY <1>1, <3>2 DEF Skip, publisherVars
    <3>3. CASE Load(s, p, d)
      <4>1. job'[s].pc = "loaded" /\ \A t \in Slots \ {s} : job'[t] = job[t]
        BY <3>3 DEF Load, ReservationInv, TypeOK, PublisherTypeOK, JobTypeOK
      <4>2. QED BY <3>3, <4>1, QuietStepGivesUp DEF Load, Sending, Holds, Reserving
    <3>4. QED BY <3>1, <3>2, <3>3
  <2>2. CASE BotCrashes
    <3>1. \A s \in Slots, h \in Hashes : ~Sending(s, h)'
      BY <2>2 DEF BotCrashes, IdleJob, Sending, Holds, Reserving
    <3>2. QED BY <2>2, <3>1, GivenUp DEF BotCrashes
  <2>3. QED BY <1>2, <2>1, <2>2, JobStepImplements DEF PublisherNext
<1>3. CASE DecisionsNext /\ UNCHANGED publisherVars
  BY <1>1, <1>3 DEF DecisionsNext, Decide, Approve, Schedule, Reject, CbApprove, CbReject,
                    CheckChannelDeletable, DeleteChannel, storeVars, publisherVars
<1>4. CASE HousekeepingNext /\ UNCHANGED <<publisherVars, deleting>>
  BY <1>1, <1>4 DEF HousekeepingNext, ReconcileScheduled, PruneDedupe, publisherVars
<1>5. CASE Tick
  <2>1. OPW!Advance
    BY <1>5 DEF Tick, OPW!Advance, publisherVars, Sending, Holds, At
  <2>2. QED BY <2>1 DEF OPW!Next
<1>6. CASE UNCHANGED vars
  BY <1>1, <1>6 DEF vars, storeVars, publisherVars
<1>7. QED BY <1>2, <1>3, <1>4, <1>5, <1>6 DEF Next

(* The publish jobs, whatever fails between them, keep the promise of      *)
(* OncePerWindow to every content.                                         *)
THEOREM JobsSendOncePerWindow == Spec => SendsOncePerWindow
<1>1. Init => OPW!Init
  BY DEF Init, PublisherInit, IdleJob, OPW!Init, Sending, Holds, Reserving, Never
<1>2. QED
  BY <1>1, NextImplements, ReservationInvariant, RowsAreRecentInvariant, PTL
     DEF Spec, SendsOncePerWindow, OPW!Spec

-----------------------------------------------------------------------------
(* What OncePerWindow is good for: acknowledged sends of a content are     *)
(* apart. The proof is one about the abstract specification: it holds of   *)
(* whatever implements that.                                               *)

Trying(h) == {s \in Slots : Sending(s, h)}

\* The acknowledgement of a content that had been acknowledged before.
AckIsApart(h) == acked[h] # Never /\ acked'[h] # acked[h] => acked'[h] - acked[h] >= Lookback

(* Who tries does so outside the window of the last acknowledged send.     *)
PromiseInv == /\ now \in Nat \ {0}
              /\ acked \in [Hashes -> Nat]
              /\ \A h \in Hashes : Trying(h) # {} /\ acked[h] # Never => now - acked[h] > Lookback

LEMMA PromiseKept ==
    ASSUME PromiseInv, [OPW!Next]_OPW!vars
    PROVE  PromiseInv' /\ \A h \in Hashes : AckIsApart(h)
<1> DEFINE trying == [h \in Hashes |-> Trying(h)]
<1>1. Lookback \in Nat /\ \A h \in Hashes : trying[h] = Trying(h)
  BY TimeAssumption
<1>2. \A h \in Hashes : trying'[h] = Trying(h)'
  OBVIOUS
<1> HIDE DEF trying
<1>3. ASSUME NEW s \in Slots, NEW c \in Hashes, OPW!Start(s, c)
      PROVE  PromiseInv' /\ \A h \in Hashes : AckIsApart(h)
  <2>1. /\ acked[c] = Never \/ now - acked[c] > Lookback
        /\ acked' = acked /\ now' = now
        /\ trying' = [trying EXCEPT ![c] = {s}]
    BY <1>3 DEF OPW!Start, Never, trying, Trying
  <2>2. \A h \in Hashes \ {c} : Trying(h)' = Trying(h)
    BY <1>1, <1>2, <2>1 DEF trying
  <2>3. QED BY <2>1, <2>2 DEF PromiseInv, AckIsApart
<1>4. ASSUME NEW c \in Hashes, NEW started \in {now - 1, now}, OPW!Acknowledge(c, started)
      PROVE  PromiseInv' /\ \A h \in Hashes : AckIsApart(h)
  <2>1. /\ trying[c] # {} /\ now <= started + 1 /\ started <= now
        /\ acked' = [acked EXCEPT ![c] = started] /\ now' = now
        /\ trying' = [trying EXCEPT ![c] = {}]
    BY <1>1, <1>4 DEF OPW!Acknowledge, trying, Trying
  <2>2. /\ Trying(c)' = {}
        /\ \A h \in Hashes \ {c} : Trying(h)' = Trying(h)
    BY <1>1, <1>2, <2>1 DEF trying
  <2>3. started \in Nat
    BY <1>4 DEF PromiseInv
  <2>4. acked[c] # Never => now - acked[c] > Lookback
    BY <1>1, <2>1 DEF PromiseInv
  <2>5. \A h \in Hashes : AckIsApart(h)
    BY <1>1, <2>1, <2>3, <2>4 DEF PromiseInv, AckIsApart
  <2>6. QED BY <2>1, <2>2, <2>3, <2>5 DEF PromiseInv
<1>5. ASSUME NEW C \in SUBSET Hashes, OPW!GiveUp(C)
      PROVE  PromiseInv' /\ \A h \in Hashes : AckIsApart(h)
  <2>1. /\ acked' = acked /\ now' = now
        /\ trying' = [h \in Hashes |-> IF h \in C THEN {} ELSE trying[h]]
    BY <1>5 DEF OPW!GiveUp, trying, Trying
  <2>2. \A h \in Hashes : Trying(h)' # {} => Trying(h)' = Trying(h)
    BY <1>1, <1>2, <2>1
  <2>3. QED BY <2>1, <2>2 DEF PromiseInv, AckIsApart
<1>6. CASE OPW!Advance \/ UNCHANGED OPW!vars
  <2>1. acked' = acked /\ now' \in {now, now + 1} /\ trying' = trying
    BY <1>6 DEF OPW!Advance, OPW!vars, trying, Trying
  <2>2. \A h \in Hashes : Trying(h)' = Trying(h)
    BY <1>1, <1>2, <2>1
  <2>3. QED BY <1>1, <2>1, <2>2 DEF PromiseInv, AckIsApart
<1>7. QED BY <1>3, <1>4, <1>5, <1>6 DEF OPW!Next

(* Whatever implements OncePerWindow, the publish jobs by themselves or     *)
(* with the normalizer beside them, acknowledges two sends of one content  *)
(* for reservations that are a lookback window apart (_reserve_dedupe,     *)
(* prune_dedupe).                                                          *)
THEOREM AcknowledgedSendsAreApart ==
    SendsOncePerWindow => [][\A h \in Hashes : AckIsApart(h)]_acked
<1>1. OPW!Init => PromiseInv
  <2> SUFFICES ASSUME OPW!Init PROVE PromiseInv
    OBVIOUS
  <2>1. QED BY DEF OPW!Init, PromiseInv, Trying, Never
<1>2. PromiseInv /\ [OPW!Next]_OPW!vars => PromiseInv' /\ [\A h \in Hashes : AckIsApart(h)]_acked
  BY PromiseKept
<1>3. QED BY <1>1, <1>2, PTL DEF SendsOncePerWindow, OPW!Spec
=============================================================================
