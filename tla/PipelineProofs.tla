--------------------------- MODULE PipelineProofs ---------------------------
(***************************************************************************)
(* What publishing promises holds with the normalizer beside it, for every *)
(* number of posts, slots and workers: its steps touch neither the         *)
(* reservations nor the publish jobs in hand. And what the two promise     *)
(* together: no pending post is forgotten, a duplicate is one of           *)
(* something, a content is sent once per window, and nothing goes out      *)
(* before an editor let it out.                                            *)
(***************************************************************************)
EXTENDS Pipeline, OutcomeProofs

LEMMA AddNormalizeTypes ==
    ASSUME normQueue \in [Posts -> 0 .. MaxNormalize], NEW ps \in SUBSET Posts,
           \A p \in ps : normQueue[p] < MaxNormalize, AddNormalize(ps)
    PROVE  normQueue' \in [Posts -> 0 .. MaxNormalize]
  BY NormalizeAssumption DEF AddNormalize

LEMMA FreeIsWork == Free \in Work
  BY DEF Free, Work

(* A slot that works has a post, and its work is a record of two parts.    *)
LEMMA WorkOf ==
    ASSUME NormalizerTypeOK, NEW w \in Workers
    PROVE  work[w] \in Work /\ work[w].post \in Posts \cup {NoPost}
  BY DEF NormalizerTypeOK, Work

(* Whoever works has a post in hand.                                       *)
WorkHasPost == \A w \in Workers : ~Working(w, "idle") => work[w].post \in Posts

PipelineInv == ReservationInv /\ NormalizerTypeOK /\ WorkHasPost

LEMMA InitPipelineInv == PipelineInit => PipelineInv
<1> SUFFICES ASSUME PipelineInit PROVE PipelineInv
  OBVIOUS
<1>1. ReservationInv
  BY InitReservation DEF PipelineInit
<1>2. NormalizerTypeOK
  BY NormalizeAssumption, FreeIsWork
     DEF PipelineInit, NormalizerInit, NormalizerTypeOK
<1>3. WorkHasPost
  BY DEF PipelineInit, NormalizerInit, WorkHasPost, Free, Working
<1>4. QED BY <1>1, <1>2, <1>3 DEF PipelineInv

-----------------------------------------------------------------------------
(* The normalizer's own steps.                                             *)

LEMMA StartNormalizeStep ==
    ASSUME PipelineInv, NEW w \in Workers, NEW p \in Posts,
           SkipNormalize(w, p) \/ StartNormalize(w, p)
    PROVE  /\ UNCHANGED storeVars
           /\ NormalizerTypeOK' /\ WorkHasPost'
<1>1. TakeNormalize(w, p)
  BY DEF SkipNormalize, StartNormalize
<1>2. normQueue' \in [Posts -> 0 .. MaxNormalize]
  <2>1. normQueue[p] \in 0 .. MaxNormalize /\ normQueue[p] > 0
    BY <1>1 DEF PipelineInv, NormalizerTypeOK, TakeNormalize
  <2>2. normQueue[p] - 1 \in 0 .. MaxNormalize
    BY <2>1, NormalizeAssumption
  <2>3. QED BY <1>1, <2>2 DEF PipelineInv, NormalizerTypeOK, TakeNormalize
<1>3. CASE SkipNormalize(w, p)
  BY <1>1, <1>2, <1>3
     DEF SkipNormalize, TakeNormalize, PipelineInv, NormalizerTypeOK, WorkHasPost, Working
<1>4. CASE StartNormalize(w, p)
  <2> DEFINE r == [pc |-> "started", post |-> p]
  <2>1. r \in Work /\ work' = [work EXCEPT ![w] = r]
    BY <1>4 DEF StartNormalize, PipelineInv, NormalizerTypeOK, Work
  <2>2. r.post = p
    OBVIOUS
  <2> HIDE DEF r
  <2>3. work' \in [Workers -> Work]
    BY <2>1 DEF PipelineInv, NormalizerTypeOK
  <2>4. NormalizerTypeOK'
    BY <1>1, <1>2, <2>3 DEF TakeNormalize, PipelineInv, NormalizerTypeOK
  <2>5. \A v \in Workers : work'[v] = IF v = w THEN r ELSE work[v]
    BY <2>1 DEF PipelineInv, NormalizerTypeOK
  <2>6. WorkHasPost'
    BY <2>2, <2>5 DEF PipelineInv, WorkHasPost, Working
  <2>7. QED BY <1>1, <2>4, <2>6 DEF TakeNormalize
<1>5. QED BY <1>3, <1>4

(* A slot that ends leaves nothing in hand, and the others as they are.    *)
LEMMA EndStep ==
    ASSUME NormalizerTypeOK, WorkHasPost, NEW w \in Workers, End(w)
    PROVE  /\ work' \in [Workers -> Work]
           /\ WorkHasPost'
           /\ \A v \in Workers : work'[v] = IF v = w THEN Free ELSE work[v]
<1>1. \A v \in Workers : work'[v] = IF v = w THEN Free ELSE work[v]
  BY DEF End, NormalizerTypeOK
<1>2. work' \in [Workers -> Work]
  BY FreeIsWork DEF End, NormalizerTypeOK
<1>3. WorkHasPost'
  BY <1>1 DEF WorkHasPost, Working, Free
<1>4. QED BY <1>1, <1>2, <1>3

LEMMA FinishNormalizeStep ==
    ASSUME PipelineInv, NEW w \in Workers, FinishNormalize(w)
    PROVE  /\ StoreTypeOK' /\ UNCHANGED <<dedupe, queue, now>>
           /\ NormalizerTypeOK' /\ WorkHasPost'
<1> DEFINE p == work[w].post
<1>1. p \in Posts /\ work[w] \in Work /\ StoreTypeOK /\ NormalizerTypeOK
  BY WorkOf DEF FinishNormalize, PipelineInv, WorkHasPost, Working, ReservationInv, TypeOK
<1>2. UNCHANGED <<dedupe, queue, now, normQueue, drafted, dropped>>
  BY DEF FinishNormalize
<1>3. CASE ~Exists(p)
  <2>1. End(w) /\ UNCHANGED <<post, duplicates>>
    BY <1>3 DEF FinishNormalize
  <2>2. QED
    BY <1>1, <1>2, <2>1, EndStep DEF StoreTypeOK, NormalizerTypeOK, PipelineInv
<1>4. CASE Exists(p)
  <2> DEFINE duplicate == IsDuplicate(HashOf[p])
             r == [post[p] EXCEPT !.hash = HashOf[p],
                                  !.state = IF duplicate THEN "rejected" ELSE @]
  <2>1. /\ post' = [post EXCEPT ![p] = r]
        /\ duplicates' = IF duplicate THEN duplicates \cup {p} ELSE duplicates
        /\ IF duplicate THEN End(w) ELSE work' = [work EXCEPT ![w].pc = "routing"]
    BY <1>4 DEF FinishNormalize
  <2>2. r \in PostRow
    <3>1. post[p] \in PostRow /\ HashOf[p] \in Hashes
      BY <1>1, ContentAssumption DEF StoreTypeOK
    <3>2. QED BY <3>1 DEF PostRow, PostState
  <2>3. StoreTypeOK'
    <3> HIDE DEF r
    <3>1. QED BY <1>1, <1>2, <2>1, <2>2 DEF StoreTypeOK
  <2>4. work' \in [Workers -> Work] /\ WorkHasPost'
    <3>1. CASE duplicate
      BY <2>1, <3>1, EndStep, <1>1 DEF PipelineInv
    <3>2. CASE ~duplicate
      <4> DEFINE n == [work[w] EXCEPT !.pc = "routing"]
      <4>1. n \in Work /\ n.post = work[w].post
        BY <1>1 DEF Work
      <4>2. work' = [work EXCEPT ![w] = n]
        BY <2>1, <3>2
      <4> HIDE DEF n
      <4>3. work' \in [Workers -> Work]
        BY <1>1, <4>1, <4>2 DEF NormalizerTypeOK
      <4>4. \A v \in Workers : work'[v] = IF v = w THEN n ELSE work[v]
        BY <1>1, <4>2 DEF NormalizerTypeOK
      <4>5. WorkHasPost'
        BY <1>1, <4>1, <4>4 DEF PipelineInv, WorkHasPost, Working
      <4>6. QED BY <4>3, <4>5
    <3>3. QED BY <3>1, <3>2
  <2>5. NormalizerTypeOK'
    BY <1>1, <1>2, <2>1, <2>4 DEF NormalizerTypeOK
  <2>6. QED BY <1>2, <2>3, <2>4, <2>5
<1>5. QED BY <1>3, <1>4

LEMMA RouteStep ==
    ASSUME PipelineInv, NEW w \in Workers, Route(w)
    PROVE  /\ StoreTypeOK' /\ UNCHANGED <<dedupe, now>>
           /\ NormalizerTypeOK' /\ WorkHasPost'
<1>1. /\ work[w].post \in Posts
      /\ End(w) /\ UNCHANGED <<post, dedupe, now, normQueue, dropped, duplicates>>
  BY DEF Route, PipelineInv, WorkHasPost, Working
<1>2. drafted' \subseteq Posts
  BY <1>1 DEF Route, PipelineInv, NormalizerTypeOK
<1>3. queue' \in [Posts -> [Dues -> Nat]]
  <2>1. Enqueue(work[w].post, Never) \/ UNCHANGED queue
    BY DEF Route
  <2>2. QED
    BY <1>1, <2>1, EnqueueKeepsTypes DEF Dues, PipelineInv, ReservationInv, TypeOK, StoreTypeOK
<1>4. QED
  BY <1>1, <1>2, <1>3, EndStep
     DEF PipelineInv, ReservationInv, TypeOK, StoreTypeOK, NormalizerTypeOK

LEMMA NormalizeRaisesStep ==
    ASSUME PipelineInv, NEW w \in Workers, NormalizeRaises(w)
    PROVE  /\ UNCHANGED storeVars
           /\ NormalizerTypeOK' /\ WorkHasPost'
<1>1. /\ work[w].post \in Posts
      /\ End(w) /\ UNCHANGED <<storeVars, drafted, duplicates>>
  BY DEF NormalizeRaises, PipelineInv, WorkHasPost
<1>2. dropped' \subseteq Posts
  BY <1>1 DEF NormalizeRaises, PipelineInv, NormalizerTypeOK
<1>3. normQueue' \in [Posts -> 0 .. MaxNormalize]
  BY <1>1, AddNormalizeTypes DEF NormalizeRaises, PipelineInv, NormalizerTypeOK
<1>4. QED BY <1>1, <1>2, <1>3, EndStep DEF PipelineInv, NormalizerTypeOK

LEMMA OtherStep ==
    ASSUME PipelineInv, WorkerStops \/ ReconcilePending
    PROVE  /\ UNCHANGED storeVars
           /\ NormalizerTypeOK' /\ WorkHasPost'
<1>1. CASE WorkerStops
  <2> DEFINE inHand == {work[w].post : w \in {v \in Workers : ~Working(v, "idle")}}
  <2>1. inHand \in SUBSET Posts
    BY DEF PipelineInv, WorkHasPost
  <2>2. normQueue' \in [Posts -> 0 .. MaxNormalize]
    BY <1>1, <2>1, AddNormalizeTypes DEF WorkerStops, PipelineInv, NormalizerTypeOK
  <2>3. /\ work' = [w \in Workers |-> Free]
        /\ UNCHANGED <<storeVars, drafted, dropped, duplicates>>
    BY <1>1 DEF WorkerStops
  <2>4. QED
    BY <2>2, <2>3, FreeIsWork
       DEF PipelineInv, NormalizerTypeOK, WorkHasPost, Working, Free
<1>2. CASE ReconcilePending
  <2> DEFINE orphans == {p \in TextPosts : post[p].state = "pending"}
  <2>1. orphans \in SUBSET Posts
    BY NormalizeAssumption
  <2>2. normQueue' \in [Posts -> 0 .. MaxNormalize]
    BY <1>2, <2>1, AddNormalizeTypes DEF ReconcilePending, PipelineInv, NormalizerTypeOK
  <2>3. QED
    BY <1>2, <2>2
       DEF ReconcilePending, PipelineInv, NormalizerTypeOK, WorkHasPost, Working
<1>3. QED BY <1>1, <1>2

-----------------------------------------------------------------------------
(* The two together.                                                       *)

LEMMA NormalizerInvStep ==
    ASSUME PipelineInv, NormalizerNext, UNCHANGED <<publisherVars, deleting>>
    PROVE  PipelineInv'
<1>1. /\ StoreTypeOK' /\ UNCHANGED <<dedupe, now>>
      /\ NormalizerTypeOK' /\ WorkHasPost'
  <2>1. ASSUME UNCHANGED storeVars PROVE StoreTypeOK' /\ UNCHANGED <<dedupe, now>>
    BY <2>1 DEF storeVars, PipelineInv, ReservationInv, TypeOK, StoreTypeOK
  <2>2. QED
    BY <2>1, StartNormalizeStep, FinishNormalizeStep, RouteStep, NormalizeRaisesStep, OtherStep
       DEF NormalizerNext, NormalizeStep
<1>2. job' = job /\ acked' = acked /\ sends' = sends /\ deleting' = deleting
  BY DEF publisherVars
<1>3. TypeOK'
  BY <1>1, <1>2
     DEF PipelineInv, ReservationInv, TypeOK, PublisherTypeOK, JobTypeOK, DecisionsTypeOK
<1>4. JobsAreRecent'
  BY <1>1, <1>2 DEF PipelineInv, ReservationInv, JobsAreRecent, Busy
<1>5. ReservationInv'
  BY <1>1, <1>2, <1>3, <1>4, QuietStep DEF PipelineInv, Holds, At
<1>6. QED BY <1>1, <1>5 DEF PipelineInv

LEMMA PublishingInvStep == ASSUME PipelineInv, PublishingStep PROVE PipelineInv'
<1>1. ReservationInv'
  BY NextReservation DEF PipelineInv, PublishingStep
<1>2. MarkedDuplicate \subseteq Posts
  <2>1. ASSUME NEW s \in Slots, At(s, "duplicate") PROVE job[s].post \in Posts
    BY <2>1, BusyJob DEF At, Busy, PipelineInv, ReservationInv, TypeOK, PublisherTypeOK
  <2>2. QED BY <2>1 DEF MarkedDuplicate
<1>3. UNCHANGED normalizerVars /\ duplicates' = duplicates \cup MarkedDuplicate
  BY DEF PublishingStep
<1>4. QED
  BY <1>1, <1>2, <1>3
     DEF PipelineInv, normalizerVars, NormalizerTypeOK, WorkHasPost, Working

LEMMA NextPipelineInv == PipelineInv /\ [PipelineNext]_pipelineVars => PipelineInv'
<1> SUFFICES ASSUME PipelineInv, [PipelineNext]_pipelineVars PROVE PipelineInv'
  OBVIOUS
<1>1. CASE PublishingStep
  BY <1>1, PublishingInvStep
<1>2. CASE NormalizerNext /\ UNCHANGED <<publisherVars, deleting>>
  BY <1>2, NormalizerInvStep
<1>3. CASE UNCHANGED pipelineVars
  <2>1. ReservationInv'
    BY <1>3, NextReservation DEF pipelineVars, PipelineInv
  <2>2. QED
    BY <1>3, <2>1
       DEF pipelineVars, normalizerVars, PipelineInv, NormalizerTypeOK, WorkHasPost, Working
<1>4. QED BY <1>1, <1>2, <1>3 DEF PipelineNext

LEMMA PipelineInvariant == PipelineSpec => []PipelineInv
<1>1. QED BY InitPipelineInv, NextPipelineInv, PTL DEF PipelineSpec

ClearedTypeOK == cleared \in [Posts \ AutoPosts -> {Never, NotYet} \cup Times]

LEMMA ClearedTypes ==
    ASSUME PipelineInv', ClearedTypeOK, [PipelineNext]_pipelineVars PROVE ClearedTypeOK'
<1>1. CASE PublishingStep
  <2>1. post' \in [Posts -> PostRow]
    BY DEF PipelineInv, ReservationInv, TypeOK, StoreTypeOK
  <2>2. \A p \in Posts \ AutoPosts : LetOut(p)' \in {Never, NotYet} \cup Times
    BY <2>1 DEF LetOut, PostRow
  <2>3. QED BY <1>1, <2>2 DEF PublishingStep, ClearedTypeOK
<1>2. CASE UNCHANGED cleared
  BY <1>2 DEF ClearedTypeOK
<1>3. QED BY <1>1, <1>2 DEF PipelineNext, pipelineVars

(* Every variable of the composition stays within its type.                *)
THEOREM PipelineTypes == PipelineSpec => []PipelineTypeOK
<1>1. PipelineInit => ClearedTypeOK
  BY DEF PipelineInit, ClearedTypeOK
<1>2. PipelineInv /\ ClearedTypeOK /\ [PipelineNext]_pipelineVars => ClearedTypeOK'
  BY NextPipelineInv, ClearedTypes
<1>3. PipelineInv /\ ClearedTypeOK => PipelineTypeOK
  BY DEF PipelineInv, ReservationInv, PipelineTypeOK, ClearedTypeOK
<1>4. QED BY <1>1, <1>2, <1>3, PipelineInvariant, PTL DEF PipelineSpec

(* Content that Telegram has acknowledged is not sent again within the      *)
(* lookback window, though normalize gives posts their hashes and rejects   *)
(* duplicates while publish jobs are under way (_is_duplicate,              *)
(* _reserve_dedupe).                                                        *)
THEOREM PipelineNoRepeat == PipelineSpec => []NoRepeatInWindow
<1>1. PipelineInv => NoRepeatInWindow
  BY DEF PipelineInv, ReservationInv, HoldersAreOutOfWindow, NoRepeatInWindow, At
<1>2. QED BY <1>1, PipelineInvariant, PTL

-----------------------------------------------------------------------------
(* No post is forgotten on its way from ingestion to a publish job or a    *)
(* draft card, however often the worker and the bot stop and Telegram or   *)
(* Redis fails.                                                            *)

Calm == Faults \cap {"timeout", "db"} = {}

\* What normalize leaves for a post of an auto channel.
PublishOwed(p) == queue[p][Never] > 0 \/ \E s \in Slots : job[s].post = p

(* A pending post is in no job beyond its start, and was never recorded.   *)
PendingIsUntouched ==
    /\ \A p \in Posts : post[p].state = "pending" => ~post[p].hasMessage
    /\ \A s \in Slots : job[s].pc \notin {"idle", "loaded"}
                            => post[job[s].post].state # "pending"

(* What a step of publishing may do to pending posts: nothing.             *)
PendingKept ==
    /\ PendingIsUntouched'
    /\ \A p \in Posts : post'[p].state = "pending" =>
           /\ post[p].state = "pending"
           /\ PublishOwed(p) => PublishOwed(p)'

(* A step that touches no job and takes none off the queue, and changes     *)
(* rows by settling them only.                                              *)
LEMMA RowsSettled ==
    ASSUME PendingIsUntouched, TypeOK, job' = job,
           \A p \in Posts : post'[p] = post[p] \/ post'[p].state # "pending",
           \A p \in Posts : queue[p][Never] > 0 => queue'[p][Never] > 0
    PROVE  PendingKept
<1>1. \A s \in Slots : job[s].pc # "idle" => job[s].post \in Posts
  BY BusyJob DEF TypeOK, PublisherTypeOK, Busy
<1>2. PendingIsUntouched'
  BY <1>1 DEF PendingIsUntouched
<1>3. QED BY <1>2 DEF PendingKept, PublishOwed

LEMMA JobStepKeepsPending ==
    ASSUME PendingIsUntouched, TypeOK, NEW s \in Slots, JobStep(s)
    PROVE  PendingKept
<1> DEFINE mine == job[s].post
<1>1. /\ JobTypeOK /\ post \in [Posts -> PostRow]
      /\ queue \in [Posts -> [Dues -> Nat]] /\ Never \in Dues
  BY TimesAreNat DEF TypeOK, StoreTypeOK, PublisherTypeOK
<1>2. mine \in Posts
  BY <1>1, BusyJob
     DEF JobStep, Claim, ChannelMissing, CheckDedupe, Reserve, MarkDuplicate,
         AcquireSendLock, SendSucceeds, SendRaises, Release, MarkPublished,
         EditDraftCard, RecordFailure, InSend, Busy, At
<1>3. Goto(s, job'[s].pc) \/ Finish(s)
  <2>1. \A pc : Goto(s, pc) => Goto(s, job'[s].pc)
    BY <1>1 DEF Goto, JobTypeOK, Job
  <2>2. QED
    BY <2>1
       DEF JobStep, Claim, ChannelMissing, CheckDedupe, Reserve, MarkDuplicate,
           AcquireSendLock, SendSucceeds, SendRaises, Release, MarkPublished,
           EditDraftCard, RecordFailure
<1>4. /\ \A t \in Slots \ {s} : job'[t] = job[t]
      /\ job'[s].pc = "idle" \/ job'[s].post = mine
  BY <1>1, <1>3 DEF Goto, Finish, JobTypeOK, Job, IdleJob
<1>5. /\ \A p \in Posts \ {mine} : post'[p] = post[p]
      /\ post'[mine].state # "pending"
  <2>1. CASE Claim(s)
    BY <1>1, <1>2, <2>1 DEF Claim, SetState, Exists, PostRow
  <2>2. CASE MarkDuplicate(s) \/ RecordFailure(s)
    <3>1. post[mine].state # "pending"
      BY <1>2, <2>2 DEF MarkDuplicate, RecordFailure, At, PendingIsUntouched
    <3>2. QED BY <1>1, <1>2, <2>2, <3>1 DEF MarkDuplicate, RecordFailure, SetState, PostRow
  <2>3. CASE MarkPublished(s)
    <3>1. post[mine].state # "pending"
      BY <1>2, <2>3 DEF MarkPublished, At, PendingIsUntouched
    <3>2. QED BY <1>1, <1>2, <2>3, <3>1 DEF MarkPublished, PostRow
  <2>4. CASE \/ ChannelMissing(s) \/ CheckDedupe(s) \/ Reserve(s) \/ AcquireSendLock(s)
             \/ SendSucceeds(s) \/ SendRaises(s) \/ Release(s) \/ EditDraftCard(s)
    <3>1. post' = post /\ job[s].pc \notin {"idle", "loaded"}
      BY <2>4 DEF ChannelMissing, CheckDedupe, Reserve, AcquireSendLock, SendSucceeds,
                  SendRaises, Release, EditDraftCard, InSend, At, storeVars
    <3>2. QED BY <3>1 DEF PendingIsUntouched
  <2>5. QED BY <2>1, <2>2, <2>3, <2>4 DEF JobStep
<1>6. \A p \in Posts : queue[p][Never] > 0 => queue'[p][Never] > 0
  BY <1>1, <1>2, MayRunAgainGrows
     DEF JobStep, Claim, ChannelMissing, CheckDedupe, Reserve, MarkDuplicate,
         AcquireSendLock, SendSucceeds, SendRaises, Release, MarkPublished,
         EditDraftCard, RecordFailure, storeVars
<1>7. \A t \in Slots : job[t].pc # "idle" => job[t].post \in Posts
  BY <1>1, BusyJob DEF Busy
<1>8. PendingIsUntouched'
  <2>1. \A p \in Posts : post'[p].state = "pending" => ~post'[p].hasMessage
    BY <1>5 DEF PendingIsUntouched
  <2>2. ASSUME NEW t \in Slots, job'[t].pc \notin {"idle", "loaded"}
        PROVE  post'[job'[t].post].state # "pending"
    BY <1>4, <1>5, <1>7, <2>2 DEF PendingIsUntouched
  <2>3. QED BY <2>1, <2>2 DEF PendingIsUntouched
<1>9. QED BY <1>4, <1>5, <1>6, <1>8 DEF PendingKept, PublishOwed

LEMMA StartJobKeepsPending ==
    ASSUME PendingIsUntouched, TypeOK, NEW s \in Slots, NEW q \in Posts, StartJob(s, q)
    PROVE  PendingKept
<1>1. /\ JobTypeOK /\ queue \in [Posts -> [Dues -> Nat]] /\ Never \in Dues
      /\ NoPost \notin Posts
  BY TimesAreNat, NoPostAssumption DEF TypeOK, StoreTypeOK, PublisherTypeOK
<1>2. PICK d \in Dues : Skip(s, q, d) \/ Load(s, q, d)
  BY DEF StartJob
<1>3. /\ post' = post /\ At(s, "idle") /\ queue' = [queue EXCEPT ![q][d] = @ - 1]
      /\ \A t \in Slots \ {s} : job'[t] = job[t]
  BY <1>1, <1>2 DEF Skip, Load, Dequeue, publisherVars, JobTypeOK
<1>4. job[s].post = NoPost
  BY <1>1, <1>3 DEF JobTypeOK, At
<1>5. \/ Skips(q) /\ job' = job
      \/ job'[s].pc = "loaded" /\ job'[s].post = q
  BY <1>1, <1>2 DEF Skip, Load, publisherVars, JobTypeOK
<1>6. PendingIsUntouched'
  BY <1>3, <1>5 DEF PendingIsUntouched
<1>7. ASSUME NEW p \in Posts, post[p].state = "pending", PublishOwed(p)
      PROVE  PublishOwed(p)'
  <2>1. CASE p = q
    <3>1. ~Skips(q)
      BY <1>7, <2>1 DEF Skips, SkipStates, Exists, PendingIsUntouched
    <3>2. QED BY <1>5, <2>1, <3>1 DEF PublishOwed
  <2>2. CASE p # q
    <3>1. queue'[p] = queue[p]
      BY <1>1, <1>3, <2>2
    <3>2. QED BY <1>1, <1>3, <1>4, <1>7, <3>1 DEF PublishOwed
  <2>3. QED BY <2>1, <2>2
<1>8. QED BY <1>3, <1>6, <1>7 DEF PendingKept

LEMMA CrashKeepsPending ==
    ASSUME PendingIsUntouched, TypeOK, BotCrashes
    PROVE  PendingKept
<1>1. queue \in [Posts -> [Dues -> Nat]] /\ Never \in Dues
  BY TimesAreNat DEF TypeOK, StoreTypeOK
<1>2. PendingIsUntouched'
  BY DEF BotCrashes, PendingIsUntouched, IdleJob
<1>3. ASSUME NEW p \in Posts, PublishOwed(p) PROVE PublishOwed(p)'
  <2> DEFINE mine == {s \in Slots : job[s].post = p}
  <2>1. IsFiniteSet(mine) /\ Cardinality(mine) \in Nat
    BY SlotsAssumption, FS_Subset, JobsOfPost
  <2>2. queue'[p][Never] = queue[p][Never] + Cardinality(mine)
    BY <1>1 DEF BotCrashes
  <2>3. queue[p][Never] \in Nat
    BY <1>1
  <2>4. CASE queue[p][Never] > 0
    BY <2>1, <2>2, <2>3, <2>4 DEF PublishOwed
  <2>5. CASE \E s \in Slots : job[s].post = p
    <3>1. Cardinality(mine) # 0
      BY <2>1, <2>5, FS_EmptySet
    <3>2. QED BY <2>1, <2>2, <2>3, <3>1 DEF PublishOwed
  <2>6. QED BY <1>3, <2>4, <2>5 DEF PublishOwed
<1>4. QED BY <1>2, <1>3 DEF PendingKept, BotCrashes

LEMMA DecisionsKeepPending ==
    ASSUME PendingIsUntouched, TypeOK, DecisionsNext, UNCHANGED publisherVars
    PROVE  PendingKept
<1>1. /\ post \in [Posts -> PostRow] /\ queue \in [Posts -> [Dues -> Nat]] /\ job' = job
      /\ Never \in Dues /\ DueTimes \subseteq Dues
  BY TimesAreNat DEF TypeOK, StoreTypeOK, publisherVars
<1>2. ASSUME NEW q \in Posts, Decide(q) PROVE PendingKept
  <2>1. \A p \in Posts : post'[p] = post[p] \/ post'[p].state # "pending"
    BY <1>1, <1>2 DEF Decide, Approve, Schedule, Reject, CbApprove, CbReject, PostRow
  <2>2. UNCHANGED queue \/ \E d \in Dues : Enqueue(q, d)
    BY <1>1, <1>2
       DEF Decide, Approve, Schedule, Reject, CbApprove, CbReject, EnqueueAfterCommit
  <2>3. \A p \in Posts : queue[p][Never] > 0 => queue'[p][Never] > 0
    BY <1>1, <2>2, EnqueueGrows
  <2>4. QED BY <1>1, <2>1, <2>3, RowsSettled
<1>3. ASSUME NEW c \in Channels, CheckChannelDeletable(c) \/ DeleteChannel(c)
      PROVE  PendingKept
  <2>1. /\ \A p \in Posts : post'[p] = post[p] \/ post'[p].state # "pending"
        /\ queue' = queue
    BY <1>1, <1>3 DEF CheckChannelDeletable, DeleteChannel, storeVars, NoRow
  <2>2. QED BY <1>1, <2>1, RowsSettled
<1>4. QED BY <1>2, <1>3 DEF DecisionsNext

LEMMA PublishingKeepsPending ==
    ASSUME PendingIsUntouched, TypeOK, Calm, [Next]_vars
    PROVE  PendingKept
<1>1. CASE PublisherNext
  <2>1. ASSUME NEW s \in Slots, StatementRaises(s) \/ JobTimesOut(s) PROVE FALSE
    BY <2>1 DEF StatementRaises, JobTimesOut, Calm
  <2>2. QED
    BY <1>1, <2>1, JobStepKeepsPending, StartJobKeepsPending, CrashKeepsPending
       DEF PublisherNext
<1>2. CASE DecisionsNext /\ UNCHANGED publisherVars
  BY <1>2, DecisionsKeepPending
<1>3. CASE HousekeepingNext /\ UNCHANGED <<publisherVars, deleting>>
  <2>1. post' = post /\ job' = job
    BY <1>3 DEF HousekeepingNext, ReconcileScheduled, PruneDedupe, publisherVars
  <2>2. queue \in [Posts -> [Dues -> Nat]] /\ Never \in Dues
    BY TimesAreNat DEF TypeOK, StoreTypeOK
  <2>3. \A p \in Posts : queue[p][Never] > 0 => queue'[p][Never] > 0
    BY <1>3, <2>2 DEF HousekeepingNext, ReconcileScheduled, PruneDedupe
  <2>4. QED BY <2>1, <2>3, RowsSettled
<1>4. CASE Tick \/ UNCHANGED vars
  <2>1. post' = post /\ job' = job /\ queue' = queue
    BY <1>4 DEF Tick, vars, storeVars, publisherVars
  <2>2. QED BY <2>1, RowsSettled
<1>5. QED BY <1>1, <1>2, <1>3, <1>4 DEF Next

-----------------------------------------------------------------------------
(* The normalizer's side.                                                  *)

\* p waits for normalize, or is in its hands.
NormalizeOwed(p) == \/ normQueue[p] > 0
                    \/ \E w \in Workers : ~Working(w, "idle") /\ work[w].post = p

\* What normalize has left behind for p.
Routed(p) == IF p \in AutoPosts THEN PublishOwed(p) ELSE p \in drafted

(* A normalizer step leaves the rows pending that were, and settles what it *)
(* owed to a post before it lets go of it.                                  *)
NormalizeKept ==
    \A p \in Posts \ dropped' : post'[p].state = "pending" /\ (NormalizeOwed(p) \/ Routed(p)) =>
        /\ post[p].state = "pending"
        /\ NormalizeOwed(p)' \/ Routed(p)'

(* What a slot w that lets go of its post has to leave for it.             *)
LEMMA EndOwes ==
    ASSUME NormalizerTypeOK, WorkHasPost, NEW w \in Workers, End(w), NEW p \in Posts,
           NormalizeOwed(p), normQueue[p] > 0 => normQueue'[p] > 0
    PROVE  NormalizeOwed(p)' \/ (work[w].post = p /\ ~Working(w, "idle"))
  BY EndStep DEF NormalizeOwed, Working

(* What the end of a normalize job does to the rows.                       *)
LEMMA FinishPost ==
    ASSUME PipelineInv, NEW w \in Workers, FinishNormalize(w)
    PROVE  /\ work[w].post \in Posts
           /\ \A p \in Posts \ {work[w].post} : post'[p] = post[p]
           /\ post'[work[w].post].hasMessage = post[work[w].post].hasMessage
           /\ \/ End(w) /\ post'[work[w].post].state \in {"absent", "rejected"}
              \/ /\ work' = [work EXCEPT ![w].pc = "routing"]
                 /\ post'[work[w].post].state = post[work[w].post].state
<1> DEFINE mine == work[w].post
           duplicate == IsDuplicate(HashOf[mine])
           r == [post[mine] EXCEPT !.hash = HashOf[mine],
                                   !.state = IF duplicate THEN "rejected" ELSE @]
<1>1. mine \in Posts /\ post \in [Posts -> PostRow]
  BY DEF FinishNormalize, PipelineInv, WorkHasPost, Working, ReservationInv, TypeOK, StoreTypeOK
<1>2. CASE ~Exists(mine)
  BY <1>1, <1>2 DEF FinishNormalize, Exists
<1>3. CASE Exists(mine)
  <2>1. /\ post' = [post EXCEPT ![mine] = r]
        /\ IF duplicate THEN End(w) ELSE work' = [work EXCEPT ![w].pc = "routing"]
    BY <1>3 DEF FinishNormalize
  <2>2. post[mine] \in PostRow
    BY <1>1
  <2>3. /\ r.hasMessage = post[mine].hasMessage
        /\ r.state = IF duplicate THEN "rejected" ELSE post[mine].state
    BY <2>2 DEF PostRow
  <2> HIDE DEF r
  <2>4. post'[mine] = r /\ \A p \in Posts \ {mine} : post'[p] = post[p]
    BY <1>1, <2>1
  <2>5. QED BY <1>1, <2>1, <2>3, <2>4
<1>4. QED BY <1>2, <1>3

LEMMA NormalizeStepKeeps ==
    ASSUME PipelineInv, NEW w \in Workers, NormalizeStep(w), UNCHANGED publisherVars
    PROVE  NormalizeKept
<1>1. /\ normQueue \in [Posts -> 0 .. MaxNormalize] /\ work \in [Workers -> Work]
      /\ post \in [Posts -> PostRow] /\ queue \in [Posts -> [Dues -> Nat]] /\ Never \in Dues
      /\ job' = job
  BY TimesAreNat DEF PipelineInv, NormalizerTypeOK, ReservationInv, TypeOK, StoreTypeOK,
                     publisherVars
<1>2. ASSUME NEW q \in Posts, SkipNormalize(w, q) \/ StartNormalize(w, q) PROVE NormalizeKept
  <2>1. /\ TakeNormalize(w, q) /\ post' = post /\ queue' = queue /\ drafted' = drafted
    BY <1>2 DEF SkipNormalize, StartNormalize, TakeNormalize, storeVars
  <2>2. \A p \in Posts : Routed(p)' = Routed(p)
    BY <1>1, <2>1 DEF Routed, PublishOwed
  <2>3. \A p \in Posts \ {q} : normQueue'[p] = normQueue[p]
    BY <1>1, <2>1 DEF TakeNormalize
  <2>4. /\ \A v \in Workers \ {w} : work'[v] = work[v]
        /\ work[w].pc = "idle"
    BY <1>1, <1>2, <2>1 DEF SkipNormalize, StartNormalize, TakeNormalize, Working
  <2>5. ASSUME NEW p \in Posts, post[p].state = "pending", NormalizeOwed(p)
        PROVE  NormalizeOwed(p)'
    <3>1. CASE p = q
      <4>1. StartNormalize(w, q)
        BY <1>2, <2>5, <3>1 DEF SkipNormalize
      <4>2. work'[w].pc = "started" /\ work'[w].post = p
        BY <1>1, <3>1, <4>1 DEF StartNormalize
      <4>3. QED BY <4>2 DEF NormalizeOwed, Working
    <3>2. CASE p # q
      BY <2>3, <2>4, <2>5, <3>2 DEF NormalizeOwed, Working
    <3>3. QED BY <3>1, <3>2
  <2>6. QED BY <2>1, <2>2, <2>5 DEF NormalizeKept
<1>3. CASE FinishNormalize(w)
  <2> DEFINE mine == work[w].post
  <2>1. normQueue' = normQueue /\ queue' = queue /\ drafted' = drafted
    BY <1>3 DEF FinishNormalize
  <2>2. \A p \in Posts : Routed(p)' = Routed(p)
    BY <1>1, <2>1 DEF Routed, PublishOwed
  <2>3. CASE End(w) /\ post'[mine].state \in {"absent", "rejected"}
    <3>1. ASSUME NEW p \in Posts, post'[p].state = "pending" PROVE p # mine /\ post'[p] = post[p]
      BY <1>3, <2>3, <3>1, FinishPost
    <3>2. ASSUME NEW p \in Posts, p # mine, NormalizeOwed(p) PROVE NormalizeOwed(p)'
      <4>1. NormalizeOwed(p)' \/ (work[w].post = p /\ ~Working(w, "idle"))
        BY <2>1, <2>3, <3>2, EndOwes DEF PipelineInv
      <4>2. QED BY <3>2, <4>1
    <3> HIDE DEF mine
    <3>3. QED BY <2>2, <3>1, <3>2 DEF NormalizeKept
  <2>4. CASE /\ work' = [work EXCEPT ![w].pc = "routing"]
             /\ post'[mine].state = post[mine].state
    <3>1. \A p \in Posts : post'[p].state = "pending" => post[p].state = "pending"
      BY <1>3, <2>4, FinishPost
    <3>2. /\ \A v \in Workers \ {w} : work'[v] = work[v]
          /\ work'[w].pc = "routing" /\ work'[w].post = mine
      BY <1>1, <2>4 DEF Work
    <3>3. \A p \in Posts : NormalizeOwed(p) => NormalizeOwed(p)'
      BY <2>1, <3>2 DEF NormalizeOwed, Working
    <3>4. QED BY <2>2, <3>1, <3>3 DEF NormalizeKept
  <2>5. QED BY <1>3, <2>3, <2>4, FinishPost
<1>4. CASE Route(w)
  <2>1. End(w) /\ post' = post /\ normQueue' = normQueue
    BY <1>4 DEF Route
  <2>2. PICK mine \in Posts : mine = work[w].post
    BY <1>4 DEF Route, PipelineInv, WorkHasPost, Working
  <2>3. /\ Enqueue(mine, Never) \/ UNCHANGED queue
        /\ mine \in AutoPosts => Enqueue(mine, Never)
        /\ drafted' = IF mine \in AutoPosts THEN drafted ELSE drafted \cup {mine}
    BY <1>4, <2>2 DEF Route
  <2>4. \A p \in Posts : Routed(p) => Routed(p)'
    BY <1>1, <2>3, EnqueueGrows DEF Routed, PublishOwed
  <2>5. Routed(mine)'
    BY <1>1, <2>3, EnqueueGrows DEF Routed, PublishOwed
  <2>6. ASSUME NEW p \in Posts, NormalizeOwed(p) PROVE NormalizeOwed(p)' \/ Routed(p)'
    BY <2>1, <2>2, <2>5, <2>6, EndOwes DEF PipelineInv
  <2>7. QED BY <2>1, <2>4, <2>6 DEF NormalizeKept
<1>5. QED BY <1>2, <1>3, <1>4 DEF NormalizeStep

LEMMA AddNormalizeGrows ==
    ASSUME normQueue \in [Posts -> 0 .. MaxNormalize], NEW ps \in SUBSET Posts,
           AddNormalize(ps), NEW p \in Posts
    PROVE  /\ normQueue[p] > 0 => normQueue'[p] > 0
           /\ p \in ps => normQueue'[p] > 0
<1>1. normQueue[p] \in Nat
  BY NormalizeAssumption
<1>2. normQueue'[p] = IF p \in ps THEN normQueue[p] + 1 ELSE normQueue[p]
  BY DEF AddNormalize
<1>3. QED BY <1>1, <1>2

LEMMA OtherStepKeeps ==
    ASSUME PipelineInv, UNCHANGED publisherVars,
           \/ \E w \in Workers : NormalizeRaises(w)
           \/ WorkerStops \/ ReconcilePending
    PROVE  NormalizeKept
<1>1. /\ normQueue \in [Posts -> 0 .. MaxNormalize] /\ NormalizerTypeOK /\ WorkHasPost
      /\ post' = post /\ queue' = queue /\ drafted' = drafted /\ job' = job
  BY DEF PipelineInv, NormalizerTypeOK, publisherVars, NormalizeRaises, WorkerStops,
         ReconcilePending, storeVars
<1>2. \A p \in Posts : Routed(p)' = Routed(p)
  BY <1>1 DEF Routed, PublishOwed
<1>3. ASSUME NEW w \in Workers, NormalizeRaises(w), NEW p \in Posts \ dropped', NormalizeOwed(p)
      PROVE  NormalizeOwed(p)'
  <2>1. End(w) /\ work[w].post \in Posts
    BY <1>1, <1>3 DEF NormalizeRaises, WorkHasPost
  <2>2. CASE AddNormalize({work[w].post})
    <3>1. /\ normQueue[p] > 0 => normQueue'[p] > 0
          /\ p = work[w].post => normQueue'[p] > 0
      BY <1>1, <2>1, <2>2, AddNormalizeGrows
    <3>2. QED BY <1>1, <1>3, <2>1, <3>1, EndOwes DEF NormalizeOwed
  <2>3. CASE dropped' = dropped \cup {work[w].post} /\ UNCHANGED normQueue
    BY <1>1, <1>3, <2>1, <2>3, EndOwes
  <2>4. QED BY <1>3, <2>2, <2>3 DEF NormalizeRaises
<1>4. ASSUME WorkerStops, NEW p \in Posts, NormalizeOwed(p) PROVE NormalizeOwed(p)'
  <2> DEFINE inHand == {work[w].post : w \in {v \in Workers : ~Working(v, "idle")}}
  <2>1. inHand \in SUBSET Posts /\ AddNormalize(inHand)
    BY <1>1, <1>4 DEF WorkHasPost, WorkerStops
  <2>2. normQueue[p] > 0 \/ p \in inHand
    BY <1>4 DEF NormalizeOwed
  <2> HIDE DEF inHand
  <2>3. QED BY <1>1, <2>1, <2>2, AddNormalizeGrows DEF NormalizeOwed
<1>5. ASSUME ReconcilePending, NEW p \in Posts, NormalizeOwed(p) PROVE NormalizeOwed(p)'
  <2> DEFINE orphans == {q \in TextPosts : post[q].state = "pending"}
  <2>1. orphans \in SUBSET Posts /\ AddNormalize(orphans) /\ work' = work
    BY <1>5, NormalizeAssumption DEF ReconcilePending
  <2> HIDE DEF orphans
  <2>2. QED BY <1>1, <1>5, <2>1, AddNormalizeGrows DEF NormalizeOwed, Working
<1>6. QED BY <1>1, <1>2, <1>3, <1>4, <1>5 DEF NormalizeKept

-----------------------------------------------------------------------------
(* The two together.                                                       *)

\* The posts whose next job cannot be lost.
Owed == {p \in Posts : p \in AutoPosts => Calm}

PendingInv == /\ Calm => PendingIsUntouched
              /\ \A p \in Owed \ dropped : post[p].state = "pending" =>
                     NormalizeOwed(p) \/ Routed(p)

LEMMA InitPendingInv == PipelineInit => PendingInv
<1> SUFFICES ASSUME PipelineInit PROVE PendingInv
  OBVIOUS
<1>1. PendingIsUntouched
  BY DEF PipelineInit, Init, PublisherInit, IdleJob, PendingIsUntouched
<1>2. \A p \in Posts : NormalizeOwed(p)
  BY DEF PipelineInit, NormalizerInit, NormalizeOwed
<1>3. QED BY <1>1, <1>2 DEF PendingInv, Owed

(* The normalizer makes no row pending and records no message.             *)
LEMMA NormalizerRows ==
    ASSUME PipelineInv, NormalizerNext, NEW p \in Posts, post'[p].state = "pending"
    PROVE  post[p].state = "pending" /\ post'[p].hasMessage = post[p].hasMessage
<1>1. CASE UNCHANGED post
  BY <1>1
<1>2. ASSUME NEW w \in Workers, FinishNormalize(w)
      PROVE  post[p].state = "pending" /\ post'[p].hasMessage = post[p].hasMessage
  <2>1. CASE p = work[w].post
    BY <1>2, <2>1, FinishPost
  <2>2. CASE p # work[w].post
    BY <1>2, <2>2, FinishPost
  <2>3. QED BY <2>1, <2>2
<1>3. QED
  BY <1>1, <1>2
     DEF NormalizerNext, NormalizeStep, SkipNormalize, StartNormalize, TakeNormalize, Route,
         NormalizeRaises, WorkerStops, ReconcilePending, storeVars

LEMMA NormalizerKeepsUntouched ==
    ASSUME PipelineInv, PendingIsUntouched, NormalizerNext, UNCHANGED publisherVars
    PROVE  PendingIsUntouched'
<1>1. /\ job' = job
      /\ \A s \in Slots : job[s].pc # "idle" => job[s].post \in Posts
  BY BusyJob
     DEF PipelineInv, ReservationInv, TypeOK, PublisherTypeOK, publisherVars, Busy
<1>2. QED BY <1>1, NormalizerRows DEF PendingIsUntouched

(* No step of publishing makes a row pending, whatever fails.              *)
LEMMA PublishingRows ==
    ASSUME TypeOK, [Next]_vars, NEW p \in Posts, post'[p].state = "pending"
    PROVE  post[p].state = "pending"
<1>1. post \in [Posts -> PostRow]
  BY DEF TypeOK, StoreTypeOK
<1>2. CASE UNCHANGED post
  BY <1>2
<1>3. ASSUME NEW s \in Slots, JobStep(s) PROVE post[p].state = "pending"
  BY <1>1, <1>3
     DEF JobStep, Claim, ChannelMissing, CheckDedupe, Reserve, MarkDuplicate, AcquireSendLock,
         SendSucceeds, SendRaises, Release, MarkPublished, EditDraftCard, RecordFailure,
         SetState, storeVars, PostRow
<1>4. ASSUME NEW q \in Posts, Decide(q) PROVE post[p].state = "pending"
  BY <1>1, <1>4 DEF Decide, Approve, Schedule, Reject, CbApprove, CbReject, PostRow
<1>5. ASSUME NEW c \in Channels, DeleteChannel(c) PROVE post[p].state = "pending"
  BY <1>1, <1>5 DEF DeleteChannel, NoRow
<1>6. QED
  BY <1>2, <1>3, <1>4, <1>5
     DEF Next, PublisherNext, StartJob, Skip, Load, StatementRaises, JobTimesOut, BotCrashes,
         DecisionsNext, CheckChannelDeletable, HousekeepingNext, ReconcileScheduled, PruneDedupe,
         Tick, vars, storeVars

LEMMA NextPendingInv ==
    ASSUME PipelineInv, PendingInv, [PipelineNext]_pipelineVars
    PROVE  PendingInv'
<1>1. ASSUME [Next]_vars, UNCHANGED normalizerVars PROVE PendingInv'
  <2>1. Calm => PendingKept
    BY <1>1, PublishingKeepsPending DEF PipelineInv, ReservationInv, PendingInv
  <2>2. ASSUME NEW p \in Posts PROVE NormalizeOwed(p)' = NormalizeOwed(p)
    BY <1>1 DEF normalizerVars, NormalizeOwed, Working
  <2>3. ASSUME NEW p \in Posts, post'[p].state = "pending" PROVE post[p].state = "pending"
    BY <1>1, <2>3, PublishingRows DEF PipelineInv, ReservationInv
  <2>4. ASSUME NEW p \in Owed, post'[p].state = "pending", Routed(p) PROVE Routed(p)'
    <3>1. CASE p \in AutoPosts
      BY <2>1, <2>4, <3>1 DEF Owed, Routed, PendingKept
    <3>2. CASE p \notin AutoPosts
      BY <1>1, <2>4, <3>2 DEF normalizerVars, Routed
    <3>3. QED BY <3>1, <3>2
  <2>5. dropped' = dropped /\ (Calm => PendingIsUntouched')
    BY <1>1, <2>1 DEF normalizerVars, PendingKept
  <2>6. QED BY <2>2, <2>3, <2>4, <2>5 DEF PendingInv, Owed, Calm
<1>2. ASSUME NormalizerNext, UNCHANGED publisherVars PROVE PendingInv'
  <2>1. NormalizeKept
    BY <1>2, NormalizeStepKeeps, OtherStepKeeps DEF NormalizerNext
  <2>2. dropped \subseteq dropped'
    BY <1>2
       DEF NormalizerNext, NormalizeStep, SkipNormalize, StartNormalize, TakeNormalize,
           FinishNormalize, Route, NormalizeRaises, WorkerStops, ReconcilePending
  <2>3. \A p \in Posts : post'[p].state = "pending" => post[p].state = "pending"
    BY <1>2, NormalizerRows
  <2>4. Calm => PendingIsUntouched'
    BY <1>2, NormalizerKeepsUntouched DEF PendingInv
  <2>5. QED BY <2>1, <2>2, <2>3, <2>4 DEF PendingInv, NormalizeKept, Owed, Calm
<1>3. CASE UNCHANGED pipelineVars
  BY <1>1, <1>3 DEF pipelineVars
<1>4. QED BY <1>1, <1>2, <1>3 DEF PipelineNext, PublishingStep

(* Unless its normalize job raised and was dropped, a pending post is       *)
(* queued for normalize or in its hands, or has its publish job or its      *)
(* draft card, however often the bot and the worker stop, whatever Telegram *)
(* and Redis refuse and, where editors decide, whatever is cancelled or     *)
(* fails in the database (normalize, retry_jobs).                           *)
THEOREM NoPostIsForgotten == PipelineSpec => []PendingIsOnItsWay
<1>1. PendingInv => PendingIsOnItsWay
  BY DEF PendingInv, PendingIsOnItsWay, OnItsWay, NormalizeOwed, Routed, PublishOwed, Owed, Calm
<1>2. PipelineInv /\ PendingInv /\ [PipelineNext]_pipelineVars => PendingInv'
  BY NextPendingInv
<1>3. QED BY <1>1, <1>2, InitPendingInv, PipelineInvariant, PTL DEF PipelineSpec

-----------------------------------------------------------------------------
(* What is rejected as a duplicate is one.                                 *)

NothingFails == Faults \cap {"telegram", "crash", "timeout", "db"} = {}

\* Content that is in the channel, or in the hands of a job that takes it there.
Known(h) == acked[h] # Never \/ Held(h)

(* A post goes by the hash of its content from the time it has one.        *)
HashesAreOwn ==
    /\ \A p \in Posts : post[p].hash \in {NoHash, HashOf[p]}
    /\ \A s \in Slots : Busy(s) => job[s].hash \in {NoHash, HashOf[job[s].post]}

(* Where nothing fails no job gives its content up, a row of the dedupe    *)
(* table stands for known content, and so does a job that found one.       *)
KnownInv ==
    /\ HashesAreOwn
    /\ \A h \in Hashes : dedupe[h] # Never => Known(h)
    /\ \A s \in Slots :
           /\ ~At(s, "resending") /\ ~At(s, "releasing")
           /\ At(s, "checked") \/ At(s, "duplicate") => job[s].hash \in Hashes
           /\ At(s, "duplicate") => Known(job[s].hash)

(* What a step may do to a slot: it lets go of content that is out only.   *)
KeepsKnown(s) ==
    /\ job[s].pc \in Reserving =>
           (job'[s].pc \in Reserving /\ job'[s].hash = job[s].hash) \/ At(s, "sent")
    /\ job'[s].pc = "checked" => job'[s].hash \in Hashes
    /\ job'[s].pc = "duplicate" =>
           /\ job'[s].hash = job[s].hash /\ job[s].hash \in Hashes
           /\ At(s, "duplicate") \/ dedupe[job[s].hash] # Never
    /\ job'[s].pc \notin {"resending", "releasing"}
    /\ job'[s].pc # "idle" => job'[s].hash \in {NoHash, HashOf[job'[s].post]}

LEMMA KnownGoesOn ==
    ASSUME KnownInv, RowsAreHeld, SentIsAcked, \A s \in Slots : KeepsKnown(s),
           \A h \in Hashes : acked[h] # Never => acked'[h] # Never,
           \A h \in Hashes : dedupe'[h] # Never => dedupe[h] # Never \/ Held(h) \/ Held(h)',
           \A p \in Posts : post'[p].hash \in {NoHash, HashOf[p]}
    PROVE  KnownInv' /\ \A h \in Hashes : Known(h) => Known(h)'
<1>1. ASSUME NEW h \in Hashes, Known(h) PROVE Known(h)'
  <2>1. CASE acked[h] # Never
    BY <2>1 DEF Known
  <2>2. ASSUME NEW s \in Slots, Holds(s, h) PROVE Known(h)'
    <3>1. CASE At(s, "sent")
      BY <2>2, <3>1 DEF SentIsAcked, RowsAreHeld, Known
    <3>2. CASE ~At(s, "sent")
      BY <2>2, <3>2 DEF KeepsKnown, Holds, Known, Held
    <3>3. QED BY <3>1, <3>2
  <2>3. QED BY <1>1, <2>1, <2>2 DEF Known, Held
<1>2. HashesAreOwn'
  BY DEF HashesAreOwn, KeepsKnown, Busy
<1>3. ASSUME NEW h \in Hashes, dedupe'[h] # Never PROVE Known(h)'
  BY <1>1, <1>3 DEF KnownInv, Known
<1>4. ASSUME NEW s \in Slots, At(s, "duplicate")' PROVE Known(job[s].hash)'
  <2>1. /\ job'[s].hash = job[s].hash /\ job[s].hash \in Hashes
        /\ At(s, "duplicate") \/ dedupe[job[s].hash] # Never
    BY <1>4 DEF KeepsKnown, At
  <2>2. Known(job[s].hash)
    BY <2>1 DEF KnownInv
  <2>3. ASSUME NEW h \in Hashes, h = job[s].hash PROVE Known(h)'
    BY <1>1, <2>2, <2>3
  <2>4. PICK h \in Hashes : h = job[s].hash
    BY <2>1
  <2>5. Known(h)' /\ job'[s].hash = h
    BY <2>1, <2>3, <2>4
  <2>6. QED BY <2>5 DEF Known, Held, Holds
<1>5. \A s \in Slots : /\ ~At(s, "resending")' /\ ~At(s, "releasing")'
                       /\ At(s, "checked")' \/ At(s, "duplicate")' => job'[s].hash \in Hashes
  BY DEF KeepsKnown, At
<1>6. QED BY <1>1, <1>2, <1>3, <1>4, <1>5 DEF KnownInv

LEMMA UntouchedKeepsKnown ==
    ASSUME KnownInv, NEW s \in Slots, job'[s] = job[s]
    PROVE  KeepsKnown(s)
  BY DEF KnownInv, KeepsKnown, HashesAreOwn, Busy, At

LEMMA JobStepKeepsKnown ==
    ASSUME NothingFails, ReservationInv, SentIsAcked, KnownInv, NEW s \in Slots, JobStep(s)
    PROVE  KnownInv' /\ \A h \in Hashes : Known(h) => Known(h)'
<1>1. /\ JobTypeOK /\ post \in [Posts -> PostRow]
      /\ acked \in [Hashes -> Times \cup {Never}] /\ dedupe \in [Hashes -> Times \cup {Never}]
  BY DEF ReservationInv, TypeOK, StoreTypeOK, PublisherTypeOK
<1>2. /\ job[s].pc # "idle" /\ job[s].post \in Posts /\ job[s].hash \in Hashes \cup {NoHash}
      /\ job[s].pc \notin {"resending", "releasing"}
      /\ job[s].hash \in {NoHash, HashOf[job[s].post]}
  <2>1. Busy(s)
    BY DEF JobStep, Claim, ChannelMissing, CheckDedupe, Reserve, MarkDuplicate,
           AcquireSendLock, SendSucceeds, SendRaises, Release, MarkPublished,
           EditDraftCard, RecordFailure, InSend, Busy, At
  <2>2. QED BY <1>1, <2>1, BusyJob DEF KnownInv, HashesAreOwn, Busy, At
<1>3. ~SendRaises(s) /\ ~Release(s)
  BY DEF NothingFails, SendRaises, KnownInv, Release
<1>4. \A p \in Posts : post'[p].hash \in {NoHash, HashOf[p]}
  <2>1. ASSUME NEW st \in PostState, SetState(job[s].post, st), NEW p \in Posts
        PROVE  post'[p].hash = post[p].hash
    BY <1>1, <2>1 DEF SetState, PostRow
  <2>2. {"publishing", "rejected", "publish_failed"} \subseteq PostState
    BY DEF PostState
  <2>3. ASSUME MarkPublished(s), NEW p \in Posts PROVE post'[p].hash = post[p].hash
    BY <1>1, <2>3 DEF MarkPublished, PostRow
  <2>4. \A p \in Posts : post'[p].hash = post[p].hash
    BY <1>3, <2>1, <2>2, <2>3
       DEF JobStep, Claim, ChannelMissing, CheckDedupe, Reserve, MarkDuplicate,
           AcquireSendLock, SendSucceeds, EditDraftCard, RecordFailure, storeVars
  <2>5. QED BY <2>4 DEF KnownInv, HashesAreOwn
<1>5. ASSUME NEW pc, Goto(s, pc),
             job[s].pc \in Reserving => pc \in Reserving \/ At(s, "sent"),
             pc \in {"checked", "duplicate"} => job[s].hash \in Hashes,
             pc = "duplicate" => dedupe[job[s].hash] # Never,
             pc \notin {"resending", "releasing"}
      PROVE  \A t \in Slots : KeepsKnown(t)
  <2>1. /\ job'[s].pc = pc /\ job'[s].hash = job[s].hash /\ job'[s].post = job[s].post
        /\ \A t \in Slots \ {s} : job'[t] = job[t]
    BY <1>1, <1>5, GotoEffect
  <2>2. QED BY <1>2, <1>5, <2>1, UntouchedKeepsKnown DEF KeepsKnown
<1>6. ASSUME Finish(s), job[s].pc \notin Reserving PROVE \A t \in Slots : KeepsKnown(t)
  <2>1. job'[s] = IdleJob /\ \A t \in Slots \ {s} : job'[t] = job[t]
    BY <1>1, <1>6 DEF Finish, JobTypeOK
  <2>2. QED BY <1>6, <2>1, UntouchedKeepsKnown DEF KeepsKnown, IdleJob
<1>7. CASE Reserve(s)
  <2>1. job[s].hash \in Hashes /\ job[s].pc \notin Reserving
    BY <1>7 DEF Reserve, KnownInv, At, Reserving
  <2>2. \A t \in Slots : KeepsKnown(t)
    <3>1. CASE Goto(s, "waiting")
      BY <1>5, <2>1, <3>1 DEF Reserving
    <3>2. CASE Goto(s, "duplicate") /\ dedupe[job[s].hash] # Never
      BY <1>5, <2>1, <3>2
    <3>3. QED BY <1>7, <3>1, <3>2 DEF Reserve
  <2>3. ASSUME NEW h \in Hashes, dedupe'[h] # Never PROVE dedupe[h] # Never \/ Held(h)'
    <3>1. CASE h = job[s].hash /\ Goto(s, "waiting")
      <4>1. Holds(s, h)'
        BY <1>1, <3>1, GotoEffect DEF Holds, Reserving
      <4>2. QED BY <4>1 DEF Held
    <3>2. CASE h # job[s].hash \/ ~Goto(s, "waiting")
      BY <1>1, <1>7, <2>1, <2>3, <3>2 DEF Reserve
    <3>3. QED BY <3>1, <3>2
  <2>4. acked' = acked
    BY <1>7 DEF Reserve
  <2>5. QED BY <1>4, <2>2, <2>3, <2>4, KnownGoesOn DEF ReservationInv
<1>8. CASE SendSucceeds(s)
  <2>1. dedupe' = dedupe /\ \A t \in Slots : KeepsKnown(t)
    BY <1>5, <1>8 DEF SendSucceeds, storeVars, Reserving
  <2>2. ASSUME job[s].hash # NoHash PROVE dedupe[job[s].hash] # Never
    <3>1. Holds(s, job[s].hash) /\ job[s].hash \in Hashes
      BY <1>2, <1>8, <2>2 DEF SendSucceeds, InSend, Holds, Reserving
    <3>2. QED BY <3>1 DEF ReservationInv, RowsAreHeld
  <2>3. \A h \in Hashes : acked[h] # Never => acked'[h] # Never
    BY <1>1, <1>2, <1>8, <2>2 DEF SendSucceeds
  <2>4. QED BY <1>4, <2>1, <2>3, KnownGoesOn DEF ReservationInv
<1>9. CASE MarkPublished(s)
  <2>1. acked' = acked /\ \A t \in Slots : KeepsKnown(t)
    <3>1. PICK pc \in {"failing", "marked"} : Goto(s, pc)
      BY <1>9 DEF MarkPublished
    <3>2. At(s, "sent") /\ acked' = acked
      BY <1>9 DEF MarkPublished
    <3>3. QED BY <1>5, <3>1, <3>2
  <2>2. ASSUME NEW h \in Hashes, dedupe'[h] # Never PROVE dedupe[h] # Never \/ Held(h)
    <3>1. CASE h = job[s].hash
      BY <1>9, <3>1 DEF MarkPublished, Held, Holds, At, Reserving
    <3>2. CASE h # job[s].hash
      BY <1>1, <1>9, <2>2, <3>2 DEF MarkPublished
    <3>3. QED BY <3>1, <3>2
  <2>3. QED BY <1>4, <2>1, <2>2, KnownGoesOn DEF ReservationInv
<1>10. CASE \/ Claim(s) \/ ChannelMissing(s) \/ CheckDedupe(s) \/ MarkDuplicate(s)
            \/ AcquireSendLock(s) \/ EditDraftCard(s) \/ RecordFailure(s)
  <2>1. dedupe' = dedupe /\ acked' = acked
    BY <1>10 DEF Claim, ChannelMissing, CheckDedupe, MarkDuplicate, AcquireSendLock,
                 EditDraftCard, RecordFailure, storeVars
  <2>2. \A t \in Slots : KeepsKnown(t)
    <3>1. CASE \/ ChannelMissing(s) \/ MarkDuplicate(s) \/ EditDraftCard(s) \/ RecordFailure(s)
      BY <1>6, <3>1 DEF ChannelMissing, MarkDuplicate, EditDraftCard, RecordFailure, At, Reserving
    <3>2. CASE Claim(s) \/ AcquireSendLock(s)
      BY <1>5, <3>2 DEF Claim, AcquireSendLock, At, Reserving
    <3>3. CASE CheckDedupe(s)
      <4>1. job[s].pc \notin Reserving
        BY <3>3 DEF CheckDedupe, At, Reserving
      <4>2. CASE job[s].hash = NoHash /\ Goto(s, "waiting")
        BY <1>5, <4>1, <4>2
      <4>3. CASE job[s].hash # NoHash /\ dedupe[job[s].hash] = Never /\ Goto(s, "checked")
        BY <1>2, <1>5, <4>1, <4>3
      <4>4. CASE job[s].hash # NoHash /\ dedupe[job[s].hash] # Never /\ Goto(s, "duplicate")
        BY <1>2, <1>5, <4>1, <4>4
      <4>5. QED BY <3>3, <4>2, <4>3, <4>4 DEF CheckDedupe
    <3>4. QED BY <1>10, <3>1, <3>2, <3>3
  <2>3. QED BY <1>4, <2>1, <2>2, KnownGoesOn DEF ReservationInv
<1>11. QED BY <1>3, <1>7, <1>8, <1>9, <1>10 DEF JobStep

LEMMA StartJobKeepsKnown ==
    ASSUME ReservationInv, SentIsAcked, KnownInv, NEW s \in Slots, NEW q \in Posts, StartJob(s, q)
    PROVE  KnownInv' /\ \A h \in Hashes : Known(h) => Known(h)'
<1>1. JobTypeOK
  BY DEF ReservationInv, TypeOK, PublisherTypeOK
<1>2. PICK d \in Dues : Skip(s, q, d) \/ Load(s, q, d)
  BY DEF StartJob
<1>3. post' = post /\ dedupe' = dedupe /\ acked' = acked /\ job[s].pc = "idle"
  BY <1>2 DEF Skip, Load, Dequeue, At, publisherVars
<1>4. \A t \in Slots : KeepsKnown(t)
  <2>1. CASE Skip(s, q, d)
    BY <2>1, UntouchedKeepsKnown DEF Skip, publisherVars
  <2>2. CASE Load(s, q, d)
    <3>1. /\ job'[s].pc = "loaded" /\ job'[s].post = q /\ job'[s].hash = post[q].hash
          /\ \A t \in Slots \ {s} : job'[t] = job[t]
      BY <1>1, <2>2 DEF Load, JobTypeOK
    <3>2. KeepsKnown(s)
      BY <1>3, <3>1 DEF KeepsKnown, Reserving, KnownInv, HashesAreOwn
    <3>3. QED BY <3>1, <3>2, UntouchedKeepsKnown
  <2>3. QED BY <1>2, <2>1, <2>2
<1>5. QED BY <1>3, <1>4, KnownGoesOn DEF ReservationInv, KnownInv, HashesAreOwn

(* A step beside the jobs that leaves the rows their hashes.               *)
LEMMA BesideJobsKeepsKnown ==
    ASSUME ReservationInv, SentIsAcked, KnownInv, job' = job, acked' = acked,
           \A h \in Hashes : dedupe'[h] # Never => dedupe[h] # Never,
           \A p \in Posts : post'[p].hash \in {NoHash, HashOf[p]}
    PROVE  KnownInv' /\ \A h \in Hashes : Known(h) => Known(h)'
  BY UntouchedKeepsKnown, KnownGoesOn DEF ReservationInv

LEMMA PublishingKeepsKnown ==
    ASSUME NothingFails, ReservationInv, SentIsAcked, KnownInv, [Next]_vars
    PROVE  KnownInv' /\ \A h \in Hashes : Known(h) => Known(h)'
<1>1. post \in [Posts -> PostRow] /\ \A p \in Posts : post[p].hash \in {NoHash, HashOf[p]}
  BY DEF ReservationInv, TypeOK, StoreTypeOK, KnownInv, HashesAreOwn
<1>2. CASE PublisherNext
  <2>1. ~BotCrashes /\ \A s \in Slots : ~StatementRaises(s) /\ ~JobTimesOut(s)
    BY DEF NothingFails, BotCrashes, StatementRaises, JobTimesOut
  <2>2. QED BY <1>2, <2>1, JobStepKeepsKnown, StartJobKeepsKnown DEF PublisherNext
<1>3. CASE DecisionsNext /\ UNCHANGED publisherVars
  <2>1. dedupe' = dedupe /\ job' = job /\ acked' = acked
    BY <1>3 DEF DecisionsNext, Decide, Approve, Reject, CbApprove, CbReject, Schedule,
                CheckChannelDeletable, DeleteChannel, storeVars, publisherVars
  <2>2. ASSUME NEW q \in Posts, Decide(q), NEW p \in Posts PROVE post'[p].hash = post[p].hash
    BY <1>1, <2>2 DEF Decide, Approve, Reject, CbApprove, CbReject, Schedule, PostRow
  <2>3. ASSUME NEW c \in Channels, CheckChannelDeletable(c) \/ DeleteChannel(c), NEW p \in Posts
        PROVE  post'[p].hash \in {NoHash, post[p].hash}
    BY <2>3 DEF CheckChannelDeletable, DeleteChannel, storeVars, NoRow
  <2>4. \A p \in Posts : post'[p].hash \in {NoHash, HashOf[p]}
    BY <1>1, <1>3, <2>2, <2>3 DEF DecisionsNext
  <2>5. QED BY <2>1, <2>4, BesideJobsKeepsKnown
<1>4. CASE \/ HousekeepingNext /\ UNCHANGED <<publisherVars, deleting>>
           \/ Tick \/ UNCHANGED vars
  <2>1. /\ post' = post /\ job' = job /\ acked' = acked
        /\ \A h \in Hashes : dedupe'[h] # Never => dedupe[h] # Never
    BY <1>4 DEF HousekeepingNext, PruneDedupe, ReconcileScheduled, Tick, vars, storeVars,
                publisherVars
  <2>2. QED BY <1>1, <2>1, BesideJobsKeepsKnown
<1>5. QED BY <1>2, <1>3, <1>4 DEF Next

DuplicatesInv == SentIsAcked /\ KnownInv /\ \A p \in duplicates : Known(HashOf[p])

LEMMA NextDuplicatesInv ==
    ASSUME NothingFails, PipelineInv, DuplicatesInv, [PipelineNext]_pipelineVars
    PROVE  DuplicatesInv'
<1>1. /\ ReservationInv /\ SentIsAcked /\ KnownInv
      /\ duplicates \subseteq Posts /\ HashOf \in [Posts -> Hashes]
  BY ContentAssumption DEF PipelineInv, NormalizerTypeOK, DuplicatesInv
<1>2. ASSUME [Next]_vars, duplicates' \subseteq duplicates \cup MarkedDuplicate
      PROVE  DuplicatesInv'
  <2>1. KnownInv' /\ \A h \in Hashes : Known(h) => Known(h)'
    BY <1>1, <1>2, PublishingKeepsKnown
  <2>2. ASSUME NEW p \in MarkedDuplicate PROVE Known(HashOf[p]) /\ p \in Posts
    <3>1. PICK s \in Slots : At(s, "duplicate") /\ job[s].post = p
      BY DEF MarkedDuplicate
    <3>2. job[s].post \in Posts /\ job[s].hash \in Hashes /\ Known(job[s].hash)
      BY <1>1, <3>1, BusyJob
         DEF KnownInv, At, Busy, ReservationInv, TypeOK, PublisherTypeOK
    <3>3. job[s].hash = HashOf[p]
      BY <1>1, <3>1, <3>2, NoHashAssumption DEF KnownInv, HashesAreOwn, Busy, At
    <3>4. QED BY <3>1, <3>2, <3>3
  <2>3. ASSUME NEW p \in duplicates' PROVE Known(HashOf[p])'
    <3>1. p \in Posts /\ Known(HashOf[p])
      BY <1>1, <1>2, <2>2, <2>3 DEF DuplicatesInv
    <3>2. PICK h \in Hashes : h = HashOf[p]
      BY <1>1, <3>1
    <3>3. QED BY <2>1, <3>1, <3>2 DEF Known, Held, Holds
  <2>4. SentIsAcked'
    BY <1>1, <1>2, NextSentIsAcked
  <2>5. QED BY <2>1, <2>3, <2>4 DEF DuplicatesInv
<1>3. ASSUME NormalizerNext, UNCHANGED <<publisherVars, deleting>> PROVE DuplicatesInv'
  <2>1. job' = job /\ acked' = acked /\ dedupe' = dedupe
    BY <1>3
       DEF publisherVars, storeVars, NormalizerNext, NormalizeStep, SkipNormalize, StartNormalize,
           TakeNormalize, FinishNormalize, Route, NormalizeRaises, WorkerStops,
           ReconcilePending
  <2>2. ASSUME NEW w \in Workers, FinishNormalize(w)
        PROVE  /\ \A p \in Posts : post'[p].hash \in {NoHash, HashOf[p]}
               /\ \A p \in duplicates' : p \in duplicates \/ dedupe[HashOf[p]] # Never
    <3> DEFINE mine == work[w].post
    <3>1. /\ mine \in Posts /\ post \in [Posts -> PostRow]
          /\ \A p \in Posts : post[p].hash \in {NoHash, HashOf[p]}
      BY <1>1, <2>2
         DEF FinishNormalize, PipelineInv, WorkHasPost, Working, ReservationInv, TypeOK,
             StoreTypeOK, KnownInv, HashesAreOwn
    <3>2. \A p \in duplicates' : p \in duplicates \/ dedupe[HashOf[p]] # Never
      BY <2>2 DEF FinishNormalize, IsDuplicate
    <3>3. CASE UNCHANGED post
      BY <3>1, <3>2, <3>3
    <3>4. CASE Exists(mine)
      <4> DEFINE r == [post[mine] EXCEPT !.hash = HashOf[mine],
                           !.state = IF IsDuplicate(HashOf[mine]) THEN "rejected" ELSE @]
      <4>1. post' = [post EXCEPT ![mine] = r]
        BY <2>2, <3>4 DEF FinishNormalize
      <4>2. r.hash = HashOf[mine]
        BY <3>1 DEF PostRow
      <4> HIDE DEF r
      <4>3. QED BY <3>1, <3>2, <4>1, <4>2
    <3>5. QED BY <2>2, <3>3, <3>4 DEF FinishNormalize
  <2>3. ASSUME ~\E w \in Workers : FinishNormalize(w)
        PROVE  post' = post /\ duplicates' = duplicates
    BY <1>3, <2>3
       DEF storeVars, NormalizerNext, NormalizeStep, SkipNormalize, StartNormalize, TakeNormalize,
           Route, NormalizeRaises, WorkerStops, ReconcilePending
  <2>4. /\ \A p \in Posts : post'[p].hash \in {NoHash, HashOf[p]}
        /\ \A p \in duplicates' : p \in duplicates \/ dedupe[HashOf[p]] # Never
    BY <1>1, <2>2, <2>3 DEF KnownInv, HashesAreOwn
  <2>5. KnownInv'
    BY <1>1, <2>1, <2>4, BesideJobsKeepsKnown
  <2>6. SentIsAcked'
    BY <1>1, <2>1 DEF SentIsAcked, Holds, At
  <2>7. duplicates' \subseteq Posts
    BY <1>3, NormalizerInvStep, <1>1 DEF PipelineInv, NormalizerTypeOK
  <2>8. ASSUME NEW p \in duplicates' PROVE Known(HashOf[p])'
    <3>1. Known(HashOf[p])
      BY <1>1, <2>4, <2>7, <2>8 DEF DuplicatesInv, KnownInv
    <3>2. QED BY <2>1, <3>1 DEF Known, Held, Holds
  <2>9. QED BY <2>5, <2>6, <2>8 DEF DuplicatesInv
<1>4. CASE UNCHANGED pipelineVars
  BY <1>2, <1>4 DEF pipelineVars
<1>5. QED BY <1>2, <1>3, <1>4 DEF PipelineNext, PublishingStep

(* While Telegram and the database answer and no publish job is cut short,  *)
(* a post that is rejected as a duplicate, by normalize or by a publish     *)
(* job, has its content in the channel or in the hands of a job             *)
(* (_is_duplicate, _dedupe_exists).                                         *)
THEOREM DuplicatesAreDuplicates == PipelineSpec => []DuplicateOfSomething
<1>1. CASE NothingFails
  <2>1. DuplicatesInv => DuplicateOfSomething
    BY DEF DuplicatesInv, DuplicateOfSomething, Known, Held
  <2>2. PipelineInit => DuplicatesInv
    BY DEF PipelineInit, Init, PublisherInit, IdleJob, NormalizerInit, DuplicatesInv, KnownInv,
           HashesAreOwn, SentIsAcked, Busy, At, Holds, Reserving
  <2>3. PipelineInv /\ DuplicatesInv /\ [PipelineNext]_pipelineVars => DuplicatesInv'
    BY <1>1, NextDuplicatesInv
  <2>4. QED BY <2>1, <2>2, <2>3, PipelineInvariant, PTL DEF PipelineSpec
<1>2. CASE ~NothingFails
  <2>1. DuplicateOfSomething
    BY <1>2 DEF NothingFails, DuplicateOfSomething
  <2>2. QED BY <2>1, PTL
<1>3. QED BY <1>1, <1>2

(* What a step of the normalizer is to publishing: it touches no job in     *)
(* hand, no reservation and no record, takes no job off the queue, puts one *)
(* there for a post of an auto channel only, and rejects at most.           *)
LEMMA NormalizerBeside ==
    ASSUME PipelineInv, NormalizerNext, UNCHANGED <<publisherVars, deleting>>
    PROVE  /\ job' = job /\ sends' = sends /\ acked' = acked
           /\ dedupe' = dedupe /\ now' = now
           /\ \A p \in Posts :
                 /\ post'[p].hasMessage = post[p].hasMessage
                 /\ \/ post'[p].state \in {"absent", "rejected"}
                    \/ /\ post'[p].state = post[p].state
                       /\ post'[p].scheduledFor = post[p].scheduledFor
                 /\ \A d \in Dues : queue[p][d] > 0 => queue'[p][d] > 0
                 /\ p \notin AutoPosts => queue'[p] = queue[p]
<1>1. /\ post \in [Posts -> PostRow] /\ queue \in [Posts -> [Dues -> Nat]] /\ Never \in Dues
      /\ job' = job /\ sends' = sends /\ acked' = acked
  BY TimesAreNat DEF PipelineInv, ReservationInv, TypeOK, StoreTypeOK, publisherVars
<1>2. CASE UNCHANGED storeVars
  BY <1>1, <1>2 DEF storeVars
<1>3. ASSUME NEW w \in Workers, FinishNormalize(w)
      PROVE  /\ UNCHANGED <<dedupe, now, queue>>
             /\ \A p \in Posts :
                   /\ post'[p].hasMessage = post[p].hasMessage
                   /\ \/ post'[p].state \in {"absent", "rejected"}
                      \/ /\ post'[p].state = post[p].state
                         /\ post'[p].scheduledFor = post[p].scheduledFor
  <2> DEFINE mine == work[w].post
  <2>1. mine \in Posts /\ UNCHANGED <<dedupe, now, queue>>
    BY <1>3, FinishPost DEF FinishNormalize
  <2>2. CASE ~Exists(mine)
    BY <1>3, <2>1, <2>2 DEF FinishNormalize
  <2>3. CASE Exists(mine)
    <3> DEFINE r == [post[mine] EXCEPT !.hash = HashOf[mine],
                        !.state = IF IsDuplicate(HashOf[mine]) THEN "rejected" ELSE @]
    <3>1. post' = [post EXCEPT ![mine] = r]
      BY <1>3, <2>3 DEF FinishNormalize
    <3>2. /\ r.hasMessage = post[mine].hasMessage
          /\ r.scheduledFor = post[mine].scheduledFor
          /\ r.state \in {"rejected", post[mine].state}
      BY <1>1, <2>1 DEF PostRow
    <3> HIDE DEF r
    <3>3. QED BY <1>1, <2>1, <3>1, <3>2
  <2>4. QED BY <2>2, <2>3
<1>4. ASSUME NEW w \in Workers, Route(w)
      PROVE  /\ UNCHANGED <<post, dedupe, now>>
             /\ \A p \in Posts : /\ \A d \in Dues : queue[p][d] > 0 => queue'[p][d] > 0
                                 /\ p \notin AutoPosts => queue'[p] = queue[p]
  <2>1. work[w].post \in Posts /\ UNCHANGED <<post, dedupe, now>>
    BY <1>4 DEF Route, PipelineInv, WorkHasPost, Working
  <2>2. CASE work[w].post \in AutoPosts
    <3>1. Enqueue(work[w].post, Never)
      BY <1>4, <2>2 DEF Route
    <3>2. QED BY <1>1, <2>1, <2>2, <3>1, EnqueueGrows DEF Enqueue
  <2>3. CASE work[w].post \notin AutoPosts
    BY <1>4, <2>1, <2>3 DEF Route
  <2>4. QED BY <2>2, <2>3
<1>5. QED
  <2>1. ASSUME NEW w \in Workers, NormalizeStep(w)
        PROVE  UNCHANGED storeVars \/ FinishNormalize(w) \/ Route(w)
    BY <2>1 DEF NormalizeStep, SkipNormalize, StartNormalize, TakeNormalize
  <2>2. \/ UNCHANGED storeVars
        \/ \E w \in Workers : FinishNormalize(w) \/ Route(w)
    BY <2>1 DEF NormalizerNext, NormalizeRaises, WorkerStops, ReconcilePending
  <2>3. CASE \E w \in Workers : FinishNormalize(w) \/ Route(w)
    <3>1. PICK w \in Workers : FinishNormalize(w) \/ Route(w)
      BY <2>3
    <3>2. CASE FinishNormalize(w)
      BY <1>1, <1>3, <3>2
    <3>3. CASE Route(w)
      BY <1>1, <1>4, <3>3
    <3>4. QED BY <3>1, <3>2, <3>3
  <2>4. QED BY <1>2, <2>2, <2>3

(* So a step of the composition is one of publishing or one beside it.     *)
LEMMA PipelineSteps ==
    ASSUME [PipelineNext]_pipelineVars
    PROVE  \/ [Next]_vars
           \/ NormalizerNext /\ UNCHANGED <<publisherVars, deleting>>
  BY DEF PipelineNext, PublishingStep, pipelineVars

-----------------------------------------------------------------------------
(* What publishing promises by itself, it promises with the normalizer      *)
(* beside it.                                                              *)

(* At most one job holds the reservation of a content, and its row is      *)
(* there, though normalize reads the table and writes hashes meanwhile     *)
(* (_is_duplicate, _reserve_dedupe).                                       *)
THEOREM PipelineReservation == PipelineSpec => []ReservationExclusive
<1>1. PipelineInv => ReservationExclusive
  BY DEF PipelineInv, ReservationInv, RowsAreHeld, HoldersDiffer, ReservationExclusive
<1>2. QED BY <1>1, PipelineInvariant, PTL

(* What the invariants of the outcomes need of the steps beside publishing. *)
LEMMA PipelineOutcomes ==
    ASSUME PipelineInv, RowsAreRecent, SentIsAcked, NoOrphanReservation,
           [PipelineNext]_pipelineVars
    PROVE  RowsAreRecent' /\ SentIsAcked' /\ NoOrphanReservation'
<1>1. CASE [Next]_vars
  BY <1>1, NextRowsAreRecent, NextSentIsAcked, NextLeavesNoOrphan DEF PipelineInv, ReservationInv
<1>2. CASE NormalizerNext /\ UNCHANGED <<publisherVars, deleting>>
  <2>1. job' = job /\ acked' = acked /\ dedupe' = dedupe /\ now' = now
    BY <1>2, NormalizerBeside
  <2>2. QED BY <2>1 DEF RowsAreRecent, SentIsAcked, NoOrphanReservation, Holds, At
<1>3. QED BY <1>1, <1>2, PipelineSteps

LEMMA PipelineOutcomesInvariant == PipelineSpec => [](RowsAreRecent /\ NoOrphanReservation)
<1>1. PipelineInit => RowsAreRecent /\ SentIsAcked /\ NoOrphanReservation
  BY InitRowsAreRecent
     DEF PipelineInit, Init, PublisherInit, IdleJob, SentIsAcked, At, NoOrphanReservation, Never
<1>2. QED BY <1>1, PipelineOutcomes, PipelineInvariant, PTL DEF PipelineSpec

(* Unless a publish job is interrupted, a reservation is held by one or    *)
(* stands for content that went out: a duplicate that normalize rejects is *)
(* never one of a reservation that a failed send left behind               *)
(* (_release_dedupe, _is_duplicate).                                       *)
THEOREM PipelineLeavesNoOrphan == PipelineSpec => []NoOrphanReservation
<1>1. QED BY PipelineOutcomesInvariant, PTL

(* The services together implement OncePerWindow: normalizing is a         *)
(* stuttering step of it, though it writes the hash that a job reserves    *)
(* under (_publish_core, normalize).                                       *)
THEOREM PipelineSendsOncePerWindow == PipelineSpec => SendsOncePerWindow
<1>1. PipelineInit => OPW!Init
  BY DEF PipelineInit, Init, PublisherInit, IdleJob, OPW!Init, Sending, Holds, Reserving, Never
<1>2. PipelineInv /\ RowsAreRecent /\ [PipelineNext]_pipelineVars => [OPW!Next]_OPW!vars
  <2> SUFFICES ASSUME PipelineInv, RowsAreRecent, [PipelineNext]_pipelineVars
               PROVE  [OPW!Next]_OPW!vars
    OBVIOUS
  <2>1. CASE [Next]_vars
    BY <2>1, NextImplements DEF PipelineInv
  <2>2. CASE NormalizerNext /\ UNCHANGED <<publisherVars, deleting>>
    <3>1. job' = job /\ acked' = acked /\ now' = now
      BY <2>2, NormalizerBeside
    <3>2. QED BY <3>1, GivenUp DEF PipelineInv, Sending, Holds, At
  <2>3. QED BY <2>1, <2>2, PipelineSteps
<1>3. QED
  BY <1>1, <1>2, PipelineInvariant, PipelineOutcomesInvariant, PTL
     DEF PipelineSpec, SendsOncePerWindow, OPW!Spec

(* Normalize loses no decision: what it rejects is settled, and it takes   *)
(* no publish job off the queue.                                           *)
LEMMA NormalizerLosesNoDecision ==
    ASSUME PipelineInv, DecidedHasJob, NormalizerNext, UNCHANGED <<publisherVars, deleting>>
    PROVE  DecidedHasJob'
<1> SUFFICES ASSUME Undisturbed, NEW p \in Posts, Undone(p)' PROVE JobInTime(p)'
  BY DEF DecidedHasJob, Undisturbed
<1>1. /\ job' = job
      /\ post'[p].hasMessage = post[p].hasMessage
      /\ \/ post'[p].state \in {"absent", "rejected"}
         \/ post'[p].state = post[p].state /\ post'[p].scheduledFor = post[p].scheduledFor
      /\ \A d \in Dues : queue[p][d] > 0 => queue'[p][d] > 0
  BY NormalizerBeside
<1>2. post'[p].state = post[p].state /\ post'[p].scheduledFor = post[p].scheduledFor
  BY <1>1 DEF Undone
<1>3. Undone(p)
  BY <1>1, <1>2 DEF Undone
<1>4. JobInTime(p)
  BY <1>3 DEF DecidedHasJob, Undisturbed
<1>5. QED BY <1>1, <1>2, <1>4 DEF JobInTime, At

(* With Redis, the database and callbacks answering, every decision that   *)
(* is not out has its publish job in time, also for posts that normalize   *)
(* is at work on (decide, normalize).                                      *)
THEOREM PipelineLosesNoDecision == PipelineSpec => []DecidedHasJob
<1>1. PipelineInit => DecidedHasJob
  BY DEF PipelineInit, Init, DecidedHasJob, Undone
<1>2. PipelineInv /\ DecidedHasJob /\ [PipelineNext]_pipelineVars => DecidedHasJob'
  BY PipelineSteps, NextLosesNoDecision, NormalizerLosesNoDecision DEF PipelineInv, ReservationInv
<1>3. QED BY <1>1, <1>2, PipelineInvariant, PTL DEF PipelineSpec

-----------------------------------------------------------------------------
(* A post that normalize has not reached may be approved, and then has no  *)
(* hash to reserve. Jobs that began before and after its hash was written   *)
(* do not know of each other; a bot with one slot has no two of them.      *)

(* A row's message id is recorded by the job that sent it, and a job goes  *)
(* on to its send only from a row that had none.                           *)
LEMMA RecordsOfStep ==
    ASSUME TypeOK, NEW s \in Slots, JobStep(s) \/ StatementRaises(s) \/ JobTimesOut(s)
    PROVE  /\ job'[s].pc \in AtRisk =>
                  /\ job[s].pc \in AtRisk
                  /\ job'[s].post = job[s].post
                  /\ post'[job[s].post].hasMessage = post[job[s].post].hasMessage
<1>1. /\ JobTypeOK /\ post \in [Posts -> PostRow]
  BY DEF TypeOK, StoreTypeOK, PublisherTypeOK
<1>2. Busy(s) /\ job[s].post \in Posts
  BY <1>1, BusyJob
     DEF JobStep, Claim, ChannelMissing, CheckDedupe, Reserve, MarkDuplicate,
         AcquireSendLock, SendSucceeds, SendRaises, Release, MarkPublished,
         EditDraftCard, RecordFailure, StatementRaises, JobTimesOut, InSend, Busy, At
<1>3. Finish(s) => job'[s].pc \notin AtRisk
  BY <1>1, FinishEffect DEF AtRisk, Reserving
<1>4. ASSUME NEW pc, Goto(s, pc), pc \in AtRisk => job[s].pc \in AtRisk,
             \/ pc \notin AtRisk
             \/ post' = post
             \/ \E st \in PostState : SetState(job[s].post, st)
      PROVE  job'[s].pc \in AtRisk =>
                  /\ job[s].pc \in AtRisk
                  /\ job'[s].post = job[s].post
                  /\ post'[job[s].post].hasMessage = post[job[s].post].hasMessage
  <2>1. job'[s].pc = pc /\ job'[s].post = job[s].post
    BY <1>1, <1>4, GotoEffect
  <2>2. ASSUME NEW st \in PostState, SetState(job[s].post, st)
        PROVE  post'[job[s].post].hasMessage = post[job[s].post].hasMessage
    <3>1. post[job[s].post] \in PostRow
      BY <1>1, <1>2
    <3>2. post'[job[s].post] = [post[job[s].post] EXCEPT !.state = st]
      BY <1>1, <1>2, <2>2 DEF SetState
    <3>3. QED BY <3>1, <3>2 DEF PostRow
  <2>3. QED BY <1>4, <2>1, <2>2
<1>5. CASE Claim(s)
  <2>1. "publishing" \in PostState
    BY DEF PostState
  <2>2. QED BY <1>4, <1>5, <2>1 DEF Claim, At, AtRisk, Reserving
<1>6. CASE \/ CheckDedupe(s) \/ Reserve(s) \/ AcquireSendLock(s) \/ SendSucceeds(s)
           \/ SendRaises(s) \/ Release(s)
  BY <1>4, <1>6 DEF CheckDedupe, Reserve, AcquireSendLock, SendSucceeds, SendRaises, Release,
                    InSend, At, storeVars, AtRisk, Reserving
<1>7. CASE MarkPublished(s)
  BY <1>4, <1>7 DEF MarkPublished, AtRisk, Reserving
<1>8. CASE \/ ChannelMissing(s) \/ MarkDuplicate(s) \/ EditDraftCard(s) \/ RecordFailure(s)
           \/ JobTimesOut(s) \/ StatementRaises(s)
  BY <1>3, <1>4, <1>8 DEF ChannelMissing, MarkDuplicate, EditDraftCard, RecordFailure,
                          JobTimesOut, StatementRaises, AtRisk, Reserving
<1>9. QED BY <1>5, <1>6, <1>7, <1>8 DEF JobStep

LEMMA NextAloneUnrecorded ==
    ASSUME TypeOK, AloneUnrecorded, [Next]_vars
    PROVE  AloneUnrecorded'
<1> SUFFICES ASSUME NEW s \in Slots, Slots = {s}, job'[s].pc \in AtRisk
             PROVE  ~post'[job'[s].post].hasMessage
  BY DEF AloneUnrecorded
<1>1. JobTypeOK /\ post \in [Posts -> PostRow]
  BY DEF TypeOK, StoreTypeOK, PublisherTypeOK
<1>2. job[s].pc \in AtRisk => job[s].post \in Posts /\ ~post[job[s].post].hasMessage
  BY <1>1, BusyJob DEF AloneUnrecorded, AtRisk, Reserving, Busy
<1>3. ASSUME job' = job, \A p \in Posts : post'[p].hasMessage => post[p].hasMessage
      PROVE  ~post'[job'[s].post].hasMessage
  BY <1>2, <1>3
<1>4. CASE PublisherNext
  <2>1. CASE JobStep(s) \/ StatementRaises(s) \/ JobTimesOut(s)
    BY <1>2, <2>1, RecordsOfStep
  <2>2. ASSUME NEW p \in Posts, NEW d \in Dues, Skip(s, p, d)
        PROVE  ~post'[job'[s].post].hasMessage
    BY <1>3, <2>2 DEF Skip, publisherVars
  <2>3. ASSUME NEW p \in Posts, NEW d \in Dues, Load(s, p, d)
        PROVE  ~post'[job'[s].post].hasMessage
    <3>1. job'[s].post = p /\ post' = post /\ ~post[p].hasMessage
      BY <1>1, <2>3 DEF Load, Skips, JobTypeOK
    <3>2. QED BY <3>1
  <2>4. CASE BotCrashes
    BY <2>4 DEF BotCrashes, IdleJob, AtRisk, Reserving
  <2>5. QED BY <1>4, <2>1, <2>2, <2>3, <2>4 DEF PublisherNext, StartJob
<1>5. CASE DecisionsNext /\ UNCHANGED publisherVars
  <2>1. ASSUME NEW q \in Posts, Decide(q), NEW p \in Posts
        PROVE  post'[p].hasMessage = post[p].hasMessage
    <3>1. post[p] \in PostRow
      BY <1>1
    <3>2. QED BY <1>1, <2>1, <3>1
                 DEF Decide, Approve, Reject, CbApprove, CbReject, Schedule, PostRow
  <2>2. ASSUME NEW c \in Channels, CheckChannelDeletable(c) \/ DeleteChannel(c), NEW p \in Posts
        PROVE  post'[p].hasMessage => post[p].hasMessage
    BY <2>2 DEF CheckChannelDeletable, DeleteChannel, storeVars, NoRow
  <2>3. job' = job
    BY <1>5 DEF publisherVars
  <2>4. QED BY <1>3, <1>5, <2>1, <2>2, <2>3 DEF DecisionsNext
<1>6. CASE \/ HousekeepingNext /\ UNCHANGED <<publisherVars, deleting>>
           \/ Tick \/ UNCHANGED vars
  BY <1>3, <1>6 DEF HousekeepingNext, PruneDedupe, ReconcileScheduled, Tick, vars,
                    storeVars, publisherVars
<1>7. QED BY <1>4, <1>5, <1>6 DEF Next

LEMMA OneSlot ==
    ASSUME Cardinality(Slots) = 1, NEW s \in Slots
    PROVE  Slots = {s}
<1>1. Cardinality(Slots \ {s}) = 0 /\ IsFiniteSet(Slots \ {s})
  BY SlotsAssumption, FS_RemoveElement
<1>2. Slots \ {s} = {}
  BY <1>1, FS_EmptySet
<1>3. QED BY <1>2

(* A post whose message id is recorded is not sent again by a bot that     *)
(* runs one publish job at a time, whether or not the post was normalized  *)
(* when it was approved (_publish_core, max_concurrent_publishes).         *)
THEOREM PipelineNoResend ==
    ASSUME Cardinality(Slots) = 1
    PROVE  PipelineSpec => NoResendAfterRecord
<1> DEFINE Kept == \A p \in Posts : post[p].hasMessage
                                    /\ (post[p].hash # NoHash \/ Cardinality(Slots) = 1)
                       => sends'[p] = sends[p]
<1>1. PipelineInit => AloneUnrecorded
  BY DEF PipelineInit, Init, PublisherInit, IdleJob, AloneUnrecorded, AtRisk, Reserving
<1>2. PipelineInv /\ AloneUnrecorded /\ [PipelineNext]_pipelineVars => AloneUnrecorded'
  <2> SUFFICES ASSUME PipelineInv, AloneUnrecorded, [PipelineNext]_pipelineVars
               PROVE  AloneUnrecorded'
    OBVIOUS
  <2>1. CASE [Next]_vars
    BY <2>1, NextAloneUnrecorded DEF PipelineInv, ReservationInv
  <2>2. CASE NormalizerNext /\ UNCHANGED <<publisherVars, deleting>>
    <3>1. \A s \in Slots : job[s].pc \in AtRisk => job[s].post \in Posts
      BY BusyJob DEF PipelineInv, ReservationInv, TypeOK, PublisherTypeOK, AtRisk, Reserving, Busy
    <3>2. job' = job /\ \A p \in Posts : post'[p].hasMessage = post[p].hasMessage
      BY <2>2, NormalizerBeside
    <3>3. QED BY <3>1, <3>2 DEF AloneUnrecorded
  <2>3. QED BY <2>1, <2>2, PipelineSteps
<1>3. PipelineInv /\ AloneUnrecorded /\ [PipelineNext]_pipelineVars => [Kept]_vars
  <2> SUFFICES ASSUME PipelineInv, AloneUnrecorded, [PipelineNext]_pipelineVars,
                      NEW p \in Posts, post[p].hasMessage, sends'[p] # sends[p]
               PROVE  FALSE
    OBVIOUS
  <2>1. [Next]_vars
    BY PipelineSteps, NormalizerBeside
  <2>2. PICK s \in Slots : InSend(s) /\ job[s].post = p
    BY <2>1, OnlySendersDeliver DEF PipelineInv, ReservationInv, TypeOK, PublisherTypeOK
  <2>3. job[s].pc \in AtRisk /\ Slots = {s}
    BY <2>2, OneSlot DEF InSend, AtRisk, Reserving
  <2>4. QED BY <2>2, <2>3 DEF AloneUnrecorded
<1>4. QED BY <1>1, <1>2, <1>3, PipelineInvariant, PTL DEF PipelineSpec, NoResendAfterRecord

-----------------------------------------------------------------------------
(* Nothing is sent before somebody let it out. Publishing works on a post  *)
(* only while it was let out: its jobs come from decisions, from jobs that *)
(* were cut short, and from posts that are scheduled; and a job waits for  *)
(* the time it is due.                                                     *)
Going(p) == \/ \E s \in Slots : job[s].post = p
            \/ sends[p] > 0
            \/ post[p].state = "approved"

DueNow(p) == \E d \in Dues : queue[p][d] > 0 /\ d <= now

ClearedInv == \A p \in Posts \ AutoPosts :
    /\ \A d \in Dues : queue[p][d] > 0 => cleared[p] <= d \/ cleared[p] <= now
    /\ Going(p) => cleared[p] <= now
    /\ post[p].state = "scheduled" => cleared[p] <= post[p].scheduledFor

\* What a step of publishing does for a post that is not going out: it starts
\* a job that is due, or decides.
GoesWhenDue(p) ==
    /\ \A d \in Dues : queue'[p][d] > 0 =>
           \/ queue[p][d] > 0
           \/ p \in Overdue
           \/ post'[p].state = "approved"
           \/ post'[p].state = "scheduled" /\ post'[p].scheduledFor = d
    /\ Going(p)' => DueNow(p) \/ post'[p].state = "approved"

LEMMA RunAgainOwn ==
    ASSUME queue \in [Posts -> [Dues -> Nat]], NEW q \in Posts, NEW p \in Posts,
           MayRunAgain(q), p # q
    PROVE  queue'[p] = queue[p]
  BY DEF MayRunAgain, Enqueue

(* A job's step concerns its own post.                                     *)
LEMMA JobStepOwn ==
    ASSUME TypeOK, NEW s \in Slots, JobStep(s) \/ StatementRaises(s) \/ JobTimesOut(s),
           NEW p \in Posts
    PROVE  Going(p) \/ GoesWhenDue(p)
<1> SUFFICES ASSUME ~Going(p) PROVE GoesWhenDue(p)
  OBVIOUS
<1>1. /\ JobTypeOK /\ post \in [Posts -> PostRow] /\ queue \in [Posts -> [Dues -> Nat]]
      /\ sends \in [Posts -> 0 .. SendBound]
  BY DEF TypeOK, StoreTypeOK, PublisherTypeOK
<1>2. Busy(s) /\ job[s].post \in Posts /\ job[s].post # p
  BY <1>1, BusyJob
     DEF JobStep, Claim, ChannelMissing, CheckDedupe, Reserve, MarkDuplicate,
         AcquireSendLock, SendSucceeds, SendRaises, Release, MarkPublished,
         EditDraftCard, RecordFailure, StatementRaises, JobTimesOut, InSend, Busy, At, Going
<1>3. post'[p] = post[p]
  BY <1>1, <1>2
     DEF JobStep, Claim, ChannelMissing, CheckDedupe, Reserve, MarkDuplicate,
         AcquireSendLock, SendSucceeds, SendRaises, Release, MarkPublished, EditDraftCard,
         RecordFailure, StatementRaises, JobTimesOut, SetState, storeVars
<1>4. sends'[p] = sends[p]
  BY <1>1, <1>2
     DEF JobStep, Claim, ChannelMissing, CheckDedupe, Reserve, MarkDuplicate,
         AcquireSendLock, SendSucceeds, SendRaises, Release, MarkPublished, EditDraftCard,
         RecordFailure, StatementRaises, JobTimesOut, Deliver
<1>5. queue'[p] = queue[p]
  BY <1>1, <1>2, RunAgainOwn
     DEF JobStep, Claim, ChannelMissing, CheckDedupe, Reserve, MarkDuplicate,
         AcquireSendLock, SendSucceeds, SendRaises, Release, MarkPublished, EditDraftCard,
         RecordFailure, StatementRaises, JobTimesOut, storeVars
<1>6. Finish(s) \/ \E pc : Goto(s, pc)
  BY DEF JobStep, Claim, ChannelMissing, CheckDedupe, Reserve, MarkDuplicate,
         AcquireSendLock, SendSucceeds, SendRaises, Release, MarkPublished, EditDraftCard,
         RecordFailure, StatementRaises, JobTimesOut
<1>7. \A t \in Slots : job'[t].post = p => job[t].post = p
  <2>1. CASE Finish(s)
    BY <1>1, <2>1, NoPostAssumption DEF Finish, IdleJob, JobTypeOK
  <2>2. CASE \E pc : Goto(s, pc)
    BY <1>1, <2>2, GotoEffect
  <2>3. QED BY <1>6, <2>1, <2>2
<1>8. QED BY <1>3, <1>4, <1>5, <1>7 DEF Going, GoesWhenDue

(* A job starts when it is due.                                            *)
LEMMA StartJobOwn ==
    ASSUME TypeOK, NEW s \in Slots, NEW q \in Posts, StartJob(s, q), NEW p \in Posts
    PROVE  Going(p) \/ GoesWhenDue(p)
<1>1. JobTypeOK /\ queue \in [Posts -> [Dues -> Nat]] /\ Dues \subseteq Nat
  BY TimesAreNat DEF TypeOK, StoreTypeOK, PublisherTypeOK, Dues
<1>2. PICK d \in Dues : Skip(s, q, d) \/ Load(s, q, d)
  BY DEF StartJob
<1>3. /\ post' = post /\ sends' = sends /\ queue[q][d] > 0 /\ d <= now
      /\ queue' = [queue EXCEPT ![q][d] = @ - 1]
  BY <1>2 DEF Skip, Load, Dequeue, publisherVars
<1>4. \A e \in Dues : queue'[p][e] > 0 => queue[p][e] > 0
  BY <1>1, <1>3
<1>5. CASE p = q
  BY <1>3, <1>4, <1>5 DEF GoesWhenDue, DueNow
<1>6. CASE p # q
  <2>1. \A t \in Slots : job'[t].post = p => job[t].post = p
    BY <1>1, <1>2, <1>6 DEF Skip, Load, publisherVars, JobTypeOK
  <2>2. QED BY <1>3, <1>4, <2>1 DEF Going, GoesWhenDue
<1>7. QED BY <1>5, <1>6

LEMMA CrashOwn ==
    ASSUME TypeOK, BotCrashes, NEW p \in Posts PROVE Going(p) \/ GoesWhenDue(p)
<1> SUFFICES ASSUME ~Going(p) PROVE GoesWhenDue(p)
  OBVIOUS
<1> DEFINE mine == {s \in Slots : job[s].post = p}
<1>1. Cardinality(mine) = 0
  <2>1. mine = {}
    BY DEF Going
  <2>2. QED BY <2>1, FS_EmptySet
<1>2. queue \in [Posts -> [Dues -> Nat]] /\ Never \in Dues
  BY TimesAreNat DEF TypeOK, StoreTypeOK
<1>3. queue'[p] = [queue[p] EXCEPT ![Never] = @ + Cardinality(mine)]
  BY DEF BotCrashes
<1>4. queue'[p] = queue[p]
  BY <1>1, <1>2, <1>3
<1>5. post' = post /\ sends' = sends /\ \A s \in Slots : job'[s].post # p
  BY NoPostAssumption DEF BotCrashes, IdleJob
<1>6. QED BY <1>4, <1>5 DEF Going, GoesWhenDue

(* A decision concerns its own post, and whatever it puts on the queue it  *)
(* also writes into the row.                                               *)
LEMMA DecideOwn ==
    ASSUME TypeOK, NEW q \in Posts, Decide(q), UNCHANGED publisherVars, NEW p \in Posts
    PROVE  Going(p) \/ GoesWhenDue(p)
<1> SUFFICES ASSUME ~Going(p) PROVE GoesWhenDue(p)
  OBVIOUS
<1>1. /\ post \in [Posts -> PostRow] /\ queue \in [Posts -> [Dues -> Nat]] /\ Never \in Dues
      /\ job' = job /\ sends' = sends
  BY TimesAreNat DEF TypeOK, StoreTypeOK, publisherVars
<1>2. CASE p # q
  <2>1. post'[p] = post[p] /\ queue'[p] = queue[p]
    BY <1>1, <1>2 DEF Decide, Approve, Reject, CbApprove, CbReject, Schedule,
                      EnqueueAfterCommit, Enqueue
  <2>2. QED BY <1>1, <2>1 DEF Going, GoesWhenDue
<1>3. CASE p = q /\ (Approve(q) \/ CbApprove(q))
  <2>1. post'[p].state = "approved"
    BY <1>1, <1>3 DEF Approve, CbApprove, PostRow
  <2>2. QED BY <2>1 DEF GoesWhenDue
<1>4. CASE p = q /\ (Reject(q) \/ CbReject(q))
  <2>1. post'[p].state = "rejected" /\ queue' = queue
    BY <1>1, <1>4 DEF Reject, CbReject, PostRow
  <2>2. QED BY <1>1, <2>1 DEF Going, GoesWhenDue
<1>5. ASSUME NEW t \in DueTimes, Schedule(q, t), p = q PROVE GoesWhenDue(p)
  <2>1. post'[p].state = "scheduled" /\ post'[p].scheduledFor = t
    BY <1>1, <1>5 DEF Schedule, PostRow
  <2>2. \A d \in Dues : d # t => queue'[p][d] = queue[p][d]
    BY <1>1, <1>5 DEF Schedule, EnqueueAfterCommit, Enqueue, Dues
  <2>3. ~Going(p)'
    BY <1>1, <2>1 DEF Going
  <2>4. QED BY <2>1, <2>2, <2>3 DEF GoesWhenDue
<1>6. QED BY <1>2, <1>3, <1>4, <1>5 DEF Decide

LEMMA NextOwn ==
    ASSUME TypeOK, [Next]_vars, NEW p \in Posts PROVE Going(p) \/ GoesWhenDue(p)
<1> SUFFICES ASSUME ~Going(p) PROVE GoesWhenDue(p)
  OBVIOUS
<1>1. queue \in [Posts -> [Dues -> Nat]] /\ Never \in Dues
  BY TimesAreNat DEF TypeOK, StoreTypeOK
<1>2. ASSUME UNCHANGED publisherVars, post'[p] \in {post[p], NoRow},
             queue'[p] = queue[p] \/ p \in Overdue
      PROVE  GoesWhenDue(p)
  BY <1>2 DEF Going, GoesWhenDue, publisherVars, NoRow
<1>3. CASE PublisherNext
  BY <1>3, JobStepOwn, StartJobOwn, CrashOwn DEF PublisherNext
<1>4. CASE DecisionsNext /\ UNCHANGED publisherVars
  <2>1. ASSUME NEW c \in Channels, CheckChannelDeletable(c) \/ DeleteChannel(c)
        PROVE  GoesWhenDue(p)
    BY <1>2, <1>4, <2>1 DEF CheckChannelDeletable, DeleteChannel, storeVars
  <2>2. QED BY <1>4, <2>1, DecideOwn DEF DecisionsNext
<1>5. CASE HousekeepingNext /\ UNCHANGED <<publisherVars, deleting>>
  BY <1>1, <1>2, <1>5 DEF HousekeepingNext, PruneDedupe, ReconcileScheduled
<1>6. CASE Tick \/ UNCHANGED vars
  BY <1>2, <1>6 DEF Tick, vars, storeVars
<1>7. QED BY <1>3, <1>4, <1>5, <1>6 DEF Next

(* Time goes on.                                                           *)
LEMMA NowGrows == ASSUME TypeOK, Next PROVE now' = now \/ now' = now + 1
<1>1. CASE PublisherNext
  <2>1. ASSUME NEW s \in Slots, JobStep(s) \/ StatementRaises(s) \/ JobTimesOut(s)
        PROVE  now' = now
    BY <2>1
       DEF JobStep, Claim, ChannelMissing, CheckDedupe, Reserve, MarkDuplicate,
           AcquireSendLock, SendSucceeds, SendRaises, Release, MarkPublished, EditDraftCard,
           RecordFailure, StatementRaises, JobTimesOut, storeVars
  <2>2. ASSUME NEW s \in Slots, NEW p \in Posts, StartJob(s, p) PROVE now' = now
    BY <2>2 DEF StartJob, Skip, Load, Dequeue
  <2>3. QED BY <1>1, <2>1, <2>2 DEF PublisherNext, BotCrashes
<1>2. CASE DecisionsNext
  BY <1>2 DEF DecisionsNext, Decide, Approve, Schedule, Reject, CbApprove, CbReject,
              CheckChannelDeletable, DeleteChannel, storeVars
<1>3. CASE HousekeepingNext \/ Tick
  BY <1>3 DEF HousekeepingNext, ReconcileScheduled, PruneDedupe, Tick
<1>4. QED BY <1>1, <1>2, <1>3 DEF Next

(* The earliest instant is kept when a step is one of publishing.          *)
LEMMA PublishingKeepsCleared ==
    ASSUME PipelineInv, PipelineInv', ClearedTypeOK, ClearedInv, PublishingStep,
           NEW p \in Posts \ AutoPosts
    PROVE  /\ \A d \in Dues : queue'[p][d] > 0 => cleared'[p] <= d \/ cleared'[p] <= now'
           /\ Going(p)' => cleared'[p] <= now'
           /\ post'[p].state = "scheduled" => cleared'[p] <= post'[p].scheduledFor
<1>1. /\ TypeOK /\ now \in Nat /\ now' \in Nat /\ Dues \subseteq Nat
      /\ cleared[p] \in Nat /\ cleared'[p] \in Nat /\ LetOut(p)' \in Nat
      /\ post[p].scheduledFor \in Nat /\ post'[p].scheduledFor \in Nat
  <2>1. /\ TypeOK /\ TypeOK' /\ ClearedTypeOK'
    BY ClearedTypes DEF PipelineInv, ReservationInv, PipelineNext
  <2>2. /\ Times \subseteq Nat /\ Never \in Nat /\ NotYet \in Nat /\ Dues \subseteq Nat
    BY TimeAssumption DEF Times, Never, NotYet, Dues
  <2>3. post[p] \in PostRow /\ post'[p] \in PostRow
    BY <2>1 DEF TypeOK, StoreTypeOK
  <2>4. /\ post[p].scheduledFor \in Nat /\ post'[p].scheduledFor \in Nat
    BY <2>2, <2>3 DEF PostRow
  <2>5. LetOut(p)' \in Nat
    BY <2>2, <2>4 DEF LetOut
  <2>6. QED BY <2>1, <2>2, <2>4, <2>5 DEF TypeOK, StoreTypeOK, ClearedTypeOK
<1>2. now <= now'
  BY <1>1, NowGrows DEF PublishingStep
<1>3. cleared'[p] <= cleared[p] /\ cleared'[p] <= LetOut(p)'
  BY <1>1 DEF PublishingStep
<1>4. post'[p].state = "scheduled" => cleared'[p] <= post'[p].scheduledFor
  BY <1>3 DEF LetOut
<1>5. post'[p].state = "approved" => cleared'[p] <= now'
  BY <1>1, <1>3 DEF LetOut, Never
<1>6. CASE Going(p)
  BY <1>1, <1>2, <1>3, <1>4, <1>6 DEF ClearedInv
<1>7. CASE GoesWhenDue(p)
  <2>1. p \in Overdue => cleared'[p] <= now'
    BY <1>1, <1>2, <1>3 DEF Overdue, ClearedInv
  <2>2. DueNow(p) => cleared'[p] <= now'
    BY <1>1, <1>2, <1>3 DEF DueNow, ClearedInv
  <2>3. Going(p)' => cleared'[p] <= now'
    BY <1>5, <1>7, <2>2 DEF GoesWhenDue
  <2>4. ASSUME NEW d \in Dues, queue'[p][d] > 0
        PROVE  cleared'[p] <= d \/ cleared'[p] <= now'
    <3>1. CASE queue[p][d] > 0
      <4>1. cleared[p] <= d \/ cleared[p] <= now
        BY <3>1 DEF ClearedInv
      <4>2. d \in Nat
        BY <1>1
      <4>3. QED BY <1>1, <1>2, <1>3, <4>1, <4>2
    <3>2. CASE post'[p].state = "scheduled" /\ post'[p].scheduledFor = d
      BY <1>4, <3>2
    <3>3. QED BY <1>5, <1>7, <2>1, <2>4, <3>1, <3>2 DEF GoesWhenDue
  <2>5. QED BY <1>4, <2>3, <2>4
<1>8. QED BY <1>1, <1>6, <1>7, NextOwn DEF PublishingStep

(* A post of a channel whose posts need a decision shows up in the         *)
(* destination channel only after an editor approved it or at the earliest *)
(* time an editor scheduled it for, though jobs start over, pile up and    *)
(* outlive decisions, and normalize works beside them (decide_route,       *)
(* publish, reconcile_scheduled).                                          *)
THEOREM NothingUnapprovedIsSent == PipelineSpec => []NothingUnapprovedGoesOut
<1> DEFINE Inv == PipelineInv /\ ClearedTypeOK /\ ClearedInv
<1>1. PipelineInit => Inv
  <2>1. PipelineInit => ClearedTypeOK
    BY DEF PipelineInit, ClearedTypeOK
  <2>2. PipelineInit => ClearedInv
    BY NoPostAssumption
       DEF PipelineInit, Init, PublisherInit, IdleJob, ClearedInv, Going
  <2>3. QED BY <2>1, <2>2, InitPipelineInv
<1>2. Inv /\ [PipelineNext]_pipelineVars => Inv'
  <2> SUFFICES ASSUME Inv, [PipelineNext]_pipelineVars PROVE Inv'
    OBVIOUS
  <2>1. PipelineInv' /\ ClearedTypeOK'
    BY NextPipelineInv, ClearedTypes
  <2>2. CASE PublishingStep
    BY <2>1, <2>2, PublishingKeepsCleared DEF ClearedInv
  <2>3. CASE NormalizerNext /\ UNCHANGED <<publisherVars, deleting, cleared>>
    <3>1. ASSUME NEW p \in Posts \ AutoPosts
          PROVE  /\ job' = job /\ sends' = sends /\ now' = now /\ cleared' = cleared
                 /\ queue'[p] = queue[p]
                 /\ \/ post'[p].state \in {"absent", "rejected"}
                    \/ /\ post'[p].state = post[p].state
                       /\ post'[p].scheduledFor = post[p].scheduledFor
      BY <2>3, NormalizerBeside
    <3>2. ClearedInv'
      BY <3>1 DEF ClearedInv, Going
    <3>3. QED BY <2>1, <3>2
  <2>4. CASE UNCHANGED pipelineVars
    <3>1. ClearedInv'
      BY <2>4 DEF pipelineVars, vars, storeVars, publisherVars, ClearedInv, Going
    <3>2. QED BY <2>1, <3>1
  <2>5. QED BY <2>2, <2>3, <2>4 DEF PipelineNext
<1>3. Inv => NothingUnapprovedGoesOut
  BY DEF ClearedInv, Going, NothingUnapprovedGoesOut
<1>4. QED BY <1>1, <1>2, <1>3, PTL DEF PipelineSpec
=============================================================================
