----------------------------- MODULE Publishing -----------------------------
(***************************************************************************)
(* The road from a decision to the destination channel: the publish jobs   *)
(* of the bot, the editors and the worker's housekeeping, together on the  *)
(* tables and the queue they share.                                        *)
(***************************************************************************)
EXTENDS Publisher, Decisions, Housekeeping

CONSTANT Normalized     \* posts normalize has finished with

ASSUME NormalizedAssumption == Normalized \subseteq Posts

vars == <<storeVars, publisherVars, deleting>>

\* Every post has been ingested. normalize has left the hash and, for an auto
\* channel, a publish job; the editors see the others too.
Init == /\ post = [p \in Posts |->
                      [state |-> "pending", hasMessage |-> FALSE,
                       hash |-> IF p \in Normalized THEN HashOf[p] ELSE NoHash,
                       scheduledFor |-> Never]]
        /\ dedupe = [h \in Hashes |-> Never]
        /\ queue = [p \in Posts |-> [d \in Dues |->
                       IF p \in AutoPosts \cap Normalized /\ d = Never THEN 1 ELSE 0]]
        /\ now = 1
        /\ PublisherInit
        /\ DecisionsInit

\* A job is finished or cancelled within job_timeout, so none sees the clock
\* move twice.
Tick == /\ now < MaxTime
        /\ \A s \in Slots : Busy(s) => job[s].since = now
        /\ now' = now + 1
        /\ UNCHANGED <<post, dedupe, queue, publisherVars, deleting>>

Next == \/ PublisherNext /\ UNCHANGED deleting
        \/ DecisionsNext /\ UNCHANGED publisherVars
        \/ HousekeepingNext /\ UNCHANGED <<publisherVars, deleting>>
        \/ Tick

Spec == Init /\ [][Next]_vars

\* The bot's event loop runs every job it has, asyncio.Lock serves its waiters
\* in order, ARQ takes due jobs in the order of their due times, time passes,
\* and the bot's container does not crash for ever.
Fairness ==
    /\ \A s \in Slots : WF_vars(JobStep(s) /\ UNCHANGED deleting)
    /\ \A s \in Slots : SF_vars(AcquireSendLock(s) /\ UNCHANGED deleting)
    /\ \A p \in Posts : SF_vars(\E s \in Slots : StartJob(s, p) /\ UNCHANGED deleting)
    /\ WF_vars(Tick)
    /\ <>[][~BotCrashes]_vars

FairSpec == Spec /\ Fairness
-----------------------------------------------------------------------------
(* Types. *)
TypeOK == StoreTypeOK /\ PublisherTypeOK /\ DecisionsTypeOK

(* The dedupe row is a lock on content: while a job is between reserving a *)
(* hash and recording or giving up the send, its row is there and no other *)
(* job is in that stretch with the same hash (_reserve_dedupe).            *)
ReservationExclusive ==
    \A h \in Hashes : \A s, t \in Slots :
        /\ Holds(s, h) => dedupe[h] # Never
        /\ Holds(s, h) /\ Holds(t, h) => s = t

(* Content that Telegram has acknowledged is not on its way to Telegram    *)
(* again while the reservation of that send is within the lookback window, *)
(* whatever fails and whatever editors do (_dedupe_exists, prune_dedupe).  *)
NoRepeatInWindow ==
    \A s \in Slots, h \in Hashes :
        Holds(s, h) /\ At(s, "sending") /\ acked[h] # Never
            => now - acked[h] > Lookback

(* The same as an abstract specification that the jobs implement: at most  *)
(* one sender per content, none of them within the window of the last      *)
(* acknowledged send (_publish_core).                                      *)
Sending(s, h) == Holds(s, h) /\ ~At(s, "sent")

OPW == INSTANCE OncePerWindow
           WITH Senders <- Slots, Contents <- Hashes, Window <- Lookback,
                senders <- [h \in Hashes |-> {s \in Slots : Sending(s, h)}],
                acks <- acked, clock <- now

SendsOncePerWindow == OPW!Spec

(* A post whose published_message_id is recorded is never sent again, even *)
(* by a job that read the row before: for a normalized post, or when the   *)
(* bot runs one job at a time (_publish_core).                             *)
NoResendAfterRecord ==
    [][\A p \in Posts : post[p].hasMessage /\ (post[p].hash # NoHash \/ Cardinality(Slots) = 1)
           => sends'[p] = sends[p]]_vars

(* When no job is interrupted, a dedupe row is either held by a job or     *)
(* stands for content that did reach the channel: a failed send gives its  *)
(* reservation back (_release_dedupe).                                     *)
NoOrphanReservation ==
    Faults \cap {"crash", "timeout", "db"} = {} =>
        \A h \in Hashes : dedupe[h] # Never =>
            (\E s \in Slots : Holds(s, h)) \/ acked[h] = dedupe[h]

\* A decision that publishing has not caught up with, and the job that will.
Undone(p) == post[p].state \in {"approved", "scheduled"} /\ ~post[p].hasMessage

JobInTime(p) == \/ \E d \in Dues : queue[p][d] > 0 /\ d <= post[p].scheduledFor
                \/ \E s \in Slots : job[s].post = p /\ At(s, "loaded")

(* When Redis, the database and callbacks answer, no decision is lost: an  *)
(* approved or scheduled post that is not out has a publish job that will  *)
(* run in time, and a crash of the bot in a job does not lose it (decide). *)
DecidedHasJob ==
    Faults \cap {"enqueue", "callback", "timeout", "db"} = {} =>
        \A p \in Posts : Undone(p) => JobInTime(p)

(* A decision is carried out: an approved or scheduled post that is not    *)
(* out does not stay as it is (publish, SendRaises gives up at last).      *)
DecisionTakesEffect ==
    \A p \in Posts : Undone(p) ~> post[p].state \notin {"approved", "scheduled"}
-----------------------------------------------------------------------------
(* Why the reservation works: the strengthening of ReservationExclusive    *)
(* and NoRepeatInWindow that every step preserves. A job is at most one    *)
(* tick old, so a row it reserved cannot expire under it; the row of an    *)
(* acknowledged send stays until it has expired, so whoever reserves the   *)
(* same content does so outside the window.                                *)
JobsAreRecent == \A s \in Slots : Busy(s) => job[s].since <= now /\ now <= job[s].since + 1

RowsAreHeld ==
    \A s \in Slots, h \in Hashes :
        Holds(s, h) => dedupe[h] # Never /\ job[s].since <= dedupe[h]

HoldersDiffer ==
    \A s, t \in Slots, h \in Hashes : Holds(s, h) /\ Holds(t, h) => s = t

AckedRowStays ==
    \A h \in Hashes : acked[h] # Never =>
        dedupe[h] = acked[h] \/ now - acked[h] > Lookback

HoldersAreOutOfWindow ==
    \A s \in Slots, h \in Hashes :
        Holds(s, h) /\ ~At(s, "sent") /\ acked[h] # Never => now - acked[h] > Lookback

(* A job that is recording a send holds the row of that very send.         *)
SentIsAcked == \A s \in Slots, h \in Hashes : Holds(s, h) /\ At(s, "sent") => acked[h] = dedupe[h]

(* No row is from the future, so the window of a send is not longer.      *)
RowsAreRecent == \A h \in Hashes : dedupe[h] <= now

ReservationInv == /\ TypeOK
                  /\ JobsAreRecent
                  /\ RowsAreHeld
                  /\ HoldersDiffer
                  /\ AckedRowStays
                  /\ HoldersAreOutOfWindow
=============================================================================
