----------------------------- MODULE PostStore -----------------------------
(***************************************************************************)
(* What every service shares: the rows of the posts and published_dedupe   *)
(* tables (shared/models.py), the ARQ queue of publish jobs that the bot   *)
(* consumes (shared/tasks.py, apigo/enqueue.go) and the wall clock.        *)
(*                                                                         *)
(* A tick of the clock is longer than a publish job may run (job_timeout,  *)
(* bot/main.py), and the lookback window is at least two ticks: the code   *)
(* has 900 seconds and whole days.                                         *)
(***************************************************************************)
EXTENDS Naturals, FiniteSets

CONSTANTS
    Posts,          \* ids of rows of posts
    NoPost,         \* no post: what an idle slot has in hand
    Hashes,         \* values of dedupe_hash
    NoHash,         \* dedupe_hash IS NULL: normalize has not run for the row
    HashOf,         \* compute_dedupe_hash of the text and media of a post
    AutoPosts,      \* posts of channels with policy `auto'; the others have `queue'
    MaxTime,        \* bound of the clock
    DueTimes,       \* the instants an editor may schedule a post for
    Lookback,       \* dedupe_lookback_days, in ticks
    MaxQueued,      \* bound of the publish jobs waiting per post and due time
    Faults          \* which of FaultKinds may happen

FaultKinds == {"crash",      \* the bot process dies, or is stopped by a deploy
               "timeout",    \* a job is cancelled when it exceeds job_timeout
               "db",         \* a database statement raises
               "enqueue",    \* Redis refuses a job after the row is committed
               "callback",   \* a card's callback ends between commit and enqueue
               "telegram",   \* the Bot API raises, with or without delivery
               "worker",     \* the worker process stops with jobs in hand
               "normalize"}  \* a normalize job raises, or exceeds its job_timeout

Times == 1 .. MaxTime

\* A NULL timestamp, a missing row, and the due time of a job with no delay.
Never == 0

Dues == {Never} \cup DueTimes

ASSUME NoPostAssumption == NoPost \notin Posts
ASSUME NoHashAssumption == NoHash \notin Hashes
ASSUME ContentAssumption == /\ HashOf \in [Posts -> Hashes]
                            /\ AutoPosts \subseteq Posts
ASSUME TimeAssumption == /\ MaxTime \in Nat \ {0}
                         /\ DueTimes \subseteq Times
                         /\ Lookback \in Nat \ {0, 1}
ASSUME BoundAssumption == MaxQueued \in Nat \ {0}
ASSUME FaultAssumption == Faults \subseteq FaultKinds

VARIABLES
    post,       \* posts: one row per id, or a row that is not there
    dedupe,     \* published_dedupe: published_at by hash, Never if no row
    queue,      \* publish jobs waiting in Redis: a bag of <<post, due time>>
    now         \* the wall clock

storeVars == <<post, dedupe, queue, now>>

PostState == {"pending", "approved", "scheduled", "published", "rejected",
              "publishing", "publish_failed"}

PostRow == [state: PostState \cup {"absent"},
            hasMessage: BOOLEAN,                \* published_message_id
            hash: Hashes \cup {NoHash},         \* dedupe_hash
            scheduledFor: Times \cup {Never}]   \* scheduled_for

\* What is left of a row that was deleted with its channel.
NoRow == [state |-> "absent", hasMessage |-> FALSE, hash |-> NoHash,
          scheduledFor |-> Never]

StoreTypeOK == /\ post \in [Posts -> PostRow]
               /\ dedupe \in [Hashes -> Times \cup {Never}]
               /\ queue \in [Posts -> [Dues -> Nat]]
               /\ now \in Times

Exists(p) == post[p].state # "absent"

HasRoom(p, d) == queue[p][d] < MaxQueued

\* enqueue_publish: a job with a random id, so nothing merges two of them.
Enqueue(p, d) == queue' = [queue EXCEPT ![p][d] = @ + 1]

\* An enqueue that follows a commit, and may raise after it.
EnqueueAfterCommit(p, d) ==
    /\ HasRoom(p, d)
    /\ \/ Enqueue(p, d)
       \/ /\ "enqueue" \in Faults
          /\ UNCHANGED queue

\* (mutant) the window is a tick short
ExpiredEarly(h) == dedupe[h] # Never /\ now - dedupe[h] >= Lookback

\* The publication window of a reservation row (normalize, prune_dedupe).
Expired(h) == dedupe[h] # Never /\ now - dedupe[h] > Lookback
=============================================================================
