----------------------------- MODULE Decisions -----------------------------
(***************************************************************************)
(* What editors do to posts: the decision endpoints of the Go API          *)
(* (apigo/handlers_queue.go), the buttons of the draft cards               *)
(* (bot/handlers/callbacks.py) and the deletion of a source channel with   *)
(* its posts (apigo/handlers_channels.go). No decision looks at the state  *)
(* the post is in. The tags that a decision writes are part of Catalog.    *)
(***************************************************************************)
EXTENDS PostStore

CONSTANTS
    Channels,       \* ids of rows of source_channels
    ChannelOf       \* source_channel_id

ASSUME ChannelAssumption == ChannelOf \in [Posts -> Channels]

VARIABLE deleting   \* channels whose deletion has passed its check

DecisionsTypeOK == deleting \subseteq Channels

DecisionsInit == deleting = {}

\* POST approve: the row, then the job. A reader of the queue sees the two in
\* this order; the job may just as well be late, so one step stands for both.
Approve(p) == /\ Exists(p)
              /\ post' = [post EXCEPT ![p].state = "approved", ![p].scheduledFor = Never]
              /\ EnqueueAfterCommit(p, Never)
              /\ UNCHANGED <<dedupe, now, deleting>>

\* POST schedule: in the future, with a job that is due at that time.
Schedule(p, t) == /\ Exists(p)
                  /\ t > now
                  /\ post' = [post EXCEPT ![p].state = "scheduled", ![p].scheduledFor = t]
                  /\ EnqueueAfterCommit(p, t)
                  /\ UNCHANGED <<dedupe, now, deleting>>

Reject(p) == /\ Exists(p)
             /\ post' = [post EXCEPT ![p].state = "rejected"]
             /\ UNCHANGED <<dedupe, queue, now, deleting>>

\* The Approve button leaves scheduled_for alone, and its job is enqueued after
\* the callback is answered, which may raise (the callback is too old) or be the
\* last thing the bot does before it stops.
CbApprove(p) == /\ Exists(p)
                /\ post' = [post EXCEPT ![p].state = "approved"]
                /\ \/ EnqueueAfterCommit(p, Never)
                   \/ "callback" \in Faults /\ UNCHANGED queue
                /\ UNCHANGED <<dedupe, now, deleting>>

CbReject(p) == /\ Exists(p)
               /\ post' = [post EXCEPT ![p].state = "rejected"]
               /\ UNCHANGED <<dedupe, queue, now, deleting>>

PostsOf(c) == {p \in Posts : ChannelOf[p] = c}

\* DELETE channel counts the active posts ...
CheckChannelDeletable(c) ==
    /\ c \notin deleting
    /\ \E p \in PostsOf(c) : Exists(p)
    /\ \A p \in PostsOf(c) : post[p].state \in {"published", "rejected", "absent"}
    /\ deleting' = deleting \cup {c}
    /\ UNCHANGED storeVars

\* ... and deletes the row, whose posts go with it, in a second statement.
DeleteChannel(c) ==
    /\ c \in deleting
    /\ post' = [p \in Posts |-> IF p \in PostsOf(c) THEN NoRow ELSE post[p]]
    /\ deleting' = deleting \ {c}
    /\ UNCHANGED <<dedupe, queue, now>>

Decide(p) == \/ Approve(p) \/ Reject(p) \/ CbApprove(p) \/ CbReject(p)
             \/ \E t \in DueTimes : Schedule(p, t)

DecisionsNext == \/ \E p \in Posts : Decide(p)
                 \/ \E c \in Channels : CheckChannelDeletable(c) \/ DeleteChannel(c)
=============================================================================
