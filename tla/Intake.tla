------------------------------- MODULE Intake -------------------------------
(***************************************************************************)
(* The userbot: how messages of the source channels become rows of posts   *)
(* and normalize jobs (userbot/ingest.py, userbot/main.py). A boot         *)
(* re-enqueues orphans, fills the gap of each enabled channel and then     *)
(* registers the live handler, whose tasks run concurrently; the reloader  *)
(* keeps the channel map up to date.                                       *)
(***************************************************************************)
EXTENDS Naturals, FiniteSets

CONSTANTS
    Channels,       \* source channels
    NoChannel,
    MaxMessage,     \* bound of the message ids of a channel
    WithMedia,      \* messages that carry media to download
    FillLimit,      \* _BACKFILL_LIMIT
    OrphanBatch,    \* _ORPHAN_BATCH
    Faults          \* which of IntakeFaults may happen

IntakeFaults == {"crash",   \* the process ends, or is stopped
                 "flood",   \* flood control at a download and at its repetition
                 "error"}   \* a statement, a call of Telegram or an enqueue raises

Ids == 1 .. MaxMessage
Message == Channels \X Ids

ASSUME IntakeAssumption == /\ NoChannel \notin Channels
                           /\ MaxMessage \in Nat /\ FillLimit \in Nat /\ OrphanBatch \in Nat
                           /\ WithMedia \subseteq Message
                           /\ Faults \subseteq IntakeFaults

VARIABLES
    posted,     \* the newest message id of each channel in Telegram
    row,        \* posts: "none", "bare" (inserted) or "complete" (media recorded)
    queued,     \* messages for which normalize was enqueued
    decided,    \* posts that are no longer pending
    old,        \* pending posts received more than _ORPHAN_AGE_MINUTES ago
    enabled,    \* channels with ingestion_enabled
    phase,      \* how far the userbot has come since it started
    map,        \* channel_map
    todo,       \* channels the boot has yet to fill
    fill,       \* the backfill under way
    task,       \* what ingest_message is doing for a message
    heard,      \* history: messages the live handler has still to enqueue,
    excused,    \* messages passed over or given up, with a reason,
    stuck       \* old rows that waited for normalize at the boot

rows == <<posted, row, queued, decided, old, enabled>>
vars == <<rows, phase, map, todo, fill, task, heard, excused, stuck>>

Phases == {"down", "connected", "reconciled", "filling", "listening"}

\* A fill: the id it has reached, what is left of its limit, and the messages
\* that Telegram had when it began.
NoFill == [channel |-> NoChannel, at |-> 0, left |-> 0, upTo |-> 0]

Stages == {"none", "insert", "download", "enqueue"}

TypeOK == /\ posted \in [Channels -> 0 .. MaxMessage]
          /\ row \in [Message -> {"none", "bare", "complete"}]
          /\ queued \cup decided \cup old \subseteq {x \in Message : row[x] # "none"}
          /\ enabled \cup map \cup todo \subseteq Channels
          /\ phase \in Phases
          /\ fill \in [channel : Channels \cup {NoChannel}, at : 0 .. MaxMessage,
                       left : 0 .. FillLimit, upTo : 0 .. MaxMessage]
          /\ task \in [Message -> Stages]
          /\ heard \cup excused \cup stuck \subseteq Message
          /\ phase = "down" => map = {} /\ \A x \in Message : task[x] = "none"

Init == /\ posted = [c \in Channels |-> 0]
        /\ row = [x \in Message |-> "none"]
        /\ queued = {} /\ decided = {} /\ old = {}
        /\ enabled = Channels
        /\ phase = "down" /\ map = {} /\ todo = {} /\ fill = NoFill
        /\ task = [x \in Message |-> "none"]
        /\ heard = {} /\ excused = {} /\ stuck = {}

Stored(x) == row[x] # "none"
At(x, stage) == task[x] = stage
Goto(x, stage) == task' = [task EXCEPT ![x] = stage]

Unstored(c) == {x \in {c} \X (1 .. posted[c]) : ~Stored(x)}
-----------------------------------------------------------------------------
(* Telegram, the editors and the worker.                                   *)

\* A message appears; the live handler takes it if it is there and knows the
\* channel.
Post(c) ==
    LET x == <<c, posted[c] + 1>>
        listening == phase = "listening" /\ c \in map
    IN /\ posted[c] < MaxMessage
       /\ posted' = [posted EXCEPT ![c] = @ + 1]
       /\ IF listening THEN Goto(x, "insert") /\ heard' = heard \cup {x}
          ELSE UNCHANGED <<task, heard>>
       /\ excused' = IF phase = "filling" /\ c \in map /\ fill.channel # c
                    THEN excused \cup {x} ELSE excused
       /\ UNCHANGED <<row, queued, decided, old, enabled, phase, map, todo, fill, stuck>>

SetIngestion(c) == /\ enabled' = IF c \in enabled THEN enabled \ {c} ELSE enabled \cup {c}
                   /\ UNCHANGED <<posted, row, queued, decided, old, phase, map, todo, fill,
                                  task, heard, excused, stuck>>

\* Normalize, an editor or publishing: the post is no longer pending.
DecidePost(x) == /\ Stored(x) /\ x \notin decided
                 /\ decided' = decided \cup {x}
                 /\ old' = old \ {x}
                 /\ UNCHANGED <<posted, row, queued, enabled, phase, map, todo, fill,
                                task, heard, excused, stuck>>

GrowOld(x) == /\ Stored(x) /\ x \notin old \cup decided
              /\ old' = old \cup {x}
              /\ UNCHANGED <<posted, row, queued, decided, enabled, phase, map, todo, fill,
                             task, heard, excused, stuck>>
-----------------------------------------------------------------------------
(* The boot.                                                               *)

Start == /\ phase = "down"
         /\ phase' = "connected"
         /\ UNCHANGED <<rows, map, todo, fill, task, heard, excused, stuck>>

\* raw_media_refs are empty for a text and for media that were not recorded.
NoRefs(x) == row[x] = "bare" \/ (row[x] = "complete" /\ x \notin WithMedia)

\* (mutant) only rows whose second commit is missing are looked for
OrphanBare == {x \in old : row[x] = "bare"}

Orphans == {x \in old : NoRefs(x)}

\* reconcile_pending: the oldest of what looks like an orphan, up to the batch.
\* When it raises, some are enqueued; the boot goes on.
Reconcile ==
    /\ phase = "connected"
    /\ phase' = "reconciled"
    /\ \E found \in SUBSET Orphans :
          /\ Cardinality(found) <= OrphanBatch
          /\ Cardinality(found) = OrphanBatch \/ found = Orphans \/ "error" \in Faults
          /\ queued' = queued \cup found
          /\ stuck' = IF found = Orphans THEN old \ queued ELSE {}
    /\ UNCHANGED <<posted, row, decided, old, enabled, map, todo, fill, task, heard, excused>>

LoadChannels == /\ phase = "reconciled"
                /\ phase' = "filling"
                /\ todo' = enabled
                /\ UNCHANGED <<rows, map, fill, task, heard, excused, stuck>>

\* last_ingested_message_id
LastId(c) == LET ids == {m \in Ids : Stored(<<c, m>>)}
             IN IF ids = {} THEN 0 ELSE CHOOSE m \in ids : \A n \in ids : n <= m

\* resolve_entity may fail: the channel is left out of the map.
StartFill(c) ==
    /\ phase = "filling" /\ c \in todo /\ fill.channel = NoChannel
    /\ todo' = todo \ {c}
    /\ \/ /\ map' = map \cup {c}
          /\ fill' = [channel |-> c, at |-> LastId(c), left |-> FillLimit, upTo |-> posted[c]]
       \/ "error" \in Faults /\ UNCHANGED <<map, fill>>
    /\ UNCHANGED <<rows, phase, task, heard, excused, stuck>>

\* No message of the fill is being ingested.
Between(c) == fill.channel = c /\ c # NoChannel /\ \A m \in Ids : At(<<c, m>>, "none")

\* (mutant) the newest message first, as Telegram lists them
FillNewest ==
    LET c == fill.channel
        ids == {m \in fill.at + 1 .. fill.upTo : ~Stored(<<c, m>>)}
    IN /\ Between(c) /\ fill.left > 0 /\ ids # {}
       /\ Goto(<<c, CHOOSE m \in ids : \A n \in ids : n <= m>>, "insert")
       /\ fill' = [fill EXCEPT !.left = @ - 1, !.at = IF ids = {@ + 1} THEN fill.upTo ELSE @]
       /\ UNCHANGED <<rows, phase, map, todo, heard, excused, stuck>>

\* (mutant) no limit
FillUnlimited ==
    LET c == fill.channel IN
    /\ Between(c) /\ fill.at < posted[c]
    /\ Goto(<<c, fill.at + 1>>, "insert")
    /\ fill' = [fill EXCEPT !.at = @ + 1, !.left = @ - 1]
    /\ UNCHANGED <<rows, phase, map, todo, heard, excused, stuck>>

\* The oldest message not taken yet; one that appeared since may be listed too.
FillNext ==
    LET c == fill.channel IN
    /\ Between(c) /\ fill.left > 0 /\ fill.at < posted[c]
    /\ Goto(<<c, fill.at + 1>>, "insert")
    /\ fill' = [fill EXCEPT !.at = @ + 1, !.left = @ - 1]
    /\ UNCHANGED <<rows, phase, map, todo, heard, excused, stuck>>

\* The list is at its end or at its limit, or the listing raises.
FillEnds ==
    LET c == fill.channel IN
    /\ Between(c)
    /\ fill.left = 0 \/ fill.at >= fill.upTo \/ "error" \in Faults
    /\ fill' = NoFill
    /\ excused' = excused \cup {<<c, m>> : m \in fill.at + 1 .. posted[c]}
    /\ UNCHANGED <<rows, phase, map, todo, task, heard, stuck>>

Listen == /\ phase = "filling" /\ todo = {} /\ fill.channel = NoChannel
          /\ phase' = "listening"
          /\ UNCHANGED <<rows, map, todo, fill, task, heard, excused, stuck>>

\* _channel_reloader: what it adds is not filled.
Reload ==
    /\ phase = "listening"
    /\ \E failed \in SUBSET (enabled \ map) :
          /\ failed = {} \/ "error" \in Faults
          /\ map' = enabled \ failed
    /\ excused' = excused \cup UNION {Unstored(c) : c \in map' \ map}
    /\ UNCHANGED <<rows, phase, todo, fill, task, heard, stuck>>

\* Nothing is stored but the rows. A message whose task ends here is fetched by
\* the next boot unless a later one has already been stored.
Crash ==
    /\ "crash" \in Faults
    /\ phase # "down"
    /\ phase' = "down" /\ map' = {} /\ todo' = {} /\ fill' = NoFill
    /\ task' = [x \in Message |-> "none"]
    /\ excused' = excused \cup {x \in heard : ~At(x, "none") /\ ~Stored(x) /\ LastId(x[1]) > x[2]}
    /\ heard' = {} /\ stuck' = {}
    /\ UNCHANGED rows
-----------------------------------------------------------------------------
(* ingest_message, for a backfill or in a task of the live handler.        *)

\* The task ends without a normalize job.
Drop(x) == Goto(x, "none") /\ heard' = heard \ {x}

\* The unique constraint makes it idempotent: a row that is there ends it.
Insert(x) ==
    /\ At(x, "insert")
    /\ IF Stored(x)
       THEN Drop(x) /\ UNCHANGED row
       ELSE Goto(x, "download") /\ row' = [row EXCEPT ![x] = "bare"] /\ UNCHANGED heard
    /\ UNCHANGED <<posted, queued, decided, old, enabled, phase, map, todo, fill,
                   excused, stuck>>

\* (mutant) a message whose media could not be had is left as it is
CompleteIfMedia(x) ==
    /\ At(x, "download")
    /\ IF x \in WithMedia THEN Goto(x, "enqueue") /\ row' = [row EXCEPT ![x] = "complete"]
       ELSE Goto(x, "none") /\ UNCHANGED row
    /\ UNCHANGED <<posted, queued, decided, old, enabled, phase, map, todo, fill,
                   heard, excused, stuck>>

\* The media are in place, or there are none: the second commit.
Complete(x) ==
    /\ At(x, "download")
    /\ Goto(x, "enqueue")
    /\ row' = [row EXCEPT ![x] = "complete"]
    /\ UNCHANGED <<posted, queued, decided, old, enabled, phase, map, todo, fill,
                   heard, excused, stuck>>

EnqueueNormalize(x) ==
    /\ At(x, "enqueue")
    /\ Goto(x, "none")
    /\ queued' = queued \cup {x}
    /\ heard' = heard \ {x}
    /\ UNCHANGED <<posted, row, decided, old, enabled, phase, map, todo, fill,
                   excused, stuck>>

\* Flood control beyond the repetition in _download_media: the backfill skips
\* the message, the live handler waits and starts over.
FloodWait(x) ==
    /\ "flood" \in Faults
    /\ At(x, "download") /\ x \in WithMedia
    /\ IF fill.channel = x[1] THEN Drop(x) ELSE Goto(x, "insert") /\ UNCHANGED heard
    /\ excused' = excused \cup {x}
    /\ UNCHANGED <<rows, phase, map, todo, fill, stuck>>

\* Anything else that raises is logged. Without a row the message is behind
\* the newest id as soon as a later one is stored.
IngestRaises(x) ==
    /\ "error" \in Faults
    /\ ~At(x, "none")
    /\ Drop(x)
    /\ excused' = excused \cup {x}
    /\ UNCHANGED <<rows, phase, map, todo, fill, stuck>>

Ingest(x) == Insert(x) \/ Complete(x) \/ EnqueueNormalize(x)

BootStep == \/ Reconcile \/ LoadChannels \/ FillNext \/ FillEnds \/ Listen
            \/ \E c \in Channels : StartFill(c)

Next == \/ \E c \in Channels : Post(c) \/ SetIngestion(c)
        \/ Start \/ BootStep \/ Reload \/ Crash
        \/ \E x \in Message : \/ Ingest(x) \/ FloodWait(x) \/ IngestRaises(x)
                              \/ DecidePost(x) \/ GrowOld(x)

Spec == Init /\ [][Next]_vars

\* The userbot's event loop runs every task that can go on.
FairSpec == Spec /\ \A x \in Message : WF_vars(Ingest(x))
-----------------------------------------------------------------------------
\* A message that no backfill will ever list: it has no row and a later one has.
Hole(x) == /\ x[2] <= posted[x[1]] /\ ~Stored(x) /\ At(x, "none")
           /\ LastId(x[1]) > x[2]

(* A backfill goes from the newest stored id on, oldest first, so that an  *)
(* interruption leaves no hole behind: a message is passed over for good   *)
(* only if it appeared between the fill and the handler, was over the      *)
(* limit, belonged to a channel that the reloader added, or was in the     *)
(* hands of a task that raised, or ended with others (backfill).           *)
HolesAreExplained == \A x \in Message : Hole(x) => x \in excused

(* A boot that found all orphans leaves no old row without a normalize     *)
(* job, but for those whose media were recorded before the process ended   *)
(* (reconcile_pending).                                                    *)
OrphansAreFound ==
    phase \in {"reconciled", "filling", "listening"} =>
        \A x \in stuck \ queued : x \in WithMedia /\ row[x] = "complete"

(* A message that the live handler took gets its normalize job, unless     *)
(* flood control outlasted the repetition, a step raised or the process    *)
(* stopped: the retry that meets the row of the first try gives up only    *)
(* then (on_new_message, ingest_message).                                  *)
HeardIsQueued ==
    \A x \in Message : x \in heard ~> x \in queued \cup excused \/ phase = "down"
=============================================================================
