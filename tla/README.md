# Telegram-CMS: a specification of its services

Telegram-CMS copies posts from source channels of Telegram into one destination
channel. A userbot account reads the sources, a worker normalizes what it reads,
editors decide on drafts in a web front end or on cards in a Telegram group, and a
bot publishes. The services share one PostgreSQL database and one Redis with ARQ job
queues; nothing else connects them. This directory holds TLA+ modules that model
those services from their source, TLC configurations that check them on small
instances, and TLAPS proofs of what matters most for every instance.

The heart of it is the road of a post: from a message in a source channel to a row,
through normalize to a publish job or a draft card, past editors to the destination.
There the program can do lasting harm (a message never seen, a post forgotten, sent
twice, or sent after it was rejected), and there its steps interleave the most. Around
it are the parts that the road depends on: who may decide, the catalogue, the schema,
and whether anybody learns that the userbot has gone deaf.

## 1. Inventory

| Part | Source | State it keeps | Operations | In the model |
|---|---|---|---|---|
| Ingest (userbot) | `userbot/ingest.py` | `posts`, media files | insert, download, update, enqueue; reconcile_pending | `Intake` |
| Channel map and backfill (userbot) | `userbot/main.py` | channel map, newest stored id | backfill, live handler, reloader | `Intake` |
| Liveness (userbot) | `userbot/main.py`, `shared/health.py` | connection flags, failure count | probe, alert on an edge, health answer | `Watchdog` |
| Normalizer (worker) | `worker/normalize.py` | `posts` | normalize job, duplicate check, tags, route by policy | `Normalizer`; the tags in `Catalog` |
| Publisher (bot) | `bot/publisher.py`, `bot/main.py` | `posts`, `published_dedupe`, the job in hand, a process-wide send lock | publish job | `Publisher` |
| Draft cards (bot) | `bot/draft.py`, `cards.py`, `handlers/callbacks.py` | `draft_message_id`, a message in the group | post, redraw, press | `DraftCards` |
| Editor decisions | `apigo/handlers_queue.go`, `bot/handlers/callbacks.py` | `posts`, jobs | approve, schedule, reject, card buttons, edit tags | `Decisions`; the tags they write in `Catalog` |
| Housekeeping (worker) | `worker/reconcile.py`, `worker/main.py` | `published_dedupe`, audit, media files | reconcile_scheduled at boot, daily pruning | `Housekeeping` (audit and media left out) |
| Job queue | `shared/tasks.py`, `apigo/enqueue.go` | Redis | enqueue, deferred enqueue | `PostStore` |
| Catalogue | `apigo/handlers_channels.go`, `handlers_tags.go` | channels, tags, join table, `default_tag_ids` | create, update, delete | `Catalog`; deletion of posts with a channel in `Decisions` (templates left out) |
| Admins, sessions | `apigo/handlers_admins.go`, `auth_mw.go`, `handlers_auth.go`, `api/cli.py` | admins and roles, tokens in browsers | seed, create, change, log in, refresh | `Access` |
| Login rate limit | `apigo/ratelimit.go` | a Redis counter | count and refuse | `LoginLimit` |
| Migrations | `migrations/` | the schema, `alembic_version` | upgrade, downgrade | `SchemaObjects`, `Migrations`, `Schema` |
| Content rules | `shared/dedupe.py`, `normalize.py`, `transform.py` | none | fingerprint, rendering, language model, route | the route in `Normalizer`, the fingerprint as the constant `HashOf` |
| Legacy FastAPI service | `api/` | the same tables | the same requests | `cli.py` only (`Access`, `Schema`); the handlers are those of the Go service: section 7 |
| Fleet update, alerts and commands, audit and metrics, web, installation | `fleet/`, `bot/alerts.py`, `apigo/handlers_audit.go`, `web/`, `install.sh` | - | - | not modelled: section 7 |

**How the parts meet.** Ingest inserts a `pending` row and enqueues `normalize`.
Normalize sets the text, the tags and `dedupe_hash`, rejects a duplicate, and
enqueues a publish job (policy `auto`) or a draft card (`queue`). An editor's
decision writes the row, commits, and then enqueues. The publish job writes
`publishing`, takes a reservation row in `published_dedupe`, sends, records the
message id and redraws the card. The daily job deletes reservations older than the
lookback window. No row is locked by design: every service reads, thinks and writes
in separate transactions, and the locks that PostgreSQL takes by itself last one of
them.

**What is hard.** Read-then-write without locks, by several jobs and by editors at
once; a commit followed by an enqueue that may fail; a process that stops, or a job
that is cancelled, between two commits; a send whose answer is lost or which went
out in part; jobs that outlive the decision they were enqueued for; a window of time
that has to mean the same to the job that reserves and the job that prunes; texts
made from a row and shown later; two copies of one fact in two tables.

## 2. Modules

    PostStore        tables, queue and clock that publishing and normalize share
      Publisher      the publish job in its slots
      Decisions      editors, channel deletion
      Housekeeping   the worker's boot and daily jobs
      Normalizer     the normalize job in the worker's slots
    Publishing       EXTENDS the first four; Init, Next, fairness, the properties
      OncePerWindow       abstract specification, INSTANCEd by Publishing
      PublishingClaims    what the documentation says and the code does not keep
    Pipeline         EXTENDS Publishing and Normalizer: from a bare row to the channel
    Intake           the userbot: boot, backfill, live handler, ingest
    DraftCards       the card of a post between its job, its buttons and publishing
    Watchdog         the userbot's view of its own session
    Catalog          channels, tags, links and the tags of posts under concurrent requests
    LoginLimit
      Access         EXTENDS LoginLimit: logins, tokens, roles, changes of admins
    SchemaObjects    what DDL statements do to a schema
      Migrations     the seven revisions, up and down
        Schema       migrations in transactions, beside services that write

    MCPublishing, MCPipeline, MCIntake, ...    instances for TLC

    PublishingProofs        types, the reservation invariant; Publishing implements OncePerWindow
      OutcomeProofs         no decision lost, no reservation orphaned, no recorded post resent
        PipelineProofs      the same promises with the normalizer beside; pending
                            posts, duplicates, nothing unapproved
    IntakeProofs, DraftCardsProofs, WatchdogProofs, CatalogProofs, AccessProofs
                            the safety properties of the module each is named after

### Publishing (`PostStore`, `Publisher`, `Decisions`, `Housekeeping`)

| Variable | Code |
|---|---|
| `post[p]` | the row of `posts`: `state`, whether `published_message_id` is set, `dedupe_hash`, `scheduled_for`; state `absent` after the row is deleted |
| `dedupe[h]` | the row of `published_dedupe`: its `published_at`, or `Never` |
| `queue[p][d]` | publish jobs for `p` in Redis that are due at `d` (`Never`: at once). ARQ job ids are random, so equal jobs pile up: a bag |
| `now` | the clock. One tick is longer than `job_timeout` (900 s); the window is at least two ticks, in the code seven days |
| `job[s]` | one slot of the bot's worker: the point the job has reached, its post, the hash it read, the tick it began in |
| `deleting` | channels whose deletion has counted the posts but not deleted the row |
| `sends[p]`, `acked[h]` | history for the properties only: how often `p` showed up in the channel (to two), and the reservation under which content was last acknowledged |

A job can be interrupted exactly where it awaits, so an action runs from one await
to the next at which shared state was read or written.

| Action | `bot/publisher.py` |
|---|---|
| `Skip`, `Load` | the job starts; `SELECT`, and the early returns on state and message id |
| `Claim` | `state = publishing`, commit. The `UPDATE` names the row only, so it overwrites what was committed since the `SELECT` |
| `ChannelMissing`, `CheckDedupe` | the channel's row, then `_dedupe_exists` |
| `Reserve`, `MarkDuplicate` | `_reserve_dedupe` (`ON CONFLICT DO NOTHING`), `_mark_duplicate` |
| `AcquireSendLock` | `_send_lock`: held through the pause, the send and its one repetition after flood control |
| `SendSucceeds`, `SendRaises` | `_send_post` returns; raises or returns nothing, with or without something delivered |
| `Release` | `_release_dedupe` after a failed send |
| `MarkPublished` | `_mark_published`. For a post with a hash it hands an `INSERT` statement to `session.add`, which raises before the commit; the constant `AddAcceptsInsert` says whether it does |
| `EditDraftCard` | the card is edited, the job ends (what the edit shows is in `DraftCards`) |
| `RecordFailure` | `_on_publish_failure`: `publish_failed`, and the exception goes to ARQ |
| `StatementRaises` | any database statement of the job raises |
| `JobTimesOut` | ARQ cancels the job: `CancelledError` passes every `except Exception` |
| `BotCrashes` | the process ends with jobs in hand; ARQ keeps those queued, so they start over |

`MayRunAgain` leaves open whether ARQ runs a job again that raised or was cancelled:
that is the library's, and no property relies on it.

`AddAcceptsInsert = FALSE` is the code as it stands. The run `faults` takes TRUE: there
the rest of `_mark_published` and what follows it is reached for posts with a hash.
The proofs hold for both values.

`Faults` names what may go wrong in an instance: `crash`, `timeout`, `db` (a statement
raises), `enqueue` (the row is committed and Redis refuses the job, or the service
stops between the two), `callback` (the same for the Approve button, whose job is
enqueued after Telegram was answered), `telegram`, `worker` and `normalize` (the
worker stops; a normalize job raises).

`Approve`, `Schedule`, `Reject` are the branches of `decide`; `CbApprove` and
`CbReject` the buttons. None of them looks at the state it overwrites, and neither
does the model. A row and the job that follows it are one step: between the two,
other services see a row whose job has not come up yet, which is also what they see
while the job waits in the queue; that the job never comes is the fault `enqueue` or
`callback`. `CheckChannelDeletable` and `DeleteChannel` are the two statements of
`handleDeleteChannel`. `ReconcileScheduled` is the worker's boot, its batch size
left out; `PruneDedupe` is the one `DELETE` of `_prune_dedupe_rows`.

`Init` of `Publishing` is the state after normalize: posts `pending`, those in
`Normalized` with their hash, those of them in `AutoPosts` with a publish job.

### Pipeline (`Normalizer`, `Pipeline`)

`normQueue` holds the normalize jobs, `work[w]` what each slot of the worker is doing,
`drafted` the posts whose `post_draft` was enqueued; `dropped`, `duplicates` and
`cleared` are history, the last one the earliest instant from which an editor has let a
post of a `queue` channel out: at once by an approval, from the scheduled time on
otherwise.

A job reads row and channel (`StartNormalize`), waits for the language model, writes
the hash and perhaps `rejected` (`FinishNormalize`), and enqueues what follows
(`Route`). The flush that locks the row, the duplicate check and the commit are one
step. The tags that the same step writes are in `Catalog`: nothing that happens to a
post on its way looks at them. Whether the language model answered, and what, changes
the text only. `WorkerStops` puts the jobs in hand
back (`retry_jobs`); `NormalizeRaises` leaves open whether ARQ runs the job again.
`ReconcilePending` is what the boot of the userbot does to this queue: every pending
post without media is enqueued again, normalized or not.

`Pipeline` starts with bare rows. A step is one of `Publishing` or one of
`Normalizer`; the hash that `Publishing` takes as given is now written beside it. The
policy of a channel is the constant `AutoPosts`: a channel that changes its policy
while a post is on its way is left out.

### Intake

`row[x]` is `none`, `bare` (the first commit) or `complete` (media recorded, the second
commit); `queued`, `decided` and `old` say what happened to it since. `phase`, `map`,
`todo` and `fill` are the boot, `task[x]` is `ingest_message` for a message, which the
backfill runs one at a time and the live handler concurrently. `heard`, `excused` and
`stuck` are history.

`Reconcile`, `LoadChannels`, `StartFill`, `FillNext`, `FillEnds` and `Listen` follow
`run`; the messages a fill may list are those that were there when it began, perhaps
newer ones too. `Reload` is the reloader: it adds channels without filling their gap.
`Insert` is the first transaction, whose unique constraint ends a task that comes
second; `Complete` the download and the second; `FloodWait` flood control that
outlasts the repetition in `_download_media`; `IngestRaises` everything else that the
callers log. `Post`, `SetIngestion`, `DecidePost` and `GrowOld` are Telegram, editors,
the later services and time. Telethon's own recovery of a gap while it is connected is
taken for granted.

### DraftCards

The card of one post. `task[a]` is what the bot's job slot and each callback are doing:
each of them makes a text from the row (`Draw`, under the message id the row then
has) and hands it to Telegram later (`SendCard`, `EditCard`). `shown` is what each
card in the group tells. `WebDecides` and `PublishOutcome` change the row and redraw
nothing; only a publication is redrawn (`Reload`). A publish job is its claim and its
outcome, the rest is in `Publisher`; `scheduled` is to a card what `approved` is.
`excuses` says why a card may differ from its row: a `silent` change, a redraw that
was `lost`, or one that was in flight together with another (`overlap`).

### Watchdog

`link` is what Telegram would say to a probe, `connected`, `authorized`, `age` and
`failures` are what `_watchdog` made of the last ones, `was` is `was_healthy`. A unit
of time is its interval. `Fresh` is what a start leaves: the health check answers from
then on, the watchdog runs when the backfills are done, up to `LongestFill` later.
`Probe` is a cycle, with `ProbeResult` and `Edge`; `ProbeFatal` a revoked session, on
which the process stops. A `disconnected` or `raising` probe touches the flags that
the branches of the code touch, no others.

### Catalog

Each request is a transaction of several statements, and `locks[r]` are the row locks
it holds until it ends. `Needs` says which rows the next statement of a request locks,
`Conflict` which locks exclude each other (a foreign key takes a share of the row it
refers to), `DeadlockVictim` that PostgreSQL ends one of two that wait for each other.
`WriteChannel`, `DeleteLinks`, `SelectTags`, `InsertLink` are `handleUpdateChannel` with
`setDefaultTagLinks`: the row first, then its links, which is the order the Go service
has (the FastAPI one flushes the row after the `DELETE` of the links: section 7).
`StripPosts`, `DeleteTag`, `CascadeLinks` are `handleDeleteTag`.

The tags of a post have three writers. `WriteList` is an edit, or a decision that brings a
list. `StartDecide` and `WriteBack` are a decision that brings none: it writes back what
it has loaded. `StartNormalize`, `LoadPolicy` and `WriteNormalized` are the normalize job:
it loads the post's list, then the channel with its policy (either one: `PATCH` writes
it at any time), waits, and writes the defaults or an empty list, but only if that differs
from what it loaded, since SQLAlchemy writes no column that is as it was. What each of
them loaded is kept as it was (`seen`, `tags`), so a list loaded and one set afterwards
are told apart; a list is a set. `given[p]` is history: the last list that a request
brought, until one of those who may replace it has written.

### Access (`LoginLimit`, `Access`)

`count` and `expires` are the Redis counter of one address; `Incr` and `Expire` are two
calls, either of which may fail. Above the limit the counter is not told apart.
`Login` follows, and `session` are the admins who hold a token that has not run out. The
role written into a token is left out: `requireRole` and every handler look at the row. A
request that changes an admin goes through `Accept` (the token names the actor, the row
has the role), `LoadAdmin`, `CheckLastSuperAdmin` and `UpdateAdmin`, or `CreateAdmin`;
others run between. `overtaken` marks the requests whose loaded row was changed by
another request since, or who had counted a super-admin whom another request took away
(`Overtakes`). A demotion of a super-admin who is disabled is refused too while one
active one is left, and a role equal to the loaded one is not written, though somebody
may have changed it meanwhile: both as in the handler.

### Schema (`SchemaObjects`, `Migrations`, `Schema`)

A schema is a set of objects: tables, columns, keys, indexes, foreign keys, enum types
and their values. `SchemaObjects` says what `CREATE`, `DROP` and `ALTER TYPE` do to
such a set, what they drop along with an object and when they raise (`Obstacles`).
`Migrations` lists the statements of the seven revisions, up and down. In `Schema` a
migration is one transaction (`Begin`, `Run` per statement, `Commit`, `Rollback`);
between migrations the services insert hashes as far as the keys of the moment let
them (`WriteRow`). Types, defaults and nullability of columns are left out.

### Mutants

A few definitions carry the comment `(mutant)`. Each is a plausible mistake in the
definition that follows it, and no specification uses it; putting it in that
definition's place makes a property fail, which `PROJECT.json` records.

## 3. Properties

| Property | Says | Run | Proof |
|---|---|---|---|
| `ReservationExclusive` | a job between reserving and recording has its row and is alone with it | faults | `ReservationIsExclusive`, `PipelineReservation` |
| `NoRepeatInWindow` | acknowledged content is not being sent again within the window | window, pipeline | `NoRepeatWithinLookback`, `PipelineNoRepeat` |
| `SendsOncePerWindow` | the jobs implement `OncePerWindow` | window | `JobsSendOncePerWindow`, `PipelineSendsOncePerWindow` |
| `NoResendAfterRecord` | a post whose message id is recorded is not sent again, even by a job that read the row before | faults, window, pipeline | `RecordedIsNotResent`, `PipelineNoResend` |
| `NoOrphanReservation` | unless a job is interrupted, a reservation is held or stands for content that went out | window | `NoReservationIsOrphaned`, `PipelineLeavesNoOrphan` |
| `DecidedHasJob` | with Redis, the database and callbacks answering, each approved or scheduled post that is not out has a job in time | decisions | `NoDecisionIsLost`, `PipelineLosesNoDecision` |
| `DecisionTakesEffect` | such a post does not stay as it is | decisions | liveness |
| `PendingIsOnItsWay` | a pending post has a normalize job, a publish job or its draft, unless its normalize job raised | pipeline | `NoPostIsForgotten` |
| `DuplicateOfSomething` | what is rejected as a duplicate has its content in the channel or in a job's hands | pipeline | `DuplicatesAreDuplicates` |
| `NothingUnapprovedGoesOut` | a post of a `queue` channel shows up in the destination only after an editor approved it, or from the earliest time one scheduled it for | pipeline | `NothingUnapprovedIsSent` |
| `HolesAreExplained` | a message that no backfill will list has one of five reasons | intake | `NoHoleUnexplained` |
| `OrphansAreFound` | after a boot that found all orphans, an old row without a job is one whose media were recorded | intake | `OrphansGetJobs` |
| `HeardIsQueued` | a message the live handler took gets its job, unless flood control, an error or a stop came in between | intake | liveness |
| `OneCard` | a second card needs a first whose id was not stored | cards | `NoSecondCard` |
| `CardTellsTheRow` | with nobody at work the card tells the state of the row, but for three excuses | cards | `TheCardTellsTheRow` |
| `DraftAppears` | a draft that is due appears, through stops and decisions, unless Telegram refuses it | cards | liveness |
| `EditorsAreTold` | the last alert is what the watchdog knows | watchdog | `TheEditorsAreTold` |
| `BadIsNoticed`, `GoodIsNoticed` | a session that stays bad, or good, is known for it within the probes' intervals | watchdog | `TheBadIsNoticed`, `TheGoodIsNoticed` |
| `LinksMirrorDefaults` | the join table says what `default_tag_ids` says, for tags there are | catalog | `TheTablesAgree` |
| `StaleTagsCameLate` | a post names a deleted tag only if it was given it after the deletion went through the posts | catalog | `DeletionReachesThePosts` |
| `PostsKeepGivenTags` | a post has the tags of the last list brought for it, less the deleted ones, but for three named writers | catalog | `GivenTagsAreKept` |
| `RequestsEnd` | every request is answered, also when two wait for each other | catalog | liveness |
| `LastSuperAdminStays` | the last active super-admin is lost only to a request whose loaded row, or whose count, another one changed since | access | `LastSuperAdminIsKept` |
| `NoEndlessBlock` | a counter without expiry waits for the attempt that sets it, or that attempt ended without | access | `LockedOutForAWhile` |
| `StatementsExecute` | no statement of a migration meets an object or a row that makes it raise | schema | model-checked |
| `SchemaFollowsRevision` | a downgrade undoes its upgrade | schema | model-checked |
| `HeadServesTheModels` | head has the columns, keys and enum values that the mapped classes name | schema | model-checked |
| `TypeOK`, `PipelineTypeOK` | types, one per module | all but window and decisions | `TypeCorrect`, `PipelineTypes`, `IntakeTypes`, `CardsTypes`, `WatchdogTypes`, `CatalogTypes`, `AccessTypes`; `Schema`'s model-checked |

Several of these state an exception, and the exception is the finding. The five ways to
pass a message over for good (`HolesAreExplained`) are: it appeared between the fill of
its channel and the handler; it was over the limit, or the listing raised; its channel
was added by the reloader; its task raised; the process stopped while a later message
was already stored. A card stays wrong after a decision in the web, a failed
publication or one that found a duplicate, after a refused redraw, and after two
redraws at once. Two requests that each demote the other of two super-admins do leave
none. An editor's list of tags is lost to a normalize job of an `auto` channel, to one
that was started again after a list had been brought (it writes an empty list where it
loaded one), and to a decision without a list that had loaded an earlier one. The notes
under `hazards` in `PROJECT.json` say of each hazard whether a property excludes it,
has it as an exception, or leaves it alone.

`DuplicateOfSomething` takes a post's own content for an original: a job that meets the
reservation of its own post rejects it as a duplicate of itself, which is not excluded.
`NoRepeatInWindow` and `SendsOncePerWindow` speak of acknowledged sends: one whose answer
was lost may be repeated. `NothingUnapprovedGoesOut` does not hold a post back until the
last time it was scheduled for: a job of an earlier approval sends it at once.

`NoResendAfterRecord` has a condition that the code needs: the post has a hash, or
the bot runs one job at a time. An editor can approve a post that normalize has not
reached. Such a post has no hash and takes no reservation, and two concurrent jobs
would both send it. With the normalizer beside it the hash is not condition enough:
one job may begin before the hash is written and one after it, and only the second
takes a reservation, so neither knows of the other. TLC finds that with two slots in
`Pipeline`; `PipelineNoResend` and the run `pipeline` therefore have one. What a
reservation promises to a content, for any number of slots, is not touched by this
(`PipelineSendsOncePerWindow`): the post went out once with a reservation and once
without.

`OncePerWindow` is what an editor may rely on: at any time at most one sender tries
to send a content, and none starts while an acknowledged send of it is within the
window. A try may end without an answer at any time; so crashes, cancelled jobs and
failed sends all map to `GiveUp`. The refinement mapping takes `senders[h]` to the
slots that hold the reservation of `h` and have not been answered. What follows from
it for whatever implements it: two acknowledged sends of one content belong to
reservations that are a window apart (`AcknowledgedSendsAreApart`).

## 4. Runs

| Run | Instance | Why these bounds |
|---|---|---|
| `faults` | 2 posts of one content, 2 slots, all faults of publishing, one tick | two jobs race for one row, and each may be interrupted anywhere; a third adds only another loser |
| `window` | 2 posts, one without a hash, 1 slot, 4 ticks, window 2, sends and enqueues that fail | a reservation made at 1 expires at 4: the first instant it may be pruned, and the last at which it may not, are both there |
| `decisions` | 1 post, 2 slots, 2 ticks, due time 2, up to 2 equal jobs, restarts, failing sends, fairness | decided again while a job is queued, loaded or sending; jobs of different decisions for one post |
| `pipeline` | 757,737 states: 2 posts of one content, one of an `auto` channel without media, one of a `queue` channel; 1 slot of the bot, 1 of the worker, one normalize job waiting beside the one in hand | each post goes through normalize and publishing while the other does, and may be decided, sent or rejected before it is normalized; normalize runs again over every later state. No times are scheduled and the bot does not stop, so for left-over, deferred and restarted publish jobs it is the theorems that speak |
| `intake` | 1 channel, 3 messages (the second with media), a fill of 2, a batch of 2 orphans; stops, flood control, errors | a gap longer than the limit, three orphans of which the batch takes two, three live messages at once; channels share nothing but the order of the boot |
| `cards` | 1 post, the bot's slot, 2 callbacks, 2 cards, 1 stop, a job of each kind waiting | three texts in flight for one card; the stop between sending and storing, with the second card after it |
| `watchdog` | backfills up to 4 intervals, ages up to 12 | longer than the stale threshold (3) and the longest backoff (10) |
| `catalog` | 511,392 states: 1 channel, 1 post, 2 tags, 2 requests or normalize jobs, which bring the empty list or both tags (`Lists`) | two transactions deadlock; one link or tag of another remains while the first is deleted; a list is brought while another writer has loaded the one before |
| `access` | 1,541,749 states: 2 admins, 2 requests, 4 bodies, one client at a time with one attempt per window; requests symmetric | both admins are super-admins when two requests demote them; the counter is set, over its limit, and without an expiry |
| `schema` | 1 hash, 7 revisions | up and down from every revision, with two rows of one hash where the keys allow it |
| `rejected_claimed`, `sent_failed` | 1 post, 1 slot, no faults | each refutes one sentence of the documentation |

Counters that would grow for ever are bounded in the guards: `MaxTime`, `MaxQueued` and
`MaxNormalize` (jobs that wait; a decision or an enqueue waits for room, which in the
proofs is any bound), `SendBound` (sends are counted to two), `MaxMessage`, `Horizon`,
`MaxCards`, `MaxStops`, `MaxRows`. In `DraftCards` a further job of a kind that already
waits is not counted. Deadlock is not checked where an instance ends because its clock
or its messages have reached their bound (publishing, pipeline, intake); it is in the
others.

### Fairness

`decisions` assumes: a job that can go on does (one event loop runs all of them, and
every await of a database, Redis or Telegram call returns or raises); a job that waits
for the send lock gets it (`asyncio.Lock` serves its waiters in order: strong, because
the lock is released between); a due job is taken up some time (ARQ orders them by due
time: strong, because slots come and go); time passes; and the bot does not crash for
ever. No fairness is assumed of editors, retries, the worker's boot or of Telegram's
success: a send ends, one way or the other.

`intake` assumes that a task of the userbot that can go on does: nothing of Telegram,
of the boot or of the faults. `cards` assumes the same of the bot's slot, and that it
takes a draft job in its turn (strong: publish jobs and callbacks come between); its
stops are bounded. `catalog` assumes that the server works on every request and that
PostgreSQL hands a lock to whoever has waited longest, or ends one of two that wait for
each other after its timeout (strong: a lock is free in between).

### What the documentation says and the code does not do

The first two are runs that TLC refutes, listed under `findings` in `PROJECT.json`. The
others show as exceptions in properties or conditions of the modules.

1. `docs/ARCHITECTURE.md:217` calls `rejected` terminal. A job that selected the row
   before the rejection commits `publishing` over it and sends the post.
2. `docs/ARCHITECTURE.md:268` lets `_mark_published` complete after a send. For every
   post with a hash it raises: the post is out, the row says `publish_failed`. The
   reservation is what then keeps it from being sent again.
3. `docs/ARCHITECTURE.md:223` calls `publishing` short-lived. When the bot stops there,
   the job that starts over finds the state in `_SKIP_STATES` and ends; nothing else
   picks the post up.
4. `docs/ARCHITECTURE.md:264` promises that a post is never sent more than once. A
   flood-control answer to the second message of an album repeats all of it, and a lost
   answer releases the reservation for the next try.
5. `docs/api/queue.md:33` has a scheduled post wait for its time. A job left from an
   earlier approval publishes it at once: the job does not look at `scheduled_for`.
6. `docs/ARCHITECTURE.md:25` fills a gap with the most recent messages; `backfill` takes
   the oldest, and leaves the rest of a longer gap out for good (`HolesAreExplained`).
7. `userbot/ingest.py:175` means `reconcile_pending` to find what a stop "between the
   initial INSERT and the subsequent UPDATE + enqueue" left. After the update and before
   the enqueue, a post with media has its refs and is not found (`OrphansAreFound`).
8. `docs/api/admins.md:198-202` says that the server "rejects requests that would leave
   the system with no active super_admin". The count and the `UPDATE` are two statements
   without a lock: two requests at once can leave none (`LastSuperAdminStays`).
9. `docs/api/tags.md:213` says of `DELETE`: "Deletes a tag and cleans up all
   references to it". `default_tag_ids` keeps the id (`LinksMirrorDefaults` compares for
   tags there are), normalize goes on giving such defaults to new posts, and a list loaded
   before the deletion may come back after it (`StaleTagsCameLate`).

## 5. Proofs

Every safety property of the runs is proved but those of `Schema`. The theorems hold for
any sets of posts, contents, channels, tags, due times, callbacks, admins and requests,
any finite numbers of slots and workers, any window of at least two ticks, both values of
`AddAcceptsInsert`, any lists of tags, any
bounds on waiting jobs, messages, cards and stops, and every combination of faults (but
those a property itself excludes). They rest on the named `ASSUME`s of the modules
(`NoHash`, `NoPost`, `None` are not a hash, a post, a row or a list; slots and workers
are finite, which counts the jobs a restart puts back; admins are, which counts
super-admins; the window is two ticks or more) and on how `Tick` relates the clock to
`job_timeout`. The runs that state fairness refine the specifications the theorems are
about.

**The reservation invariant** (`ReservationInv`, `PublishingProofs`). Neither
`ReservationExclusive` nor `NoRepeatInWindow` is inductive. Exclusiveness fails if a
row can disappear under the job that holds it, which is a matter of time: pruning
deletes by age. So the invariant says that a job is at most a tick old
(`JobsAreRecent`) and that its row is not older than the job (`RowsAreHeld`); hence a
held row is inside a window of two ticks and `PruneDedupe` leaves it
(`HeldRowIsFresh`). The window property needs to know why a row was absent when a job
reserved: `AckedRowStays` says that the row of the last acknowledged send is still
there unless its window is over, and `HoldersAreOutOfWindow` carries that to the send.
`Release` is the step to look at: it deletes a row, and keeps `AckedRowStays` because
the job that releases was out of the window of every earlier acknowledgement. One
lemma per step that touches rows or acknowledgements; `QuietStep` covers the others.

**Refinement** (`PublishingProofs`, its last part). `Reserve` is `Start`: the row was absent, so by
`RowsAreHeld` nobody sends and by `AckedRowStays` the window is over. `SendSucceeds` is
`Acknowledge`, with the time of the row; that this is at most a tick ago needs one more
invariant, `RowsAreRecent`. Every other step gives tries up or changes nothing
(`GivenUp`). What the abstract specification is good for is proved from it alone:
whoever tries does so outside the window of the last acknowledgement (`PromiseInv`), so
the next acknowledgement is a window later.

**Outcomes** (`OutcomeProofs`). `DecidedHasJob` is inductive with the types: a job leaves
the queue into a slot or for a post that is settled, and a decision brings a job of its
own. `NoOrphanReservation` needs `SentIsAcked`: a job that records a send holds the row
of that very send, so when it lets go the row stands for delivered content.
`NoResendAfterRecord` is an action property, and a job that read the row before the
record is what it is about. `RecordInv` says that such a job is at most a tick younger
than the reservation of the recorded send (`RecordedInTime`), and a job ends within a
tick; so the window of two ticks keeps it from sending (`HoldersAreOutOfWindow`), the hash
in its hand being that of the row (`HashIsOfRow`). With one slot there is no such job
(`AloneUnrecorded`), which is the condition under which posts without a hash are covered.

**With the normalizer** (`PipelineProofs`). Most of what is proved of `Publishing` has to
be proved again here, because `Publishing` takes the hashes of its posts as given and the
worker writes them while jobs run. A step of `Normalizer` changes neither
`dedupe`, `job` nor `now`: what `ReservationInv` says survives it because a job carries
the hash it read, whatever becomes of the row's. So `PipelineInv` is `ReservationInv`
with the normalizer's types, and one fact: whoever works has a post (`WorkHasPost`).

`NormalizerBeside` is what the composed proofs share: a step of the normalizer changes no
job in hand, no reservation, no acknowledgement and no time, takes no publish job off the
queue, adds one for auto posts only, and at most rejects a row. So it is a stuttering step
of `OncePerWindow`, and the invariants of the outcomes survive it (`PipelineOutcomes`);
`DecidedHasJob` too, since a rejected row has no decision left to carry out.
`RecordInv` does not survive, since it says that the hash in a job's hand is the row's.
With one slot `AloneUnrecorded` is enough, as a job in hand is then the only one there is.

**Nothing unapproved goes out** (`PipelineProofs`). What a `queue` post's `sends` are to be
traced back to is a decision, perhaps several jobs ago: a crash puts jobs back, a failed
one may run again, the worker's boot enqueues what is overdue. `ClearedInv` bounds every
such trace by `cleared` and the clock: it lies behind once a job has the post in hand, the
row is approved or the post was sent (`Going`); a scheduled row says no earlier time, and
a queued job is due no earlier, unless it lies behind already. A decision moves `cleared`
with the row and the job. For everything else `GoesWhenDue` says where a new trace comes
from: a job that starts was due, a job that is queued anew was there, or is in hand, or is
that of a scheduled row whose time has passed (the worker's boot), and `Route` adds
publish jobs for auto posts only.

**No post is forgotten** (`PipelineProofs`). `PendingInv` says that every pending post,
unless its normalize job raised, has a normalize job queued or in hand (`NormalizeOwed`)
or what comes after it (`Routed`). Normalize hands over in one step, so its own steps
keep this easily; the danger is publishing, which could consume the publish job of an
auto post and leave it pending. It does not, since a job past its start has claimed its
row (`PendingIsUntouched`): no job beyond `loaded` has a pending post, and one that is
loaded or queued survives a crash by `retry_jobs`. `Calm` leaves out cancelled jobs and
failing statements, which may end a job before its claim. That matters to auto posts only
(`Owed`): the post of a `queue` channel is owed a card, which no failing publish job takes
away, and no step of publishing makes a row pending again (`PublishingRows`).

**Duplicates** (`PipelineProofs`). A post is rejected because the dedupe table had a row,
and that row may be gone by the time anyone looks. `KnownInv` says that where nothing
fails a row stands for content that is *known*: acknowledged, or in the hands of a job
that holds the reservation; and what is known stays known (`KnownGoesOn`), because a
reservation is only let go of by a job that has sent, which `SentIsAcked` of the outcomes
takes to an acknowledgement.

**Intake** (`IntakeProofs`). The type invariant alone is not inductive: the next fill
starts at the newest stored id, which is an id only because a nonempty set of ids has a
greatest one (`NewestId`, from well-foundedness, since nothing else in the library gives a
maximum), and a fill lists messages that were there when it began (`FillInTime`).
`HolesAreExplained` is about messages that nobody will list any more. The invariant
speaks of those that still *wait*: nothing newer of their channel has been reached
(`NoneBehind`), and in a mapped channel they are what its fill has yet to reach
(`NoneLeft`). A step that reaches a message past a waiting one must therefore excuse it:
a fill goes in order, the live handler excuses what the fill has not listed, a stop what a
stored message hides. `BootInOrder` and `FillLeads` say where the boot is.

**Draft cards** (`DraftCardsProofs`). Cards are sent by the one slot and for a row
without a stored id, so `Counts` has their number exactly: the slips, and one more if an
id is stored or about to be. `CardTellsTheRow` speaks of moments when nobody works. `Truth`
says what holds meanwhile while no excuse has come up: at most one actor has a text in
hand, made from the row as it is, for the card that is stored.

**Watchdog** (`WatchdogProofs`). The bounds come from clocks that run together. While the
session is bad `lasted <= age`, and the next probe of a session last seen healthy comes
before `age` is past five (`BadInv`, with `SoonestProbe` for the backoff the failures have
reached); while it is good, it was probed since or will be before `MaxBackoff` is over
(`GoodInv`). `TellsInv` carries `EditorsAreTold` through a cycle.

**Catalogue** (`CatalogProofs`). `CatalogInv` is about locks: two requests hold none that
conflict (`LocksExclude`), and each holds at every statement what its earlier statements
took. That a link joins rows that are there is then a matter of shares: an inserted link's
tag and channel are locked against deletion (`LinksHold`), and who deletes holds the row
(`DeletesLocked`). `LinksMirrorDefaults` needs that a request which rewrites links holds
the row of the channel since before its `DELETE` (`RowHeld`), and so has locked every link
there is when it commits (`LinksHeld`): nobody added one in between. That is because the
`UPDATE` comes first and is never left out. `StaleTagsCameLate` follows from `PostsHeld`:
a post with the tag is locked by its deletion, or was given it late. `PostsKeepGivenTags`
needs to know what those who have loaded a list still carry: `LoadedAsGiven` says that a
decision holds what the list brought before it began (`base`) has left, and that a
normalize job begun before any list loaded nothing, so that it writes nothing unless it
has defaults. The deletion of a tag is what makes the statement one of two inclusions:
a list brought earlier loses the tag in the row and keeps it in a hand.
`Respects` collects what a step may not do to the requests that do not take it.

**Admins and logins** (`AccessProofs`). `LastSuperAdminStays` is an action property. What
makes it hold is that, unless the request is `overtaken`, the row it changes is as it was
loaded, and a request that was allowed to take a super-admin away still finds two of them
(`CheckHolds`): the set of active super-admins is finite, and only shrinks by a step that
marks the request (`SupersAreFinite`). So an undisturbed commit leaves one of those it
counted.
`NoEndlessBlock` follows from the shape of an attempt (`LimitStepNoEndlessBlock`).

**Left to TLC**: liveness (`DecisionTakesEffect`, `HeardIsQueued`, `DraftAppears`,
`RequestsEnd`), which the proof system does not do; the invariants of `Schema`, which are
about what folds over the statements of seven concrete revisions compute, with nothing
in them that varies but the rows, where the contents do not meet: a proof would have to
compute the folds (an induction over data for each), and TLC does, from every revision;
and the counterexamples.

## 6. What could follow

The modules of the inventory exist and their safety properties are proved but for
`Schema`. Three things would be worth having.

1. `Pipeline` with more than one slot and a property of resending that is right there: it
   has to tell the jobs that began before a post had its hash from the others.
2. A composition of `DraftCards` with `Pipeline`, where a card's buttons act on the posts
   of the pipeline and not on one of its own.
3. The channel's policy as a variable: an editor may change it while posts are on their
   way, which `AutoPosts` rules out.

## 7. Not modelled

**Fleet update** (`fleet/*.sh`): one script under a lock, outside the services, whose
every step is a git, docker or registry command with an effect that would have to be made
up. Its hazard is listed: an interruption after the reset leaves the tree at a commit
that does not run, and makes that commit the one a later rollback returns to.

**Media and audit pruning** (`worker/reconcile.py`): by the age of files and rows. The
audit has no reader that steps depend on. Of the media, the hazard listed is that posts
which are publishing or failed are not among those whose files are kept; a send in these
modules is one delivery, with or without its media.

**Text**: templates, cleaning, the language model (`shared/normalize.py`,
`shared/transform.py`). Two posts have the same fingerprint or not (`HashOf`); what the
text is makes no difference to what any service does next, and a template that cannot be
rendered is a normalize job that raises.

**Alerts, admin commands, audit, metrics** (`bot/alerts.py`, `bot/handlers/admin.py`,
`apigo/handlers_audit.go`, `metrics.go`): one message out per job, or read-only. The alert
of a userbot that cannot start, which each restart by Docker repeats, is left out of
`Watchdog`.

**Tokens and passwords** (`auth_jwt.go`, `auth_argon2.go`, `shared/security.py`): functions
without state. `Access` has who holds a token that has not run out; a refresh only puts
that off, and the role written into the token is read by nobody.

**The FastAPI handlers** (`api/`): kept for a rollback of the Go service, with the same
requests on the same tables. Their order of statements is their own and no module has
it. Reading them next to `Catalog` shows one difference that matters: in
`api/routers/source_channels.py` the `DELETE` of the links goes out before the `UPDATE`
of the row is flushed, and a list equal to the loaded one is not written at all, so that
two overlapping requests need not be serialized by the channel's row as those of the Go
service are.

**Web front end, installation, proxy**: presentation, and configuration applied once.

**Abstractions in what is modelled**: a channel's policy and a post's content do not change
while the post is on its way; `DraftCards` follows one post; PostgreSQL's locks and its
deadlock detection are modelled as far as the statements of `Catalog` meet them, and
elsewhere a transaction whose statements touch one row is one step; Redis keeps what it
has accepted.
