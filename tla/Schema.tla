------------------------------- MODULE Schema -------------------------------
(***************************************************************************)
(* migrations/env.py and api/cli.py: every pending revision in a single    *)
(* transaction, upwards to head or one step down, on the tables that the   *)
(* services write to in between. What services do while a transaction runs *)
(* is what they do before it: they see the committed schema, or wait.      *)
(***************************************************************************)
EXTENDS Migrations

CONSTANT Hashes     \* values of dedupe_hash

VARIABLES
    db,         \* the committed schema
    rev,        \* alembic_version, 0 before the first migration
    rows,       \* how many rows of published_dedupe have a hash
    tx          \* the running migration: what is left of it, and its copy

vars == <<db, rev, rows, tx>>

Up == <<Up0001, Up0002, Up0003, Up0004, Up0005, Up0006, Up0007>>
Down == <<Down0001, Down0002, Down0003, Down0004, Down0005, Down0006, Down0007>>
Latest == 7

Statement == UNION {Range(Up[r]) \cup Range(Down[r]) : r \in 1 .. Latest}

NoTx == [todo |-> <<>>, db |-> {}, rev |-> 0, on |-> FALSE]

Init == db = {} /\ rev = 0 /\ rows = [h \in Hashes |-> 0] /\ tx = NoTx

Begin(todo, to) == /\ ~tx.on
                   /\ tx' = [todo |-> todo, db |-> db, rev |-> to, on |-> TRUE]
                   /\ UNCHANGED <<db, rev, rows>>

\* command.upgrade(cfg, "head"), for a release whose head is any later revision
Upgrade == \E head \in rev + 1 .. Latest :
               Begin(FlattenSeq(SubSeq(Up, rev + 1, head)), head)

\* (mutant) the revision recorded is not the one below
DowngradeTwo == rev > 0 /\ Begin(Down[rev], rev - 2)

\* alembic downgrade -1
Downgrade == rev > 0 /\ Begin(Down[rev], rev - 1)

\* A key on the hash of published_dedupe, where tenant_id is always NULL.
IsHashKey(o) == /\ o.on = Dedupe /\ o.kind \in Keys
                /\ "dedupe_hash" \in o.cols /\ o.cols \subseteq TenantHash
                /\ o.kind = "nulls differ" => "tenant_id" \notin o.cols

HashIsKey(schema) == \E o \in schema : IsHashKey(o)

\* A statement that creates a key reads the rows there are.
Executes(st, schema) ==
    /\ Runs(st, schema)
    /\ (st.do = "create" /\ HashIsKey(st.objs)) => \A h \in Hashes : rows[h] <= 1

Run == /\ tx.on /\ tx.todo # <<>>
       /\ Executes(Head(tx.todo), tx.db)
       /\ tx' = [tx EXCEPT !.todo = Tail(@), !.db = Result(Head(tx.todo), @)]
       /\ UNCHANGED <<db, rev, rows>>

Commit == /\ tx.on /\ tx.todo = <<>>
          /\ db' = tx.db /\ rev' = tx.rev /\ tx' = NoTx
          /\ rows' = IF Table(Dedupe) \in tx.db THEN rows ELSE [h \in Hashes |-> 0]

\* The process ends, or a statement raises: nothing of the transaction stays.
Rollback == tx.on /\ tx' = NoTx /\ UNCHANGED <<db, rev, rows>>

\* A service inserts a hash, as often as the keys of the table let it.
MaxRows == 2
WriteRow(h) == /\ ~tx.on
               /\ Table(Dedupe) \in db
               /\ rows[h] < MaxRows
               /\ HashIsKey(db) => rows[h] = 0
               /\ rows' = [rows EXCEPT ![h] = @ + 1]
               /\ UNCHANGED <<db, rev, tx>>

Next == \/ Upgrade \/ Downgrade \/ Run \/ Commit \/ Rollback
        \/ \E h \in Hashes : WriteRow(h)

Spec == Init /\ [][Next]_vars
-----------------------------------------------------------------------------
(* Types. *)
TypeOK == /\ rev \in 0 .. Latest
          /\ rows \in [Hashes -> 0 .. MaxRows]
          /\ Range(tx.todo) \subseteq Statement

(* Up or down, from whatever revision and after whatever was written, no   *)
(* statement of a migration meets an object that is missing or in its way, *)
(* or rows that its key forbids (upgrade, downgrade of every revision).    *)
StatementsExecute == tx.on /\ tx.todo # <<>> => Executes(Head(tx.todo), tx.db)

AfterUpgrade(schema, r) == FoldLeft(LAMBDA s, st : Result(st, s), schema, Up[r])
SchemaAt[r \in 0 .. Latest] == IF r = 0 THEN {} ELSE AfterUpgrade(SchemaAt[r - 1], r)
NoValues(schema) == {o \in schema : o.kind # "value"}

(* The schema depends on the revision alone and not on the way there: a    *)
(* downgrade undoes its upgrade, but for the values that an enum cannot    *)
(* lose (downgrade of every revision).                                     *)
SchemaFollowsRevision == /\ NoValues(db) = NoValues(SchemaAt[rev])
                         /\ SchemaAt[rev] \subseteq db

\* shared/models.py: the columns, keys and enum values the services rely on.
ModelColumns == [
    admins |-> {"id", "username", "password_hash", "role", "tg_user_id", "created_at",
                "disabled_at"},
    tags |-> {"id", "slug", "label", "color", "created_at"},
    templates |-> {"id", "name", "body", "created_at"},
    source_channels |-> {"id", "telegram_channel_id", "title", "username",
        "ingestion_enabled", "policy", "default_tag_ids", "normalization_template_id",
        "max_media_size_bytes", "source_label", "ai_enabled", "ai_mode",
        "ai_target_language", "ai_tone_prompt", "ai_custom_system_prompt",
        "watermark_enabled", "watermark_text", "strip_source_tags", "created_at"},
    source_channel_tags |-> {"source_channel_id", "tag_id"},
    posts |-> {"id", "source_channel_id", "source_message_id", "raw_text",
        "raw_media_refs", "received_at", "state", "normalized_text", "ai_transformed_text",
        "media_paths", "tag_ids", "scheduled_for", "published_message_id", "published_at",
        "dedupe_hash", "draft_message_id", "created_by", "handled_by", "created_at",
        "updated_at"},
    post_events |-> {"id", "post_id", "actor_admin_id", "action", "payload", "created_at"},
    published_dedupe |-> {"id", "dedupe_hash", "published_at"}]

ModelKeys == {<<"admins", {"username"}>>, <<"admins", {"tg_user_id"}>>, <<"tags", {"slug"}>>,
              <<"source_channels", {"telegram_channel_id"}>>,
              <<"posts", {"source_channel_id", "source_message_id"}>>,
              <<Dedupe, {"dedupe_hash"}>>}

ModelEnums == [
    role |-> {"editor", "admin", "super_admin"},
    policy |-> {"auto", "queue"},
    post_state |-> {"pending", "approved", "scheduled", "published", "rejected",
                    "publishing", "publish_failed"},
    ai_mode |-> {"off", "translate", "summarize", "retone", "custom"},
    event_action |-> {"ingested", "edited", "approved", "rejected", "scheduled", "published",
                      "publish_failed", "duplicate", "media_omitted", "draft_posted",
                      "ai_transformed", "ai_failed"}]

ColumnsIn(schema, t) == {o.name : o \in {x \in schema : x.kind = "column" /\ x.on = t}}

(* At head the database is the one the services' mapped classes describe:  *)
(* the same columns, every unique key that code relies on, such as the one *)
(* ON CONFLICT (dedupe_hash) names, and every state and action there is    *)
(* (shared/models.py, _reserve_dedupe).                                    *)
HeadServesTheModels == rev = Latest =>
    /\ {o.on : o \in {x \in db : x.kind = "table"}} = DOMAIN ModelColumns
    /\ \A t \in DOMAIN ModelColumns : ColumnsIn(db, t) = ModelColumns[t]
    /\ \A k \in ModelKeys : \E o \in db : o.kind \in Keys /\ o.on = k[1] /\ o.cols = k[2]
    /\ \A e \in DOMAIN ModelEnums :
          ModelEnums[e] = {o.name : o \in {x \in db : x.kind = "value" /\ x.on = e}}
=============================================================================
