----------------------------- MODULE Migrations -----------------------------
(***************************************************************************)
(* src/migrations/versions: what each revision does to the schema and how  *)
(* it is taken back, statement by statement.                               *)
(***************************************************************************)
EXTENDS SchemaObjects, SequencesExt

Dedupe == "published_dedupe"

Admins == CreateTable("admins",
    Enum("role", {"editor", "admin", "super_admin"})
    \cup Columns("admins", {"id", "username", "password_hash", "created_at", "disabled_at"})
    \cup {EnumColumn("admins", "role", "role"),
          Primary("admins", {"id"}), Unique("admins", "uq_admins_username", {"username"})})

Tags == CreateTable("tags",
    Columns("tags", {"id", "slug", "label", "color", "created_at"})
    \cup {Primary("tags", {"id"}), Unique("tags", "uq_tags_slug", {"slug"})})

Templates == CreateTable("templates",
    Columns("templates", {"id", "name", "body", "created_at"})
    \cup {Primary("templates", {"id"})})

SourceChannels == CreateTable("source_channels",
    Enum("policy", {"auto", "queue"})
    \cup Columns("source_channels",
            {"id", "telegram_channel_id", "title", "username", "ingestion_enabled",
             "default_tag_ids", "normalization_template_id", "max_media_size_bytes",
             "source_label", "created_at"})
    \cup {EnumColumn("source_channels", "policy", "policy"),
          Primary("source_channels", {"id"}),
          ForeignKey("source_channels", "fk_template", "normalization_template_id", "templates"),
          Unique("source_channels", "uq_source_channels_tg_id", {"telegram_channel_id"})})

SourceChannelTags == CreateTable("source_channel_tags",
    Columns("source_channel_tags", {"source_channel_id", "tag_id"})
    \cup {ForeignKey("source_channel_tags", "fk_channel", "source_channel_id", "source_channels"),
          ForeignKey("source_channel_tags", "fk_tag", "tag_id", "tags"),
          Primary("source_channel_tags", {"source_channel_id", "tag_id"})})

Posts == CreateTable("posts",
    Enum("post_state", {"pending", "approved", "scheduled", "published", "rejected",
                        "publish_failed"})
    \cup Columns("posts",
            {"id", "source_channel_id", "source_message_id", "raw_text", "raw_media_refs",
             "received_at", "normalized_text", "media_paths", "tag_ids", "scheduled_for",
             "published_message_id", "published_at", "dedupe_hash", "draft_message_id",
             "created_by", "handled_by", "created_at", "updated_at"})
    \cup {EnumColumn("posts", "state", "post_state"),
          Primary("posts", {"id"}),
          ForeignKey("posts", "fk_channel", "source_channel_id", "source_channels"),
          ForeignKey("posts", "fk_created_by", "created_by", "admins"),
          ForeignKey("posts", "fk_handled_by", "handled_by", "admins"),
          Unique("posts", "uq_post_source_msg", {"source_channel_id", "source_message_id"})})

PostEvents == CreateTable("post_events",
    Enum("event_action", {"ingested", "edited", "approved", "rejected", "scheduled",
                          "published", "publish_failed", "duplicate", "media_omitted",
                          "draft_posted"})
    \cup Columns("post_events", {"id", "post_id", "actor_admin_id", "payload", "created_at"})
    \cup {EnumColumn("post_events", "action", "event_action"),
          Primary("post_events", {"id"}),
          ForeignKey("post_events", "fk_post", "post_id", "posts"),
          ForeignKey("post_events", "fk_actor", "actor_admin_id", "admins")})

PublishedDedupe == CreateTable(Dedupe,
    Columns(Dedupe, {"dedupe_hash", "published_at"}) \cup {Primary(Dedupe, {"dedupe_hash"})})

\* The foreign keys of 0001 have no names in the code. An index is named after
\* its table and column.
IndexOn(t, c) == Create({Index(t, "ix_" \o t \o "_" \o c, {c})})
DropIndexOn(t, c) == Drop("index", t, "ix_" \o t \o "_" \o c)

Up0001 ==
    Admins \o IndexOn("admins", "username") \o Tags \o IndexOn("tags", "slug")
    \o Templates \o SourceChannels \o IndexOn("source_channels", "telegram_channel_id")
    \o SourceChannelTags \o Posts \o IndexOn("posts", "source_channel_id")
    \o IndexOn("posts", "state") \o IndexOn("posts", "scheduled_for")
    \o IndexOn("posts", "dedupe_hash")
    \o Create({Index("posts", "ix_posts_state_received_at", {"state", "received_at"})})
    \o PostEvents \o IndexOn("post_events", "post_id")
    \o PublishedDedupe \o IndexOn(Dedupe, "published_at")

DropTable(t) == Drop("table", t, t)
DropType(e) == DropIfExists("type", e, e)

Down0001 ==
    DropIndexOn(Dedupe, "published_at") \o DropTable(Dedupe)
    \o DropIndexOn("post_events", "post_id") \o DropTable("post_events")
    \o DropIndexOn("posts", "dedupe_hash")
    \o Drop("index", "posts", "ix_posts_state_received_at")
    \o DropIndexOn("posts", "scheduled_for") \o DropIndexOn("posts", "state")
    \o DropIndexOn("posts", "source_channel_id") \o DropTable("posts")
    \o DropTable("source_channel_tags")
    \o DropIndexOn("source_channels", "telegram_channel_id") \o DropTable("source_channels")
    \o DropTable("templates") \o DropIndexOn("tags", "slug") \o DropTable("tags")
    \o DropIndexOn("admins", "username") \o DropTable("admins")
    \o DropType("event_action") \o DropType("post_state") \o DropType("policy")
    \o DropType("role")
-----------------------------------------------------------------------------
Up0002 == AddValue("post_state", "publishing")
Down0002 == <<>>

Up0003 == Create({Column("admins", "tg_user_id")})
          \o Create({Unique("admins", "uq_admins_tg_user_id", {"tg_user_id"})})
          \o IndexOn("admins", "tg_user_id")
Down0003 == DropIndexOn("admins", "tg_user_id")
            \o Drop("constraint", "admins", "uq_admins_tg_user_id")
            \o Drop("column", "admins", "tg_user_id")

AiModes == {"off", "translate", "summarize", "retone", "custom"}

\* The AI and branding columns that tenants and channels both have.
AiColumnOrder == <<"ai_enabled", "ai_mode", "ai_target_language", "ai_tone_prompt",
                   "ai_custom_system_prompt", "watermark_enabled", "watermark_text",
                   "strip_source_tags">>
AiColumns == Range(AiColumnOrder) \ {"ai_mode"}

TenantObjects ==
    Columns("tenants", AiColumns \cup {"id", "slug", "name", "bot_token",
                "destination_channel_id", "editor_group_id", "created_at", "disabled_at"})
    \cup {EnumColumn("tenants", "ai_mode", "ai_mode"), Primary("tenants", {"id"}),
          Unique("tenants", "uq_tenants_slug", {"slug"})}

TenantTables == <<"admins", "tags", "templates", "source_channels", "posts", "post_events">>

FkTenant(t) == "fk_" \o t \o "_tenant_id"
AddTenantId(t) == Create({Column(t, "tenant_id")})
                  \o Create({ForeignKey(t, FkTenant(t), "tenant_id", "tenants")})
DropTenantId(t) == Drop("foreign key", t, FkTenant(t)) \o Drop("column", t, "tenant_id")

Each(F(_), ts) == FlattenSeq([i \in 1 .. Len(ts) |-> F(ts[i])])

IndexedTenantId(t) == AddTenantId(t) \o IndexOn(t, "tenant_id")
DropIndexedTenantId(t) == DropIndexOn(t, "tenant_id") \o DropTenantId(t)

Up0004 ==
    Create(Enum("ai_mode", AiModes))
    \o AddValue("event_action", "ai_transformed") \o AddValue("event_action", "ai_failed")
    \o CreateTable("tenants", TenantObjects) \o IndexOn("tenants", "slug")
    \o Each(IndexedTenantId, TenantTables)
    \o AddTenantId(Dedupe) \o IndexOn(Dedupe, "tenant_id")
    \o Create({EnumColumn("source_channels", "ai_mode", "ai_mode")}
              \cup Columns("source_channels", AiColumns))
    \o Create({Column("posts", "ai_transformed_text")})

DropChannelColumn(c) == Drop("column", "source_channels", c)

Down0004 ==
    Drop("column", "posts", "ai_transformed_text")
    \o Each(DropChannelColumn, Reverse(AiColumnOrder))
    \o DropIndexOn(Dedupe, "tenant_id") \o DropTenantId(Dedupe)
    \o Each(DropIndexedTenantId, Reverse(TenantTables))
    \o DropIndexOn("tenants", "slug") \o DropTable("tenants") \o DropType("ai_mode")

Overrides == <<"ai_model", "ai_max_tokens", "ai_timeout_seconds",
               "dedupe_lookback_days", "publish_spacing_seconds", "media_max_size_bytes">>

AddOverride(c) == Create({Column("tenants", c)})
DropOverride(c) == Drop("column", "tenants", c)
Up0005 == Each(AddOverride, Overrides)
Down0005 == Each(DropOverride, Reverse(Overrides))

TenantHash == {"tenant_id", "dedupe_hash"}
TenantHashKey == Create({UniqueNullsEqual(Dedupe, "uq_published_dedupe_tenant_hash", TenantHash)})
DropTenantHashKey == Drop("constraint", Dedupe, "uq_published_dedupe_tenant_hash")
DropPrimary == Drop("constraint", Dedupe, Dedupe \o "_pkey")

\* (mutant) NULLS NOT DISTINCT is forgotten
Up0006NullsDiffer ==
    DropPrimary \o DropIfExists("index", Dedupe, "ix_published_dedupe_tenant_id")
    \o Create({Column(Dedupe, "id")}) \o Create({Primary(Dedupe, {"id"})})
    \o Create({UniqueNullsDiffer(Dedupe, "uq_published_dedupe_tenant_hash", TenantHash)})

Up0006 ==
    DropPrimary \o DropIfExists("index", Dedupe, "ix_published_dedupe_tenant_id")
    \o Create({Column(Dedupe, "id")}) \o Create({Primary(Dedupe, {"id"})})
    \o TenantHashKey

\* (mutant) the index that 0006 dropped is not restored
Down0006NoIndex ==
    DropTenantHashKey \o DropPrimary \o Drop("column", Dedupe, "id")
    \o Create({Primary(Dedupe, {"dedupe_hash"})})

Down0006 ==
    DropTenantHashKey \o DropPrimary \o Drop("column", Dedupe, "id")
    \o Create({Primary(Dedupe, {"dedupe_hash"})}) \o IndexOn(Dedupe, "tenant_id")

\* (mutant) the tenant's key is dropped with its column, and no other is made
Up0007NoKey ==
    DropTenantHashKey \o DropTenantId(Dedupe)
    \o Each(DropIndexedTenantId, Reverse(TenantTables))
    \o DropIndexOn("tenants", "slug") \o DropTable("tenants")

Up0007 ==
    DropTenantHashKey \o DropTenantId(Dedupe)
    \o Create({Unique(Dedupe, "uq_published_dedupe_hash", {"dedupe_hash"})})
    \o Each(DropIndexedTenantId, Reverse(TenantTables))
    \o DropIndexOn("tenants", "slug") \o DropTable("tenants")

Down0007 ==
    CreateTable("tenants", TenantObjects \cup Columns("tenants", Range(Overrides)))
    \o IndexOn("tenants", "slug") \o Each(IndexedTenantId, TenantTables)
    \o Drop("constraint", Dedupe, "uq_published_dedupe_hash")
    \o AddTenantId(Dedupe) \o TenantHashKey
=============================================================================
