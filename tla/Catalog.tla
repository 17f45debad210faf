------------------------------ MODULE Catalog ------------------------------
(***************************************************************************)
(* Channels, their default tags and the tags of posts, as the handlers of  *)
(* apigo and the normalize job change them: each request is a transaction  *)
(* of several statements, which wait for the row locks of other requests   *)
(* (handlers_channels.go, handlers_tags.go, handlers_queue.go,             *)
(* worker/normalize.py). PostgreSQL's locks and its deadlock detection are *)
(* modelled as far as these statements meet them. A list is a set here.    *)
(***************************************************************************)
EXTENDS Naturals, FiniteSets

CONSTANTS
    Channels, Tags, Posts,  \* ids of rows
    ChannelOf,              \* source_channel_id
    Lists,                  \* the lists of tags that requests bring
    Requests,               \* requests and normalize jobs under way at once
    None                    \* no channel, tag, post or list of tags

ASSUME CatalogAssumption == /\ None \notin Channels \cup Tags \cup Posts
                            /\ \A ts \in SUBSET Tags : ts # None
                            /\ Lists \subseteq SUBSET Tags
                            /\ ChannelOf \in [Posts -> Channels]

VARIABLES
    tag,        \* tags: "new" before its INSERT, "live", "gone"
    channel,    \* source_channels: "new" before its INSERT, "live", "gone"
    defaults,   \* default_tag_ids of a channel
    links,      \* source_channel_tags
    postTags,   \* tag_ids of a post
    req,        \* what each request is doing
    locks,      \* the row locks each request holds
    lateTags,   \* history: tags a post was given after their deletion had
                \* stripped the posts
    given       \* history: the last list a request brought for a post, until
                \* something that may take its place is written

history == <<lateTags, given>>

vars == <<tag, channel, defaults, links, postTags, req, locks, history>>

Live == {t \in Tags : tag[t] = "live"}

Gone == {t \in Tags : tag[t] = "gone"}

TagLists == (SUBSET Tags) \cup {None}

Request == [pc : {"idle", "insert", "load", "update", "unlink", "select", "link", "strip",
                  "delete", "cascade", "drop", "remove", "edit", "decide", "policy",
                  "normalize", "commit"},
            channel : Channels \cup {None}, tag : Tags \cup {None},
            post : Posts \cup {None},
            tags : TagLists,        \* the list to write, if there is one
            seen : TagLists,        \* the list a normalize job loaded
            base : TagLists,        \* history: given, when the post was loaded
            todo : SUBSET Tags]     \* links still to insert

Idle == [pc |-> "idle", channel |-> None, tag |-> None, post |-> None, tags |-> None,
         seen |-> None, base |-> None, todo |-> {}]

\* Row locks. Each foreign key of a link keeps the row it refers to from being
\* deleted, and no more.
Row(c) == <<"channel", c, None>>
Key(c) == <<"channel key", c, None>>
KeyShare(c) == <<"channel share", c, None>>
TagRow(t) == <<"tag", None, t>>
Share(t) == <<"tag share", None, t>>
Link(c, t) == <<"link", c, t>>
PostRow(p) == <<"post", p, None>>

Lock == {Row(c) : c \in Channels} \cup {Key(c) : c \in Channels}
            \cup {KeyShare(c) : c \in Channels} \cup {PostRow(p) : p \in Posts}
            \cup {TagRow(t) : t \in Tags} \cup {Share(t) : t \in Tags}
            \cup {Link(c, t) : c \in Channels, t \in Tags}

TypeOK == /\ tag \in [Tags -> {"new", "live", "gone"}]
          /\ channel \in [Channels -> {"new", "live", "gone"}]
          /\ defaults \in [Channels -> SUBSET Tags]
          /\ links \subseteq {c \in Channels : channel[c] = "live"} \X Live
          /\ postTags \in [Posts -> SUBSET Tags]
          /\ req \in [Requests -> Request]
          /\ locks \in [Requests -> SUBSET Lock]
          /\ lateTags \subseteq Tags
          /\ given \in [Posts -> TagLists]

Init == /\ tag = [t \in Tags |-> "new"]
        /\ channel = [c \in Channels |-> "new"]
        /\ defaults = [c \in Channels |-> {}]
        /\ links = {}
        /\ postTags = [p \in Posts |-> {}]
        /\ req = [r \in Requests |-> Idle]
        /\ locks = [r \in Requests |-> {}]
        /\ lateTags = {}
        /\ given = [p \in Posts |-> {}]

IsShare(l) == l[1] \in {"channel share", "tag share"}

Conflict(l, k) ==
    \/ l = k /\ ~IsShare(l)
    \/ /\ l[2] = k[2] /\ l[3] = k[3]
       /\ {l[1], k[1]} \in {{"tag", "tag share"}, {"channel key", "channel share"}}

\* The next link to insert; the request's list has an order.
NextTag(q) == CHOOSE t \in q.todo : TRUE

LinksOf(c) == {Link(c, t) : t \in {u \in Tags : <<c, u>> \in links}}

PostsOf(c) == {p \in Posts : ChannelOf[p] = c}

PostThere(p) == channel[ChannelOf[p]] = "live"

\* The rows the next statement of a request locks.
Needs(q) ==
    CASE q.pc = "update" -> {Row(q.channel)}
      [] q.pc = "drop" -> {Row(q.channel), Key(q.channel)}
      [] q.pc = "unlink" -> LinksOf(q.channel)
      [] q.pc = "link" /\ q.todo # {} -> {KeyShare(q.channel), Share(NextTag(q))}
      [] q.pc = "strip" -> {PostRow(p) : p \in {x \in Posts : q.tag \in postTags[x]}}
      [] q.pc = "delete" -> {TagRow(t) : t \in {q.tag} \cap Live}
      [] q.pc = "cascade" -> {Link(c, q.tag) : c \in {d \in Channels : <<d, q.tag>> \in links}}
      [] q.pc = "remove" -> LinksOf(q.channel) \cup {PostRow(p) : p \in PostsOf(q.channel)}
      [] q.pc \in {"edit", "decide", "normalize"} -> {PostRow(q.post)}
      [] OTHER -> {}

WaitsFor(r) == {s \in Requests \ {r} : \E l \in Needs(req[r]), k \in locks[s] : Conflict(l, k)}

Rows == <<tag, channel, defaults, links, postTags, lateTags, given>>

Start(r, q) == req[r].pc = "idle" /\ req' = [req EXCEPT ![r] = q] /\ UNCHANGED <<Rows, locks>>

\* A statement runs once its locks are free, and keeps them to the end.
Statement(r, pc, next) ==
    /\ req[r].pc = pc
    /\ WaitsFor(r) = {}
    /\ locks' = [locks EXCEPT ![r] = @ \cup Needs(req[r])]
    /\ req' = [req EXCEPT ![r].pc = next]
    /\ UNCHANGED Rows

\* The end of a transaction, with its effect or without.
End(r) == /\ req' = [req EXCEPT ![r] = Idle]
          /\ locks' = [locks EXCEPT ![r] = {}]

\* (mutant) the transaction of a refused request stays open
RefuseOpen(r) == req' = [req EXCEPT ![r] = Idle] /\ UNCHANGED <<Rows, locks>>

Refuse(r) == End(r) /\ UNCHANGED Rows
-----------------------------------------------------------------------------
CreateTag == \E t \in Tags : /\ tag[t] = "new"
                             /\ tag' = [tag EXCEPT ![t] = "live"]
                             /\ UNCHANGED <<channel, defaults, links, postTags, req,
                                            locks, history>>

StartCreateChannel(r) == \E c \in Channels, ts \in Lists :
    Start(r, [Idle EXCEPT !.pc = "insert", !.channel = c, !.tags = ts])

\* telegram_channel_id is unique: the INSERT waits for one under way, and is
\* refused once the row is there. Nobody else sees it before the commit.
InsertChannel(r) ==
    /\ req[r].pc = "insert"
    /\ \A s \in Requests \ {r} : Row(req[r].channel) \notin locks[s]
    /\ IF channel[req[r].channel] # "new" THEN Refuse(r)
       ELSE /\ locks' = [locks EXCEPT ![r] = {Row(req[r].channel)}]
            /\ req' = [req EXCEPT ![r].pc = "select"]
            /\ UNCHANGED Rows

StartUpdateChannel(r) == \E c \in Channels, ts \in Lists \cup {None} :
    Start(r, [Idle EXCEPT !.pc = "load", !.channel = c, !.tags = ts])

\* The AI settings are columns of the same row.
StartUpdateAiSettings(r) == \E c \in Channels :
    Start(r, [Idle EXCEPT !.pc = "load", !.channel = c])

\* (mutant) only what differs is written, so an unchanged list locks no row
LoadForDifference(r) ==
    /\ req[r].pc = "load"
    /\ IF channel[req[r].channel] # "live" THEN Refuse(r)
       ELSE /\ req' = [req EXCEPT ![r].pc =
                  IF req[r].tags = defaults[req[r].channel] THEN "unlink" ELSE "update"]
            /\ UNCHANGED <<Rows, locks>>

LoadChannel(r) ==
    /\ req[r].pc = "load"
    /\ IF channel[req[r].channel] # "live" THEN Refuse(r)
       ELSE req' = [req EXCEPT ![r].pc = "update"] /\ UNCHANGED <<Rows, locks>>

\* UPDATE source_channels: the row may be gone by now.
WriteChannel(r) ==
    /\ req[r].pc = "update" /\ WaitsFor(r) = {}
    /\ IF channel[req[r].channel] # "live" THEN Refuse(r)
       ELSE Statement(r, "update", IF req[r].tags = None THEN "commit" ELSE "unlink")

\* setDefaultTagLinks
DeleteLinks(r) == Statement(r, "unlink", "select")

SelectTags(r) ==
    /\ req[r].pc = "select"
    /\ IF req[r].tags \subseteq Live
       THEN /\ req' = [req EXCEPT ![r].pc = "link", ![r].todo = req[r].tags]
            /\ UNCHANGED <<Rows, locks>>
       ELSE Refuse(r)

\* The foreign keys are checked once nobody is deleting what they refer to.
InsertLink(r) ==
    /\ req[r].pc = "link" /\ WaitsFor(r) = {}
    /\ IF req[r].todo = {} THEN Statement(r, "link", "commit")
       ELSE IF \/ NextTag(req[r]) \notin Live
               \/ channel[req[r].channel] = "gone" THEN Refuse(r)
       ELSE /\ locks' = [locks EXCEPT ![r] = @ \cup Needs(req[r])]
            /\ req' = [req EXCEPT ![r].todo = @ \ {NextTag(req[r])}]
            /\ UNCHANGED Rows

\* What the transaction deleted are the links that it saw, and locked.
Unlinked(r) == {l \in links : Link(l[1], l[2]) \in locks[r]}

CommitChannel(r) ==
    LET q == req[r] IN
    /\ q.pc = "commit" /\ q.channel # None
    /\ channel' = [channel EXCEPT ![q.channel] = IF @ = "new" THEN "live" ELSE @]
    /\ defaults' = IF q.tags = None \/ Row(q.channel) \notin locks[r] THEN defaults
                   ELSE [defaults EXCEPT ![q.channel] = q.tags]
    /\ links' = IF q.tags = None THEN links
                ELSE (links \ Unlinked(r)) \cup ({q.channel} \X q.tags)
    /\ End(r)
    /\ UNCHANGED <<tag, postTags, history>>

\* The count of active posts, which may refuse it, is part of Decisions.
StartDeleteChannel(r) == \E c \in Channels :
    /\ channel[c] = "live"
    /\ Start(r, [Idle EXCEPT !.pc = "drop", !.channel = c])

DropChannel(r) ==
    /\ req[r].pc = "drop" /\ WaitsFor(r) = {}
    /\ IF channel[req[r].channel] # "live" THEN Refuse(r) ELSE Statement(r, "drop", "remove")

\* (mutant) the links of the channel stay
RemoveRowOnly(r) ==
    /\ req[r].pc = "remove" /\ WaitsFor(r) = {}
    /\ channel' = [channel EXCEPT ![req[r].channel] = "gone"]
    /\ End(r)
    /\ UNCHANGED <<tag, defaults, links, postTags, history>>

\* The DELETE goes on to the links and the posts of the channel.
RemoveChannel(r) ==
    /\ req[r].pc = "remove" /\ WaitsFor(r) = {}
    /\ channel' = [channel EXCEPT ![req[r].channel] = "gone"]
    /\ links' = {l \in links : l[1] # req[r].channel}
    /\ End(r)
    /\ UNCHANGED <<tag, defaults, postTags, history>>
-----------------------------------------------------------------------------
StartDeleteTag(r) == \E t \in Live : Start(r, [Idle EXCEPT !.pc = "strip", !.tag = t])

StripPosts(r) == Statement(r, "strip", "delete")

\* A tag that is gone by now is no error: the posts are stripped again.
DeleteTag(r) == Statement(r, "delete", "cascade")

CascadeLinks(r) == Statement(r, "cascade", "commit")

\* (mutant) the posts keep the tag
CommitTagOnly(r) ==
    /\ req[r].pc = "commit" /\ req[r].tag # None
    /\ tag' = [tag EXCEPT ![req[r].tag] = "gone"]
    /\ links' = {l \in links : l[2] # req[r].tag}
    /\ End(r)
    /\ UNCHANGED <<channel, defaults, postTags, history>>

\* The posts are those that had the tag when the UPDATE ran.
CommitTag(r) ==
    /\ req[r].pc = "commit" /\ req[r].tag # None
    /\ tag' = [tag EXCEPT ![req[r].tag] = "gone"]
    /\ links' = {l \in links : l[2] # req[r].tag}
    /\ postTags' = [p \in Posts |-> IF PostRow(p) \in locks[r]
                                    THEN postTags[p] \ {req[r].tag} ELSE postTags[p]]
    /\ End(r)
    /\ UNCHANGED <<channel, defaults, history>>

\* Tags whose deletion is past the posts.
Stripped == {t \in Tags : tag[t] = "gone" \/ \E r \in Requests : /\ req[r].tag = t
                                                            /\ req[r].pc # "strip"}

GiveTags(p, ts) == /\ postTags' = [postTags EXCEPT ![p] = ts]
                   /\ lateTags' = lateTags \cup (ts \cap Stripped)

Forget(p) == given' = [given EXCEPT ![p] = None]

\* The end of a transaction on a post; its row may be gone by now.
EndOnPost(r, pc) == /\ req[r].pc = pc /\ WaitsFor(r) = {}
                    /\ PostThere(req[r].post)
                    /\ End(r)
                    /\ UNCHANGED <<tag, channel, defaults, links>>

PostGone(r) == /\ req[r].pc \in {"edit", "decide", "normalize"}
               /\ ~PostThere(req[r].post)
               /\ Refuse(r)

\* PATCH tags, or a decision that brings a list. Nobody looks whether the tags
\* of a list exist.
StartEdit(r) == \E p \in Posts, ts \in Lists :
    /\ PostThere(p)
    /\ Start(r, [Idle EXCEPT !.pc = "edit", !.post = p, !.tags = ts])

WriteList(r) == LET q == req[r] IN
                /\ EndOnPost(r, "edit")
                /\ GiveTags(q.post, q.tags)
                /\ given' = [given EXCEPT ![q.post] = q.tags]

\* A decision without a list writes back the one it has loaded.
StartDecide(r) == \E p \in Posts :
    /\ PostThere(p)
    /\ Start(r, [Idle EXCEPT !.pc = "decide", !.post = p, !.tags = postTags[p],
                            !.base = given[p]])

WriteBack(r) == LET q == req[r] IN
                /\ EndOnPost(r, "decide")
                /\ GiveTags(q.post, q.tags)
                /\ IF q.base = given[q.post] THEN UNCHANGED given ELSE Forget(q.post)

\* The normalize job loads the post, then its channel, and waits for the
\* language model before it writes.
StartNormalize(r) == \E p \in Posts :
    /\ PostThere(p)
    /\ Start(r, [Idle EXCEPT !.pc = "policy", !.post = p, !.seen = postTags[p],
                            !.base = given[p]])

\* The policy is a column that PATCH writes: it may be either.
LoadPolicy(r) == LET c == ChannelOf[req[r].post] IN
                 /\ req[r].pc = "policy"
                 /\ IF channel[c] # "live" THEN Refuse(r)
                    ELSE /\ \E ts \in {{}, defaults[c]} :
                               req' = [req EXCEPT ![r].pc = "normalize", ![r].tags = ts]
                         /\ UNCHANGED <<Rows, locks>>

WriteTags(r) == LET q == req[r] IN
                /\ GiveTags(q.post, q.tags)
                /\ IF q.tags = {} /\ q.base = {} THEN UNCHANGED given ELSE Forget(q.post)

\* (mutant) tag_ids is written whether it changed or not
WriteNormalizedAlways(r) == EndOnPost(r, "normalize") /\ WriteTags(r)

\* The session writes tag_ids only if they differ from what was loaded.
WriteNormalized(r) ==
    /\ EndOnPost(r, "normalize")
    /\ IF req[r].tags # req[r].seen THEN WriteTags(r)
       ELSE UNCHANGED <<postTags, history>>

\* PostgreSQL ends one of the transactions that wait for each other.
DeadlockVictim(r) == /\ \E s \in WaitsFor(r) : r \in WaitsFor(s)
                     /\ Refuse(r)

\* The database or the connection fails, or the client hangs up: the transaction
\* is rolled back.
Fails(r) == req[r].pc # "idle" /\ Refuse(r)

Step(r) == \/ InsertChannel(r) \/ LoadChannel(r) \/ WriteChannel(r) \/ DeleteLinks(r)
           \/ SelectTags(r) \/ InsertLink(r) \/ CommitChannel(r) \/ DropChannel(r)
           \/ RemoveChannel(r) \/ StripPosts(r) \/ DeleteTag(r) \/ CascadeLinks(r)
           \/ CommitTag(r) \/ WriteList(r) \/ WriteBack(r) \/ LoadPolicy(r)
           \/ WriteNormalized(r) \/ PostGone(r) \/ DeadlockVictim(r)

Next == \/ CreateTag
        \/ \E r \in Requests : \/ StartCreateChannel(r) \/ StartUpdateChannel(r)
                               \/ StartUpdateAiSettings(r)
                               \/ StartDeleteChannel(r) \/ StartDeleteTag(r)
                               \/ StartEdit(r) \/ StartDecide(r) \/ StartNormalize(r)
                               \/ Step(r) \/ Fails(r)

Spec == Init /\ [][Next]_vars

\* The server works on every request, and PostgreSQL hands a lock on to the one
\* that has waited longest.
FairSpec == Spec /\ \A r \in Requests : SF_vars(Step(r))
-----------------------------------------------------------------------------
(* The join table says what default_tag_ids says, for every tag there is,  *)
(* whatever requests overlap (setDefaultTagLinks, handleDeleteTag).        *)
LinksMirrorDefaults ==
    \A c \in Channels : channel[c] = "live" =>
        {t \in Tags : <<c, t>> \in links} = defaults[c] \cap Live

(* A post names a deleted tag only if somebody put it there once the       *)
(* deletion had been through the posts: an editor's list, one that a       *)
(* decision writes back, or the defaults that a normalize job had loaded   *)
(* (handleDeleteTag, handleEditTags, decide, normalize).                   *)
StaleTagsCameLate ==
    \A p \in Posts, t \in Tags : t \in postTags[p] /\ tag[t] = "gone" => t \in lateTags

(* A post has the tags of the last list that a request brought for it,     *)
(* less those deleted since, and none before the first list. There are     *)
(* three ways to lose them, and no other: a normalize job that gives the   *)
(* defaults of an `auto' channel, one that began after a list had been     *)
(* brought, and a decision that writes back what it loaded before the last *)
(* list came. A job that began before any list was there, and waits for    *)
(* the language model while an editor brings one, leaves it alone          *)
(* (normalize, decide, handleEditTags, handleDeleteTag).                   *)
PostsKeepGivenTags ==
    \A p \in Posts : given[p] # None => /\ postTags[p] \subseteq given[p]
                                        /\ given[p] \ Gone \subseteq postTags[p]

(* Every request is answered, though a deletion of a tag and an update of  *)
(* a channel that names it may wait for each other (handleDeleteTag).      *)
RequestsEnd == \A r \in Requests : req[r].pc # "idle" ~> req[r].pc = "idle"
=============================================================================
