--------------------------- MODULE CatalogProofs ---------------------------
(***************************************************************************)
(* Theorems about Catalog, for any channels, tags and posts, and any       *)
(* number of requests at a time.                                           *)
(***************************************************************************)
EXTENDS Catalog, TLAPS

ChannelSteps == {"insert", "load", "update", "unlink", "select", "link", "drop", "remove"}

PostSteps == {"edit", "decide", "normalize"}

(* What a request carries at each point.                                   *)
Shape(r) ==
    /\ req[r].pc \in ChannelSteps => req[r].channel \in Channels /\ req[r].tag = None
    /\ req[r].pc \in {"insert", "unlink", "select", "link"} => req[r].tags \in SUBSET Tags
    /\ req[r].pc \in {"strip", "delete", "cascade"} => req[r].tag \in Tags /\ req[r].channel = None
    /\ req[r].pc \in PostSteps \cup {"policy"} => /\ req[r].post \in Posts /\ req[r].tag = None
                                                  /\ req[r].channel = None
    /\ req[r].pc \in PostSteps => req[r].tags \in SUBSET Tags
    /\ req[r].pc = "commit" =>
           \/ req[r].channel = None /\ req[r].tag \in Tags
           \/ req[r].tag = None /\ req[r].channel \in Channels
    /\ req[r].pc # "link" => req[r].todo = {}
    /\ req[r].pc = "idle" => req[r] = Idle /\ locks[r] = {}

(* The tags and the channel of the links a request has inserted are there, *)
(* and locked against deletion.                                            *)
LinksHold(r) ==
    req[r].pc \in {"link", "commit"} /\ req[r].channel # None /\ req[r].tags # None =>
        /\ req[r].todo \subseteq req[r].tags
        /\ \A t \in req[r].tags \ req[r].todo :
               /\ Share(t) \in locks[r] /\ t \in Live
               /\ KeyShare(req[r].channel) \in locks[r] /\ channel[req[r].channel] # "gone"

(* A tag is deleted by the request that has locked it, or was before.      *)
DeletesLocked(r) == req[r].tag # None =>
    /\ tag[req[r].tag] # "new"
    /\ req[r].pc \in {"cascade", "commit"} =>
           tag[req[r].tag] = "gone" \/ TagRow(req[r].tag) \in locks[r]

OwnLinks(r) == req[r].channel # None =>
    \A c \in Channels, t \in Tags : Link(c, t) \in locks[r] => c = req[r].channel

KnownRow(r) == req[r].channel # None /\ req[r].tags = None /\ req[r].pc \in {"update", "commit"} =>
                   channel[req[r].channel] # "new"

(* A request that deletes a channel has its key from the first statement.  *)
KeyHeld(r) == req[r].pc = "remove" => Key(req[r].channel) \in locks[r]

(* A request that rewrites the links of a channel holds its row, and from  *)
(* the DELETE on every link the channel has.                               *)
RowHeld(r) ==
    req[r].channel # None /\ req[r].pc \in {"unlink", "select", "link", "commit"} =>
        Row(req[r].channel) \in locks[r]

LinksHeld(r) ==
    /\ req[r].channel # None /\ req[r].tags # None
    /\ req[r].pc \in {"select", "link", "commit"}
    => \A t \in Tags : <<req[r].channel, t>> \in links =>
                           Link(req[r].channel, t) \in locks[r]

(* A post with the tag that a request deletes is locked by it, or was      *)
(* given the tag late.                                                     *)
PostsHeld(r) == req[r].tag # None /\ req[r].pc # "strip" =>
    \A p \in Posts : req[r].tag \in postTags[p] =>
        PostRow(p) \in locks[r] \/ req[r].tag \in lateTags

RequestInv(r) == /\ Shape(r) /\ LinksHold(r) /\ DeletesLocked(r) /\ OwnLinks(r)
                 /\ KnownRow(r) /\ KeyHeld(r) /\ RowHeld(r) /\ LinksHeld(r) /\ PostsHeld(r)

Compatible(L, K) == \A l \in L, k \in K : ~Conflict(l, k)

LocksExclude == \A r \in Requests, s \in Requests : r # s => Compatible(locks[r], locks[s])

(* A list of default tags names only tags that have been created.          *)
DefaultsCreated == \A c \in Channels : \A t \in defaults[c] : tag[t] # "new"

CatalogInv == /\ TypeOK /\ LocksExclude /\ DefaultsCreated
              /\ \A r \in Requests : RequestInv(r)
-----------------------------------------------------------------------------
(* Locks.                                                                  *)

LEMMA ConflictIsSymmetric == \A l, k : Conflict(l, k) => Conflict(k, l)
<1> SUFFICES ASSUME NEW l, NEW k, Conflict(l, k) PROVE Conflict(k, l)
  OBVIOUS
<1>1. {l[1], k[1]} = {k[1], l[1]}
  OBVIOUS
<1>2. QED BY <1>1 DEF Conflict, IsShare

LEMMA CompatibleBothWays ==
    ASSUME NEW L, NEW K, Compatible(L, K) PROVE Compatible(K, L)
  BY ConflictIsSymmetric DEF Compatible

(* Deleting a row conflicts with referring to it, writing it with writing  *)
(* it; the lock of a row conflicts with nothing else.                      *)
LEMMA WhatConflicts ==
    /\ \A c : Conflict(Row(c), Row(c)) /\ Conflict(Key(c), KeyShare(c))
    /\ \A t : Conflict(TagRow(t), Share(t))
    /\ \A c : \A k \in Lock : Conflict(Row(c), k) => k = Row(c)
<1>1. \A c : Conflict(Row(c), Row(c)) /\ Conflict(Key(c), KeyShare(c))
  BY DEF Conflict, IsShare, Row, Key, KeyShare
<1>2. \A t : Conflict(TagRow(t), Share(t))
  BY DEF Conflict, IsShare, TagRow, Share
<1>3. ASSUME NEW c, NEW k \in Lock, Conflict(Row(c), k) PROVE k = Row(c)
  <2>1. "channel" \notin {"tag", "tag share"} /\ "channel" \notin {"channel key", "channel share"}
    OBVIOUS
  <2>2. {Row(c)[1], k[1]} \notin {{"tag", "tag share"}, {"channel key", "channel share"}}
    BY <2>1 DEF Row
  <2>3. QED BY <1>3, <2>2 DEF Conflict
<1>4. QED BY <1>1, <1>2, <1>3

LEMMA LinksAreThemselves ==
    \A c, d, t, u : /\ Link(c, t) = Link(d, u) => c = d /\ t = u
                    /\ Link(c, t) \notin {Row(d), Key(d), KeyShare(d), TagRow(u),
                                         Share(u), PostRow(d)}
  BY DEF Link, Row, Key, KeyShare, TagRow, Share, PostRow

LEMMA NeedsOf ==
    ASSUME NEW q
    PROVE  /\ q.pc = "update" => Needs(q) = {Row(q.channel)}
           /\ q.pc = "drop" => Needs(q) = {Row(q.channel), Key(q.channel)}
           /\ q.pc = "unlink" => Needs(q) = LinksOf(q.channel)
           /\ q.pc = "remove" =>
                  Needs(q) = LinksOf(q.channel) \cup {PostRow(p) : p \in PostsOf(q.channel)}
           /\ q.pc = "link" /\ q.todo # {} => Needs(q) = {KeyShare(q.channel), Share(NextTag(q))}
           /\ q.pc = "strip" =>
                  Needs(q) = {PostRow(p) : p \in {x \in Posts : q.tag \in postTags[x]}}
           /\ q.pc = "delete" => Needs(q) = {TagRow(t) : t \in {q.tag} \cap Live}
           /\ q.pc = "cascade" =>
                  Needs(q) = {Link(c, q.tag) : c \in {d \in Channels : <<d, q.tag>> \in links}}
           /\ q.pc \in PostSteps => Needs(q) = {PostRow(q.post)}
           /\ q.pc \notin {"update", "drop", "unlink", "link", "strip", "delete", "cascade",
                            "remove"} \cup PostSteps
                  => Needs(q) = {}
           /\ q.pc = "link" /\ q.todo = {} => Needs(q) = {}
  BY DEF Needs, PostSteps

LEMMA NextTagIsLeft == ASSUME NEW q, q.todo # {} PROVE NextTag(q) \in q.todo
  BY DEF NextTag

LEMMA NeedsAreLocks ==
    ASSUME TypeOK, NEW r \in Requests, Shape(r)
    PROVE  /\ Needs(req[r]) \in SUBSET Lock
           /\ req[r].channel # None =>
                  \A c \in Channels, t \in Tags : Link(c, t) \in Needs(req[r]) => c = req[r].channel
<1> DEFINE q == req[r]
<1>1. q \in Request
  BY DEF TypeOK
<1>2. q.todo \subseteq Tags
  BY <1>1 DEF Request
<1>3. CASE q.pc \in {"update", "drop", "unlink", "remove"}
  <2>1. q.channel \in Channels
    BY <1>3 DEF Shape, ChannelSteps, PostSteps
  <2>2. CASE q.pc = "update"
    <3>1. Needs(q) = {Row(q.channel)}
      BY <2>2, NeedsOf
    <3>2. QED BY <2>1, <3>1, LinksAreThemselves DEF Lock
  <2>3. CASE q.pc = "drop"
    <3>1. Needs(q) = {Row(q.channel), Key(q.channel)}
      BY <2>3, NeedsOf
    <3>2. QED BY <2>1, <3>1, LinksAreThemselves DEF Lock
  <2>4. \A u \in Tags : Link(q.channel, u) \in Lock
    BY <2>1 DEF Lock
  <2>5. CASE q.pc = "unlink"
    <3>1. \A l \in Needs(q) : \E u \in Tags : l = Link(q.channel, u)
      <4>1. Needs(q) = LinksOf(q.channel)
        BY <2>5, NeedsOf
      <4>2. QED BY <4>1 DEF LinksOf
    <3>2. QED BY <2>4, <3>1, LinksAreThemselves
  <2>6. CASE q.pc = "remove"
    <3>1. \A l \in Needs(q) : \/ \E u \in Tags : l = Link(q.channel, u)
                              \/ \E p \in Posts : l = PostRow(p)
      <4>1. Needs(q) = LinksOf(q.channel) \cup {PostRow(p) : p \in PostsOf(q.channel)}
        BY <2>6, NeedsOf
      <4>2. QED BY <4>1 DEF LinksOf, PostsOf
    <3>2. \A p \in Posts : PostRow(p) \in Lock
      BY DEF Lock
    <3>3. Needs(q) \in SUBSET Lock
      BY <2>4, <3>1, <3>2
    <3>4. ASSUME NEW c \in Channels, NEW t \in Tags, Link(c, t) \in Needs(q) PROVE c = q.channel
      <4>1. \A p \in Posts : Link(c, t) # PostRow(p)
        BY LinksAreThemselves
      <4>2. PICK u \in Tags : Link(c, t) = Link(q.channel, u)
        BY <3>1, <3>4, <4>1
      <4>3. QED BY <4>2, LinksAreThemselves
    <3>5. QED BY <3>3, <3>4
  <2>7. QED BY <1>3, <2>2, <2>3, <2>5, <2>6
<1>4. CASE q.pc = "link"
  <2>1. q.channel \in Channels
    BY <1>4 DEF Shape, ChannelSteps, PostSteps
  <2>2. CASE q.todo # {}
    <3>1. NextTag(q) \in Tags
      BY <1>2, <2>2, NextTagIsLeft
    <3>2. Needs(q) = {KeyShare(q.channel), Share(NextTag(q))}
      BY <1>4, <2>2, NeedsOf
    <3>3. QED BY <2>1, <3>1, <3>2, LinksAreThemselves DEF Lock
  <2>3. CASE q.todo = {}
    BY <1>4, <2>3, NeedsOf
  <2>4. QED BY <2>2, <2>3
<1>5. CASE q.pc \in {"strip", "delete", "cascade"}
  <2>1. q.tag \in Tags /\ q.channel = None
    BY <1>5 DEF Shape
  <2>2. CASE q.pc = "strip"
    <3>1. Needs(q) = {PostRow(p) : p \in {x \in Posts : q.tag \in postTags[x]}}
      BY <2>2, NeedsOf
    <3>2. QED BY <2>1, <3>1 DEF Lock
  <2>3. CASE q.pc = "delete"
    <3>1. Needs(q) = {TagRow(t) : t \in {q.tag} \cap Live}
      BY <2>3, NeedsOf
    <3>2. QED BY <2>1, <3>1 DEF Lock
  <2>4. CASE q.pc = "cascade"
    <3>1. Needs(q) = {Link(c, q.tag) : c \in {d \in Channels : <<d, q.tag>> \in links}}
      BY <2>4, NeedsOf
    <3>2. \A l \in Needs(q) : \E d \in Channels : l = Link(d, q.tag)
      BY <3>1
    <3>3. \A d \in Channels : Link(d, q.tag) \in Lock
      BY <2>1 DEF Lock
    <3>4. QED BY <2>1, <3>2, <3>3
  <2>5. QED BY <1>5, <2>2, <2>3, <2>4
<1>6. CASE q.pc \in PostSteps
  <2>1. q.post \in Posts
    BY <1>6 DEF Shape
  <2>2. Needs(q) = {PostRow(q.post)}
    BY <1>6, NeedsOf
  <2>3. QED BY <2>1, <2>2, LinksAreThemselves DEF Lock
<1>7. CASE q.pc \notin {"update", "drop", "unlink", "link", "strip", "delete", "cascade",
                       "remove"} \cup PostSteps
  BY <1>7, NeedsOf
<1>8. QED BY <1>3, <1>4, <1>5, <1>6, <1>7

LEMMA FreeLocksAreCompatible ==
    ASSUME NEW r \in Requests, WaitsFor(r) = {}
    PROVE  \A s \in Requests \ {r} : Compatible(Needs(req[r]), locks[s])
  BY DEF WaitsFor, Compatible
-----------------------------------------------------------------------------
LEMMA NoneIsNothing == /\ None \notin Channels /\ None \notin Tags /\ None \notin Posts
                       /\ \A ts \in SUBSET Tags : ts # None
  BY CatalogAssumption

(* What a step does to the requests that do not take it: what they have    *)
(* locked stays as it is, and a post given a tag late is told apart.       *)
Respects(s) ==
    /\ \A t \in Tags : Share(t) \in locks[s] /\ t \in Live => t \in Live'
    /\ \A c \in Channels : KeyShare(c) \in locks[s] /\ channel[c] # "gone" => channel'[c] # "gone"
    /\ \A c \in Channels : channel[c] # "new" => channel'[c] # "new"
    /\ \A c \in Channels, t \in Tags :
           Row(c) \in locks[s] /\ <<c, t>> \in links' => <<c, t>> \in links
    /\ \A p \in Posts : \A t \in postTags'[p] :
           t \in postTags[p] \/ t \in lateTags' \/ req[s].tag # t \/ req[s].pc = "strip"
    /\ lateTags \subseteq lateTags'
    /\ \A t \in Tags : tag[t] # "new" => tag'[t] \in {tag[t], "gone"}

LEMMA OthersKeep ==
    ASSUME TypeOK, NEW s \in Requests, RequestInv(s), Respects(s),
           req'[s] = req[s], locks'[s] = locks[s]
    PROVE  RequestInv(s)'
<1> DEFINE q == req[s]
<1>1. q \in Request /\ q.channel \in Channels \cup {None} /\ q.tag \in Tags \cup {None}
  BY DEF TypeOK, Request
<1>2. Shape(s)'
  BY DEF RequestInv, Shape
<1>3. LinksHold(s)'
  <2>1. SUFFICES ASSUME q.pc \in {"link", "commit"}, q.channel # None, q.tags # None
                 PROVE  /\ q.todo \subseteq q.tags
                        /\ \A t \in q.tags \ q.todo :
                               /\ Share(t) \in locks[s] /\ t \in Live'
                               /\ KeyShare(q.channel) \in locks[s] /\ channel'[q.channel] # "gone"
    BY DEF LinksHold
  <2>2. QED BY <1>1, <2>1 DEF RequestInv, LinksHold, Respects, Live
<1>4. OwnLinks(s)' /\ RowHeld(s)' /\ KeyHeld(s)'
  BY DEF RequestInv, OwnLinks, RowHeld, KeyHeld
<1>5. DeletesLocked(s)'
  BY <1>1 DEF RequestInv, DeletesLocked, Respects
<1>6. KnownRow(s)'
  BY <1>1 DEF RequestInv, KnownRow, Respects
<1>7. LinksHeld(s)'
  BY <1>1 DEF RequestInv, LinksHeld, RowHeld, Respects
<1>8. PostsHeld(s)'
  <2>1. SUFFICES ASSUME q.tag # None, q.pc # "strip", NEW p \in Posts, q.tag \in postTags'[p]
                 PROVE  PostRow(p) \in locks[s] \/ q.tag \in lateTags'
    BY DEF PostsHeld
  <2>2. q.tag \in postTags[p] \/ q.tag \in lateTags'
    BY <2>1 DEF Respects
  <2>3. q.tag \in postTags[p] => PostRow(p) \in locks[s] \/ q.tag \in lateTags
    BY <2>1 DEF RequestInv, PostsHeld
  <2>4. QED BY <2>2, <2>3 DEF Respects
<1>9. QED BY <1>2, <1>3, <1>4, <1>5, <1>6, <1>7, <1>8 DEF RequestInv

LEMMA IdleIsRequest == Idle \in Request /\ Idle.pc = "idle" /\ Idle.channel = None
                           /\ Idle.tag = None /\ Idle.tags = None
  BY DEF Idle, Request, TagLists

LEMMA InvWhenIdle ==
    ASSUME NEW r \in Requests, req'[r] = Idle, locks'[r] = {} PROVE RequestInv(r)'
<1>1. Shape(r)'
  BY IdleIsRequest DEF Shape, ChannelSteps, PostSteps, Idle
<1>2. QED BY <1>1, IdleIsRequest DEF RequestInv, LinksHold, DeletesLocked, OwnLinks, KnownRow,
                                     KeyHeld, RowHeld, LinksHeld, PostsHeld

LEMMA LocksStayApart ==
    ASSUME TypeOK, LocksExclude, NEW r \in Requests, NEW L,
           \A s \in Requests \ {r} : Compatible(L, locks[s]),
           locks' = [locks EXCEPT ![r] = L]
    PROVE  LocksExclude'
<1>1. locks'[r] = L /\ \A s \in Requests \ {r} : locks'[s] = locks[s]
  BY DEF TypeOK
<1>2. ASSUME NEW s \in Requests, NEW u \in Requests, s # u
      PROVE  Compatible(locks'[s], locks'[u])
  <2>1. CASE s = r
    BY <1>1, <1>2, <2>1
  <2>2. CASE u = r
    BY <1>1, <1>2, <2>2, CompatibleBothWays
  <2>3. CASE s # r /\ u # r
    BY <1>1, <1>2, <2>3 DEF LocksExclude
  <2>4. QED BY <2>1, <2>2, <2>3
<1>3. QED
  <2>1. \A s \in Requests, u \in Requests : s # u => Compatible(locks[s], locks[u])'
    BY <1>2 DEF Compatible
  <2>2. QED BY <2>1 DEF LocksExclude

(* A step that changes what one request does and holds, and no row.        *)
LEMMA QuietStep ==
    ASSUME CatalogInv, NEW r \in Requests, NEW q \in Request, NEW L \in SUBSET Lock,
           req' = [req EXCEPT ![r] = q], locks' = [locks EXCEPT ![r] = L], UNCHANGED Rows,
           \A s \in Requests \ {r} : Compatible(L, locks[s]), RequestInv(r)'
    PROVE  CatalogInv'
<1>1. TypeOK'
  BY DEF CatalogInv, TypeOK, Rows, history, Live
<1>2. LocksExclude'
  BY LocksStayApart DEF CatalogInv
<1>3. DefaultsCreated'
  BY DEF CatalogInv, DefaultsCreated, Rows
<1>4. ASSUME NEW s \in Requests, s # r PROVE RequestInv(s)'
  <2>1. req'[s] = req[s] /\ locks'[s] = locks[s]
    BY <1>4 DEF CatalogInv, TypeOK
  <2>2. Respects(s)
    BY DEF Respects, Rows, history, Live
  <2>3. QED BY <2>1, <2>2, OthersKeep DEF CatalogInv
<1>5. QED BY <1>1, <1>2, <1>3, <1>4 DEF CatalogInv

LEMMA NothingConflictsWithNone == ASSUME NEW K PROVE Compatible({}, K)
  BY DEF Compatible

LEMMA RefusalKeeps ==
    ASSUME CatalogInv, NEW r \in Requests, Refuse(r) PROVE CatalogInv'
<1>1. req' = [req EXCEPT ![r] = Idle] /\ locks' = [locks EXCEPT ![r] = {}] /\ UNCHANGED Rows
  BY DEF Refuse, End
<1>2. req'[r] = Idle /\ locks'[r] = {}
  BY <1>1 DEF CatalogInv, TypeOK
<1>3. RequestInv(r)'
  BY <1>2, InvWhenIdle
<1>4. {} \in SUBSET Lock
  OBVIOUS
<1>5. QED BY <1>1, <1>3, <1>4, QuietStep, IdleIsRequest, NothingConflictsWithNone

(* A statement keeps the locks it has taken.                               *)
LEMMA StatementDoes ==
    ASSUME CatalogInv, NEW r \in Requests, NEW pc, NEW next, Statement(r, pc, next),
           [req[r] EXCEPT !.pc = next] \in Request
    PROVE  /\ req'[r] = [req[r] EXCEPT !.pc = next]
           /\ req'[r].pc = next /\ req'[r].channel = req[r].channel /\ req'[r].tag = req[r].tag
           /\ req'[r].post = req[r].post /\ req'[r].tags = req[r].tags
           /\ req'[r].todo = req[r].todo
           /\ locks'[r] = locks[r] \cup Needs(req[r])
           /\ OwnLinks(r)'
           /\ RequestInv(r)' => CatalogInv'
<1>1. req \in [Requests -> Request] /\ locks \in [Requests -> SUBSET Lock]
  BY DEF CatalogInv, TypeOK
<1>2. req' = [req EXCEPT ![r] = [req[r] EXCEPT !.pc = next]]
  BY <1>1 DEF Statement
<1>3. locks' = [locks EXCEPT ![r] = locks[r] \cup Needs(req[r])]
  BY <1>1 DEF Statement
<1>4. req'[r] = [req[r] EXCEPT !.pc = next] /\ locks'[r] = locks[r] \cup Needs(req[r])
  BY <1>1, <1>2, <1>3
<1>5. /\ req'[r].pc = next /\ req'[r].channel = req[r].channel /\ req'[r].tag = req[r].tag
      /\ req'[r].post = req[r].post /\ req'[r].tags = req[r].tags
      /\ req'[r].todo = req[r].todo
  BY <1>1, <1>4 DEF Request
<1>6. /\ Needs(req[r]) \in SUBSET Lock
      /\ req[r].channel # None =>
             \A c \in Channels, t \in Tags : Link(c, t) \in Needs(req[r]) => c = req[r].channel
  BY NeedsAreLocks DEF CatalogInv, RequestInv
<1>7. OwnLinks(r)'
  BY <1>4, <1>5, <1>6 DEF CatalogInv, RequestInv, OwnLinks
<1>8. \A s \in Requests \ {r} : Compatible(locks[r] \cup Needs(req[r]), locks[s])
  BY FreeLocksAreCompatible DEF Statement, CatalogInv, LocksExclude, Compatible
<1>9. locks[r] \cup Needs(req[r]) \in SUBSET Lock
  BY <1>1, <1>6
<1>10. UNCHANGED Rows
  BY DEF Statement
<1>11. RequestInv(r)' => CatalogInv'
  BY <1>2, <1>3, <1>8, <1>9, <1>10, QuietStep
<1>12. QED BY <1>4, <1>5, <1>7, <1>11

LEMMA StepWithoutLocks ==
    ASSUME CatalogInv, NEW r \in Requests, NEW q \in Request,
           req' = [req EXCEPT ![r] = q], UNCHANGED <<Rows, locks>>
    PROVE  /\ req'[r] = q /\ locks'[r] = locks[r]
           /\ RequestInv(r)' => CatalogInv'
<1>1. req \in [Requests -> Request] /\ locks \in [Requests -> SUBSET Lock]
  BY DEF CatalogInv, TypeOK
<1>2. req'[r] = q /\ locks'[r] = locks[r] /\ locks' = [locks EXCEPT ![r] = locks[r]]
  BY <1>1
<1>3. \A s \in Requests \ {r} : Compatible(locks[r], locks[s])
  BY DEF CatalogInv, LocksExclude
<1>4. RequestInv(r)' => CatalogInv'
  BY <1>1, <1>2, <1>3, QuietStep
<1>5. QED BY <1>2, <1>4

(* A request begins with no lock and has done nothing yet.                 *)
LEMMA StartKeeps ==
    ASSUME CatalogInv, NEW r \in Requests, NEW q \in Request, Start(r, q), q.todo = {},
           \/ /\ q.pc = "insert" /\ q.channel \in Channels /\ q.tag = None
              /\ q.tags \in SUBSET Tags
           \/ q.pc \in {"load", "drop"} /\ q.channel \in Channels /\ q.tag = None
           \/ q.pc = "strip" /\ q.channel = None /\ q.tag \in Live
           \/ /\ q.pc \in {"edit", "decide", "policy"} /\ q.channel = None /\ q.tag = None
              /\ q.post \in Posts
              /\ q.pc # "policy" => q.tags \in SUBSET Tags
    PROVE  CatalogInv'
<1>1. locks[r] = {}
  BY DEF CatalogInv, RequestInv, Shape, Start
<1>2. req'[r] = q /\ locks'[r] = {} /\ (RequestInv(r)' => CatalogInv')
  BY <1>1, StepWithoutLocks DEF Start
<1>3. None \notin Tags /\ None \notin Channels
  BY CatalogAssumption
<1>4. Shape(r)'
  BY <1>2, <1>3 DEF Shape, ChannelSteps, PostSteps, Live
<1>5. tag' = tag
  BY DEF Start, Rows
<1>6. /\ LinksHold(r)' /\ DeletesLocked(r)' /\ OwnLinks(r)' /\ KnownRow(r)' /\ KeyHeld(r)'
      /\ RowHeld(r)' /\ LinksHeld(r)' /\ PostsHeld(r)'
  BY <1>2, <1>3, <1>5 DEF LinksHold, DeletesLocked, OwnLinks, KnownRow, KeyHeld, RowHeld, LinksHeld,
                          PostsHeld, Live
<1>7. QED BY <1>2, <1>4, <1>6 DEF RequestInv

LEMMA StartsKeep ==
    ASSUME CatalogInv, NEW r \in Requests,
           \/ StartCreateChannel(r) \/ StartUpdateChannel(r) \/ StartUpdateAiSettings(r)
           \/ StartDeleteChannel(r) \/ StartDeleteTag(r) \/ StartEdit(r) \/ StartDecide(r)
           \/ StartNormalize(r)
    PROVE  CatalogInv'
<1>1. ASSUME NEW c \in Channels, NEW ts \in (SUBSET Tags) \cup {None},
             NEW pc \in {"insert", "load", "drop"},
             pc = "insert" => ts \in SUBSET Tags,
             Start(r, [Idle EXCEPT !.pc = pc, !.channel = c, !.tags = ts])
      PROVE  CatalogInv'
  <2> DEFINE q == [Idle EXCEPT !.pc = pc, !.channel = c, !.tags = ts]
  <2>1. /\ q \in Request /\ q.pc = pc /\ q.channel = c /\ q.tag = None /\ q.tags = ts
        /\ q.todo = {}
    BY DEF Idle, Request, TagLists
  <2>2. Start(r, q)
    BY <1>1
  <2> HIDE DEF q
  <2>3. QED BY <1>1, <2>1, <2>2, StartKeeps
<1>2. ASSUME NEW c \in Channels, NEW pc \in {"load", "drop"},
             Start(r, [Idle EXCEPT !.pc = pc, !.channel = c])
      PROVE  CatalogInv'
  <2> DEFINE q == [Idle EXCEPT !.pc = pc, !.channel = c]
  <2>1. q \in Request /\ q.pc = pc /\ q.channel = c /\ q.tag = None /\ q.todo = {}
    BY DEF Idle, Request, TagLists
  <2>2. Start(r, q)
    BY <1>2
  <2> HIDE DEF q
  <2>3. QED BY <2>1, <2>2, StartKeeps
<1>3. ASSUME NEW t \in Live, Start(r, [Idle EXCEPT !.pc = "strip", !.tag = t]) PROVE CatalogInv'
  <2> DEFINE q == [Idle EXCEPT !.pc = "strip", !.tag = t]
  <2>1. q \in Request /\ q.pc = "strip" /\ q.channel = None /\ q.tag = t /\ q.todo = {}
    BY DEF Idle, Request, TagLists, Live
  <2>2. Start(r, q)
    BY <1>3
  <2> HIDE DEF q
  <2>3. QED BY <2>1, <2>2, StartKeeps
<1>4. ASSUME NEW q \in Request, Start(r, q), q.pc \in {"edit", "decide", "policy"},
             q.channel = None, q.tag = None, q.post \in Posts, q.todo = {},
             q.pc # "policy" => q.tags \in SUBSET Tags
      PROVE  CatalogInv'
  BY <1>4, StartKeeps
<1>5. postTags \in [Posts -> SUBSET Tags] /\ given \in [Posts -> TagLists]
  BY DEF CatalogInv, TypeOK
<1>6. Lists \subseteq SUBSET Tags /\ None \in TagLists /\ SUBSET Tags \subseteq TagLists
  BY CatalogAssumption DEF TagLists
<1>7. CASE StartCreateChannel(r)
  BY <1>1, <1>6, <1>7 DEF StartCreateChannel
<1>8. CASE StartUpdateChannel(r)
  BY <1>1, <1>6, <1>8 DEF StartUpdateChannel
<1>9. CASE StartUpdateAiSettings(r)
  BY <1>2, <1>9 DEF StartUpdateAiSettings
<1>10. CASE StartDeleteChannel(r)
  BY <1>2, <1>10 DEF StartDeleteChannel
<1>11. CASE StartDeleteTag(r)
  BY <1>3, <1>11 DEF StartDeleteTag
<1>12. CASE StartEdit(r)
  <2>1. PICK p \in Posts, ts \in Lists : Start(r, [Idle EXCEPT !.pc = "edit", !.post = p, !.tags = ts])
    BY <1>12 DEF StartEdit
  <2> DEFINE q == [Idle EXCEPT !.pc = "edit", !.post = p, !.tags = ts]
  <2>2. /\ q \in Request /\ q.pc = "edit" /\ q.channel = None /\ q.tag = None /\ q.post = p
        /\ q.todo = {} /\ q.tags \in SUBSET Tags
    BY <1>6 DEF Idle, Request, TagLists
  <2>3. QED BY <1>4, <2>1, <2>2
<1>13. CASE StartDecide(r)
  <2>1. PICK p \in Posts : Start(r, [Idle EXCEPT !.pc = "decide", !.post = p, !.tags = postTags[p],
                                                !.base = given[p]])
    BY <1>13 DEF StartDecide
  <2> DEFINE q == [Idle EXCEPT !.pc = "decide", !.post = p, !.tags = postTags[p], !.base = given[p]]
  <2>2. /\ q \in Request /\ q.pc = "decide" /\ q.channel = None /\ q.tag = None /\ q.post = p
        /\ q.todo = {} /\ q.tags \in SUBSET Tags
    BY <1>5 DEF Idle, Request, TagLists
  <2>3. QED BY <1>4, <2>1, <2>2
<1>14. CASE StartNormalize(r)
  <2>1. PICK p \in Posts : Start(r, [Idle EXCEPT !.pc = "policy", !.post = p, !.seen = postTags[p],
                                                !.base = given[p]])
    BY <1>14 DEF StartNormalize
  <2> DEFINE q == [Idle EXCEPT !.pc = "policy", !.post = p, !.seen = postTags[p], !.base = given[p]]
  <2>2. /\ q \in Request /\ q.pc = "policy" /\ q.channel = None /\ q.tag = None /\ q.post = p
        /\ q.todo = {}
    BY <1>5 DEF Idle, Request, TagLists
  <2>3. QED BY <1>4, <2>1, <2>2
<1>15. QED BY <1>7, <1>8, <1>9, <1>10, <1>11, <1>12, <1>13, <1>14

LEMMA MovedRequest ==
    ASSUME TypeOK, NEW r \in Requests,
           NEW pc \in {"idle", "insert", "load", "update", "unlink", "select", "link", "strip",
                       "delete", "cascade", "drop", "remove", "edit", "decide", "policy",
                       "normalize", "commit"}
    PROVE  /\ [req[r] EXCEPT !.pc = pc] \in Request
           /\ [req[r] EXCEPT !.pc = pc].pc = pc
           /\ [req[r] EXCEPT !.pc = pc].channel = req[r].channel
           /\ [req[r] EXCEPT !.pc = pc].tag = req[r].tag
           /\ [req[r] EXCEPT !.pc = pc].tags = req[r].tags
           /\ [req[r] EXCEPT !.pc = pc].todo = req[r].todo
  BY DEF TypeOK, Request

LEMMA InsertChannelKeeps ==
    ASSUME CatalogInv, NEW r \in Requests, InsertChannel(r) PROVE CatalogInv'
<1> DEFINE c == req[r].channel
           L == {Row(c)}
           q == [req[r] EXCEPT !.pc = "select"]
<1>1. CASE channel[c] # "new"
  BY <1>1, RefusalKeeps DEF InsertChannel
<1>2. CASE channel[c] = "new"
  <2>1. TypeOK
    BY DEF CatalogInv
  <2>2. /\ req[r].pc = "insert" /\ c \in Channels /\ req[r].tag = None
        /\ req[r].tags \in SUBSET Tags /\ req[r].todo = {}
    BY DEF InsertChannel, CatalogInv, RequestInv, Shape, ChannelSteps
  <2>3. L \in SUBSET Lock
    BY <2>2 DEF Lock
  <2>4. req' = [req EXCEPT ![r] = q] /\ locks' = [locks EXCEPT ![r] = L] /\ UNCHANGED Rows
    BY <1>2, <2>1 DEF InsertChannel, TypeOK
  <2>5. \A s \in Requests \ {r} : Compatible(L, locks[s])
    BY <2>1, WhatConflicts DEF InsertChannel, Compatible, TypeOK
  <2>6. /\ q \in Request /\ q.pc = "select" /\ q.channel = c /\ q.tag = None
        /\ q.tags = req[r].tags /\ q.todo = {}
    BY <2>1, <2>2, MovedRequest
  <2>7. req'[r] = q /\ locks'[r] = L
    BY <2>1, <2>4 DEF TypeOK
  <2> HIDE DEF q
  <2>8. \A t \in Tags : <<c, t>> \notin links'
    BY <1>2, <2>1, <2>4 DEF TypeOK, Rows
  <2>9. Shape(r)' /\ LinksHold(r)' /\ DeletesLocked(r)' /\ KeyHeld(r)' /\ KnownRow(r)' /\ PostsHeld(r)'
    BY <2>2, <2>6, <2>7 DEF Shape, ChannelSteps, PostSteps, LinksHold, DeletesLocked, KeyHeld, KnownRow, PostsHeld
  <2>10. OwnLinks(r)'
    BY <2>7, LinksAreThemselves DEF OwnLinks
  <2>11. RowHeld(r)'
    BY <2>6, <2>7 DEF RowHeld
  <2>12. LinksHeld(r)'
    BY <2>6, <2>7, <2>8 DEF LinksHeld
  <2>13. RequestInv(r)'
    BY <2>9, <2>10, <2>11, <2>12 DEF RequestInv
  <2>14. QED BY <2>3, <2>4, <2>5, <2>6, <2>13, QuietStep
<1>3. QED BY <1>1, <1>2

LEMMA LoadChannelKeeps ==
    ASSUME CatalogInv, NEW r \in Requests, LoadChannel(r) PROVE CatalogInv'
<1> DEFINE c == req[r].channel
<1>1. CASE channel[c] # "live"
  BY <1>1, RefusalKeeps DEF LoadChannel
<1>2. CASE channel[c] = "live"
  <2>1. TypeOK
    BY DEF CatalogInv
  <2>2. req[r].pc = "load" /\ c \in Channels /\ req[r].tag = None /\ req[r].todo = {}
    BY DEF LoadChannel, CatalogInv, RequestInv, Shape, ChannelSteps
  <2> DEFINE q == [req[r] EXCEPT !.pc = "update"]
  <2>3. req' = [req EXCEPT ![r] = q] /\ UNCHANGED <<Rows, locks>>
    BY <1>2, <2>1 DEF LoadChannel, TypeOK
  <2>4. /\ q \in Request /\ q.pc = "update" /\ q.channel = c /\ q.tag = None
        /\ q.tags = req[r].tags /\ q.todo = req[r].todo
    BY <2>1, <2>2, MovedRequest
  <2>5. req'[r] = q /\ locks'[r] = locks[r] /\ (RequestInv(r)' => CatalogInv')
    BY <2>3, <2>4, StepWithoutLocks
  <2> HIDE DEF q
  <2>6. /\ Shape(r)' /\ LinksHold(r)' /\ DeletesLocked(r)' /\ PostsHeld(r)' /\ KeyHeld(r)'
        /\ RowHeld(r)' /\ LinksHeld(r)'
    BY <2>2, <2>4, <2>5 DEF Shape, ChannelSteps, PostSteps, LinksHold, DeletesLocked, PostsHeld,
                            KeyHeld, RowHeld, LinksHeld
  <2>7. KnownRow(r)'
    BY <1>2, <2>3, <2>4, <2>5 DEF KnownRow, Rows
  <2>8. OwnLinks(r)'
    BY <2>2, <2>4, <2>5 DEF OwnLinks, CatalogInv, RequestInv
  <2>9. QED BY <2>5, <2>6, <2>7, <2>8 DEF RequestInv
<1>3. QED BY <1>1, <1>2

LEMMA WriteChannelKeeps ==
    ASSUME CatalogInv, NEW r \in Requests, WriteChannel(r) PROVE CatalogInv'
<1> DEFINE c == req[r].channel
<1>1. CASE channel[c] # "live"
  BY <1>1, RefusalKeeps DEF WriteChannel
<1>2. CASE channel[c] = "live"
  <2>1. TypeOK
    BY DEF CatalogInv
  <2>2. req[r].pc = "update" /\ c \in Channels /\ req[r].tag = None /\ c # None
    BY CatalogAssumption DEF WriteChannel, CatalogInv, RequestInv, Shape, ChannelSteps
  <2>3. PICK pc \in {"commit", "unlink"} :
            Statement(r, "update", pc) /\ (pc = "commit" <=> req[r].tags = None)
    BY <1>2 DEF WriteChannel
  <2>4. req[r].tags # None => req[r].tags \in SUBSET Tags
    BY <2>1 DEF TypeOK, Request, TagLists
  <2>5. Needs(req[r]) = {Row(c)}
    BY <2>2, NeedsOf
  <2>6. [req[r] EXCEPT !.pc = pc] \in Request
    BY <2>1, MovedRequest
  <2>7. /\ req'[r].pc = pc /\ req'[r].channel = c /\ req'[r].tag = None
        /\ req'[r].tags = req[r].tags /\ req'[r].todo = req[r].todo
        /\ Row(c) \in locks'[r] /\ OwnLinks(r)' /\ (RequestInv(r)' => CatalogInv')
    BY <2>2, <2>3, <2>5, <2>6, StatementDoes
  <2>8. UNCHANGED Rows
    BY <2>3 DEF Statement
  <2>9. LinksHold(r)' /\ DeletesLocked(r)' /\ KeyHeld(r)' /\ PostsHeld(r)' /\ RowHeld(r)'
        /\ LinksHeld(r)'
    BY <2>3, <2>7 DEF LinksHold, DeletesLocked, KeyHeld, PostsHeld, RowHeld, LinksHeld
  <2>10. KnownRow(r)'
    BY <1>2, <2>7, <2>8 DEF KnownRow, Rows
  <2>11. req[r].todo = {}
    BY <2>2 DEF CatalogInv, RequestInv, Shape
  <2>12. Shape(r)'
    BY <2>2, <2>3, <2>4, <2>7, <2>11 DEF Shape, ChannelSteps, PostSteps
  <2>13. QED BY <2>7, <2>9, <2>10, <2>12 DEF RequestInv
<1>3. QED BY <1>1, <1>2

LEMMA DeleteLinksKeeps ==
    ASSUME CatalogInv, NEW r \in Requests, DeleteLinks(r) PROVE CatalogInv'
<1> DEFINE c == req[r].channel
<1>1. TypeOK
  BY DEF CatalogInv
<1>2. /\ req[r].pc = "unlink" /\ c \in Channels /\ req[r].tag = None
      /\ req[r].tags \in SUBSET Tags /\ req[r].todo = {}
  BY DEF DeleteLinks, Statement, CatalogInv, RequestInv, Shape, ChannelSteps
<1>3. c # None
  BY <1>2, CatalogAssumption
<1>4. Needs(req[r]) = {Link(c, t) : t \in {u \in Tags : <<c, u>> \in links}}
  BY <1>2, NeedsOf DEF LinksOf
<1>5. Statement(r, "unlink", "select") /\ UNCHANGED Rows
  BY DEF DeleteLinks, Statement
<1>6. [req[r] EXCEPT !.pc = "select"] \in Request
  BY <1>1, MovedRequest
<1>7. /\ req'[r].pc = "select" /\ req'[r].channel = c /\ req'[r].tag = None
      /\ req'[r].tags = req[r].tags /\ req'[r].todo = {}
      /\ locks'[r] = locks[r] \cup Needs(req[r])
      /\ OwnLinks(r)' /\ (RequestInv(r)' => CatalogInv')
  BY <1>2, <1>5, <1>6, StatementDoes
<1>8. /\ Shape(r)' /\ LinksHold(r)' /\ DeletesLocked(r)' /\ KeyHeld(r)' /\ KnownRow(r)' /\ PostsHeld(r)'
  BY <1>2, <1>7 DEF Shape, ChannelSteps, PostSteps, LinksHold, DeletesLocked, KeyHeld, KnownRow, PostsHeld
<1>9. RowHeld(r)'
  BY <1>2, <1>3, <1>7 DEF RowHeld, CatalogInv, RequestInv
<1>10. \A t \in Tags : <<c, t>> \in links' => Link(c, t) \in locks'[r]
  BY <1>4, <1>5, <1>7 DEF Rows
<1>11. LinksHeld(r)'
  BY <1>7, <1>10 DEF LinksHeld
<1>12. QED BY <1>7, <1>8, <1>9, <1>11 DEF RequestInv

LEMMA SelectTagsKeeps ==
    ASSUME CatalogInv, NEW r \in Requests, SelectTags(r) PROVE CatalogInv'
<1>1. CASE ~(req[r].tags \subseteq Live)
  BY <1>1, RefusalKeeps DEF SelectTags
<1>2. CASE req[r].tags \subseteq Live
  <2> DEFINE c == req[r].channel
             q == [req[r] EXCEPT !.pc = "link", !.todo = req[r].tags]
  <2>1. TypeOK
    BY DEF CatalogInv
  <2>2. /\ req[r].pc = "select" /\ c \in Channels /\ req[r].tag = None
        /\ req[r].tags \in SUBSET Tags
    BY DEF SelectTags, CatalogInv, RequestInv, Shape, ChannelSteps
  <2>3. c # None
    BY <2>2, CatalogAssumption
  <2>4. /\ q \in Request /\ q.pc = "link" /\ q.channel = c /\ q.tag = None
        /\ q.tags = req[r].tags /\ q.todo = req[r].tags
    BY <2>1, <2>2 DEF TypeOK, Request
  <2>5. req' = [req EXCEPT ![r] = q] /\ UNCHANGED <<Rows, locks>>
    BY <1>2, <2>1 DEF SelectTags, TypeOK
  <2> HIDE DEF q
  <2>6. req'[r] = q /\ locks'[r] = locks[r] /\ (RequestInv(r)' => CatalogInv')
    BY <2>4, <2>5, StepWithoutLocks
  <2>7. Shape(r)' /\ DeletesLocked(r)' /\ KeyHeld(r)' /\ KnownRow(r)' /\ PostsHeld(r)' /\ LinksHold(r)'
    BY <2>2, <2>4, <2>6 DEF Shape, ChannelSteps, PostSteps, DeletesLocked, KeyHeld, KnownRow, PostsHeld, LinksHold
  <2>8. OwnLinks(r)'
    BY <2>3, <2>4, <2>6 DEF OwnLinks, CatalogInv, RequestInv
  <2>9. RowHeld(r)' /\ LinksHeld(r)'
    BY <2>2, <2>3, <2>4, <2>5, <2>6 DEF RowHeld, LinksHeld, CatalogInv, RequestInv, Rows
  <2>10. QED BY <2>6, <2>7, <2>8, <2>9 DEF RequestInv
<1>3. QED BY <1>1, <1>2

LEMMA InsertLinkKeeps ==
    ASSUME CatalogInv, NEW r \in Requests, InsertLink(r) PROVE CatalogInv'
<1> DEFINE c == req[r].channel
           left == req[r].todo
           next == NextTag(req[r])
<1>1. TypeOK
  BY DEF CatalogInv
<1>2. /\ req[r].pc = "link" /\ c \in Channels /\ req[r].tag = None
      /\ req[r].tags \in SUBSET Tags
  BY DEF InsertLink, CatalogInv, RequestInv, Shape, ChannelSteps
<1>3. c # None /\ req[r].tags # None
  BY <1>2, NoneIsNothing
<1>4. /\ left \subseteq req[r].tags
      /\ \A t \in req[r].tags \ left : /\ Share(t) \in locks[r] /\ t \in Live
                                       /\ KeyShare(c) \in locks[r] /\ channel[c] # "gone"
  BY <1>2, <1>3 DEF CatalogInv, RequestInv, LinksHold
<1>5.     /\ Row(c) \in locks[r]
          /\ \A t \in Tags : <<c, t>> \in links => Link(c, t) \in locks[r]
  BY <1>2, <1>3 DEF CatalogInv, RequestInv, RowHeld, LinksHeld
<1>6. CASE left = {}
  <2>1. Statement(r, "link", "commit") /\ UNCHANGED Rows
    BY <1>6 DEF InsertLink, Statement
  <2>2. [req[r] EXCEPT !.pc = "commit"] \in Request
    BY <1>1, MovedRequest
  <2>3. /\ req'[r].pc = "commit" /\ req'[r].channel = c /\ req'[r].tag = None
        /\ req'[r].tags = req[r].tags /\ req'[r].todo = {}
        /\ locks[r] \subseteq locks'[r]
        /\ OwnLinks(r)' /\ (RequestInv(r)' => CatalogInv')
    BY <1>2, <1>6, <2>1, <2>2, StatementDoes
  <2>4. Shape(r)' /\ DeletesLocked(r)' /\ KeyHeld(r)' /\ KnownRow(r)' /\ PostsHeld(r)'
    BY <1>2, <1>3, <2>3 DEF Shape, ChannelSteps, PostSteps, DeletesLocked, KeyHeld, KnownRow, PostsHeld
  <2>5. LinksHold(r)'
    BY <1>4, <1>6, <2>1, <2>3 DEF LinksHold, Rows, Live
  <2>6. RowHeld(r)' /\ LinksHeld(r)'
    BY <1>5, <2>1, <2>3 DEF RowHeld, LinksHeld, Rows
  <2>7. QED BY <2>3, <2>4, <2>5, <2>6 DEF RequestInv
<1>7. CASE left # {} /\ (next \notin Live \/ channel[c] = "gone")
  BY <1>7, RefusalKeeps DEF InsertLink
<1>8. CASE left # {} /\ next \in Live /\ channel[c] # "gone"
  <2> DEFINE q == [req[r] EXCEPT !.todo = left \ {next}]
             L == locks[r] \cup Needs(req[r])
  <2>1. next \in left
    BY <1>8, NextTagIsLeft
  <2>2. /\ q \in Request /\ q.pc = "link" /\ q.channel = c /\ q.tag = None
        /\ q.tags = req[r].tags /\ q.todo = left \ {next}
    BY <1>1, <1>2 DEF TypeOK, Request
  <2>3. /\ req' = [req EXCEPT ![r] = q] /\ locks' = [locks EXCEPT ![r] = L] /\ UNCHANGED Rows
    BY <1>1, <1>8 DEF InsertLink, TypeOK
  <2>4. Needs(req[r]) = {KeyShare(c), Share(next)}
    BY <1>2, <1>8, NeedsOf
  <2>5. L \in SUBSET Lock /\ \A d \in Channels, t \in Tags : Link(d, t) \in L => d = c
    BY <1>1, <1>3, NeedsAreLocks DEF CatalogInv, RequestInv, OwnLinks, TypeOK
  <2>6. \A s \in Requests \ {r} : Compatible(L, locks[s])
    BY FreeLocksAreCompatible DEF InsertLink, CatalogInv, LocksExclude, Compatible
  <2>7. req'[r] = q /\ locks'[r] = L
    BY <1>1, <2>3 DEF TypeOK
  <2>8. Share(next) \in L /\ KeyShare(c) \in L /\ locks[r] \subseteq L
    BY <2>4
  <2> HIDE DEF q, L, next
  <2>9. Shape(r)' /\ DeletesLocked(r)' /\ KeyHeld(r)' /\ KnownRow(r)' /\ PostsHeld(r)'
    BY <1>2, <2>2, <2>7 DEF Shape, ChannelSteps, PostSteps, DeletesLocked, KeyHeld, KnownRow, PostsHeld
  <2>10. LinksHold(r)'
    <3>1. left \ {next} \subseteq req[r].tags
      BY <1>4
    <3>2. ASSUME NEW t \in req[r].tags \ (left \ {next})
          PROVE  Share(t) \in L /\ t \in Live' /\ KeyShare(c) \in L /\ channel'[c] # "gone"
      <4>1. UNCHANGED <<tag, channel>>
        BY <2>3 DEF Rows
      <4>2. CASE t = next
        BY <1>8, <2>8, <4>1, <4>2 DEF Live, next
      <4>3. CASE t # next
        BY <1>4, <2>8, <4>1, <4>3 DEF Live
      <4>4. QED BY <4>2, <4>3
    <3>3. QED BY <2>2, <2>7, <3>1, <3>2 DEF LinksHold
  <2>11. RowHeld(r)' /\ LinksHeld(r)'
    BY <1>5, <2>2, <2>3, <2>7, <2>8 DEF RowHeld, LinksHeld, Rows
  <2>12. OwnLinks(r)'
    BY <2>2, <2>5, <2>7 DEF OwnLinks
  <2>13. RequestInv(r)'
    BY <2>9, <2>10, <2>11, <2>12 DEF RequestInv
  <2>14. QED BY <2>2, <2>3, <2>5, <2>6, <2>13, QuietStep
<1>9. QED BY <1>6, <1>7, <1>8

(* The deletion of a tag, up to its commit.                                *)
LEMMA DeletionKeeps ==
    ASSUME CatalogInv, NEW r \in Requests, StripPosts(r) \/ DeleteTag(r) \/ CascadeLinks(r)
    PROVE  CatalogInv'
<1> DEFINE t == req[r].tag
<1>1. TypeOK
  BY DEF CatalogInv
<1>2. PICK pc \in {"strip", "delete", "cascade"}, next \in {"delete", "cascade", "commit"} :
          /\ Statement(r, pc, next)
          /\ <<pc, next>> \in {<<"strip", "delete">>, <<"delete", "cascade">>,
                               <<"cascade", "commit">>}
  BY DEF StripPosts, DeleteTag, CascadeLinks
<1>3. req[r].pc = pc /\ t \in Tags /\ req[r].channel = None /\ req[r].todo = {} /\ t # None
  BY <1>2, CatalogAssumption DEF Statement, CatalogInv, RequestInv, Shape
<1>4. [req[r] EXCEPT !.pc = next] \in Request
  BY <1>1, MovedRequest
<1>5. /\ req'[r].pc = next /\ req'[r].channel = None /\ req'[r].tag = t /\ req'[r].todo = {}
      /\ locks'[r] = locks[r] \cup Needs(req[r])
      /\ OwnLinks(r)' /\ (RequestInv(r)' => CatalogInv')
  BY <1>2, <1>3, <1>4, StatementDoes
<1>6. UNCHANGED Rows
  BY <1>2 DEF Statement
<1>7. Shape(r)' /\ LinksHold(r)' /\ KnownRow(r)' /\ KeyHeld(r)' /\ RowHeld(r)' /\ LinksHeld(r)'
  BY <1>2, <1>3, <1>5 DEF Shape, ChannelSteps, PostSteps, LinksHold, KeyHeld, KnownRow, RowHeld, LinksHeld
<1>8. DeletesLocked(r)'
  <2>1. tag[t] # "new"
    BY <1>3 DEF CatalogInv, RequestInv, DeletesLocked
  <2>2. CASE pc = "delete"
    <3>1. Needs(req[r]) = {TagRow(u) : u \in {t} \cap Live}
      BY <1>3, <2>2, NeedsOf
    <3>2. t \in Live => TagRow(t) \in locks'[r]
      BY <1>5, <3>1
    <3>3. tag[t] # "live" => tag[t] = "gone"
      BY <1>1, <1>3, <2>1 DEF TypeOK
    <3>4. QED BY <1>3, <1>5, <1>6, <2>1, <3>2, <3>3 DEF DeletesLocked, Rows, Live
  <2>3. CASE pc = "cascade"
    BY <1>3, <1>5, <1>6, <2>3 DEF DeletesLocked, CatalogInv, RequestInv, Rows
  <2>4. CASE pc = "strip"
    BY <1>2, <1>5, <1>6, <2>1, <2>4 DEF DeletesLocked, Rows
  <2>5. QED BY <2>2, <2>3, <2>4
<1>9. PostsHeld(r)'
  <2>1. CASE pc = "strip"
    <3>1. Needs(req[r]) = {PostRow(p) : p \in {x \in Posts : t \in postTags[x]}}
      BY <1>3, <2>1, NeedsOf
    <3>2. \A p \in Posts : t \in postTags'[p] => PostRow(p) \in locks'[r]
      BY <1>5, <1>6, <3>1 DEF Rows
    <3>3. QED BY <1>5, <3>2 DEF PostsHeld
  <2>2. CASE pc # "strip"
    BY <1>3, <1>5, <1>6, <2>2 DEF PostsHeld, CatalogInv, RequestInv, Rows
  <2>3. QED BY <2>1, <2>2
<1>10. QED BY <1>5, <1>7, <1>8, <1>9 DEF RequestInv
-----------------------------------------------------------------------------
(* The steps that change rows.                                             *)

LEMMA CreateTagKeeps == ASSUME CatalogInv, CreateTag PROVE CatalogInv'
<1>1. PICK t \in Tags : /\ tag[t] = "new" /\ tag' = [tag EXCEPT ![t] = "live"]
                        /\ UNCHANGED <<channel, defaults, links, postTags, req, locks, lateTags, given>>
  BY DEF CreateTag, history
<1>2. TypeOK
  BY DEF CatalogInv
<1>3. Live \subseteq Live' /\ tag' \in [Tags -> {"new", "live", "gone"}]
  BY <1>1, <1>2 DEF Live, TypeOK
<1>4. TypeOK'
  BY <1>1, <1>2, <1>3 DEF TypeOK
<1>5. LocksExclude'
  BY <1>1 DEF CatalogInv, LocksExclude
<1>6. DefaultsCreated'
  BY <1>1, <1>2 DEF CatalogInv, DefaultsCreated, TypeOK
<1>7. ASSUME NEW s \in Requests PROVE RequestInv(s)'
  <2>1. \A u \in Tags : tag[u] # "new" => tag'[u] \in {tag[u], "gone"}
    BY <1>1, <1>2 DEF TypeOK
  <2>2. Respects(s)
    BY <1>1, <1>3, <2>1 DEF Respects
  <2>3. QED BY <1>1, <1>2, <2>2, OthersKeep DEF CatalogInv
<1>8. QED BY <1>4, <1>5, <1>6, <1>7 DEF CatalogInv

LEMMA CommitStep ==
    ASSUME CatalogInv, NEW r \in Requests, End(r),
           tag' \in [Tags -> {"new", "live", "gone"}],
           channel' \in [Channels -> {"new", "live", "gone"}],
           defaults' \in [Channels -> SUBSET Tags],
           links' \subseteq {c \in Channels : channel'[c] = "live"} \X Live',
           postTags' \in [Posts -> SUBSET Tags],
           lateTags' \subseteq Tags,
           given' \in [Posts -> TagLists],
           DefaultsCreated',
           \A s \in Requests \ {r} : Respects(s)
    PROVE  CatalogInv'
<1>1. TypeOK
  BY DEF CatalogInv
<1>2. req' = [req EXCEPT ![r] = Idle] /\ locks' = [locks EXCEPT ![r] = {}]
  BY DEF End
<1>3. req'[r] = Idle /\ locks'[r] = {}
  BY <1>1, <1>2 DEF TypeOK
<1>4. req' \in [Requests -> Request] /\ locks' \in [Requests -> SUBSET Lock]
  BY <1>1, <1>2, IdleIsRequest DEF TypeOK
<1>5. TypeOK'
  BY <1>4 DEF TypeOK
<1>6. LocksExclude'
  BY <1>1, <1>2, LocksStayApart, NothingConflictsWithNone DEF CatalogInv
<1>7. RequestInv(r)'
  BY <1>3, InvWhenIdle
<1>8. ASSUME NEW s \in Requests, s # r PROVE RequestInv(s)'
  <2>1. req'[s] = req[s] /\ locks'[s] = locks[s]
    BY <1>1, <1>2, <1>8 DEF TypeOK
  <2>2. QED BY <1>1, <1>8, <2>1, OthersKeep DEF CatalogInv
<1>9. QED BY <1>5, <1>6, <1>7, <1>8 DEF CatalogInv

(* What a request that writes a channel knows when it commits.             *)
LEMMA ChannelAtCommit ==
    ASSUME CatalogInv, NEW r \in Requests, CommitChannel(r)
    PROVE  /\ req[r].pc = "commit" /\ req[r].channel \in Channels
           /\ req[r].tags # None => /\ req[r].tags \subseteq Live
                                    /\ req[r].tags # {} => channel[req[r].channel] # "gone"
           /\ req[r].tags = None => channel[req[r].channel] # "new"
           /\ \A c \in Channels, t \in Tags : Link(c, t) \in locks[r] => c = req[r].channel
<1> DEFINE c == req[r].channel
<1>1. req[r].pc = "commit" /\ c # None
  BY DEF CommitChannel
<1>2. c \in Channels /\ req[r].todo = {}
  BY <1>1 DEF CatalogInv, RequestInv, Shape
<1>3. ASSUME req[r].tags # None
      PROVE  req[r].tags \subseteq Live /\ (req[r].tags # {} => channel[c] # "gone")
  <2>1. \A t \in req[r].tags : t \in Live /\ channel[c] # "gone"
    BY <1>1, <1>2, <1>3 DEF CatalogInv, RequestInv, LinksHold
  <2>2. QED BY <2>1
<1>4. req[r].tags = None => channel[c] # "new"
  BY <1>1 DEF CatalogInv, RequestInv, KnownRow
<1>5. \A d \in Channels, t \in Tags : Link(d, t) \in locks[r] => d = c
  BY <1>1 DEF CatalogInv, RequestInv, OwnLinks
<1>6. QED BY <1>1, <1>2, <1>3, <1>4, <1>5

LEMMA CommitChannelKeeps ==
    ASSUME CatalogInv, NEW r \in Requests, CommitChannel(r) PROVE CatalogInv'
<1> DEFINE c == req[r].channel
           ts == req[r].tags
<1>1. TypeOK
  BY DEF CatalogInv
<1>2. /\ req[r].pc = "commit" /\ c \in Channels
      /\ ts # None => ts \subseteq Live /\ (ts # {} => channel[c] # "gone")
      /\ ts = None => channel[c] # "new"
  BY ChannelAtCommit
<1>3. /\ channel' = [channel EXCEPT ![c] = IF channel[c] = "new" THEN "live" ELSE channel[c]]
      /\ defaults' = IF ts = None \/ Row(c) \notin locks[r] THEN defaults
                     ELSE [defaults EXCEPT ![c] = ts]
      /\ links' = IF ts = None THEN links ELSE (links \ Unlinked(r)) \cup ({c} \X ts)
      /\ End(r) /\ UNCHANGED <<tag, postTags, history>>
  BY <1>1, <1>2 DEF CommitChannel, TypeOK
<1>4. Live' = Live /\ Live \subseteq Tags
  BY <1>3 DEF Live
<1>5. /\ tag' \in [Tags -> {"new", "live", "gone"}] /\ postTags' \in [Posts -> SUBSET Tags]
      /\ lateTags' \subseteq Tags /\ given' \in [Posts -> TagLists]
  BY <1>1, <1>3 DEF TypeOK, history
<1>6. /\ channel' \in [Channels -> {"new", "live", "gone"}]
      /\ \A d \in Channels : /\ channel[d] = "live" => channel'[d] = "live"
                             /\ channel[d] # "new" => channel'[d] = channel[d]
                             /\ channel'[d] = "gone" => channel[d] = "gone"
      /\ channel[c] # "gone" => channel'[c] = "live"
  BY <1>1, <1>2, <1>3 DEF TypeOK
<1>7. defaults' \in [Channels -> SUBSET Tags]
  BY <1>1, <1>2, <1>3, <1>4 DEF TypeOK
<1>8. links' \subseteq {d \in Channels : channel'[d] = "live"} \X Live'
  <2>1. links \subseteq {d \in Channels : channel'[d] = "live"} \X Live'
    BY <1>1, <1>4, <1>6 DEF TypeOK
  <2>2. CASE ts = None
    BY <1>3, <2>1, <2>2
  <2>3. CASE ts # None
    <3>1. links' \subseteq links \cup ({c} \X ts)
      BY <1>3, <2>3
    <3>2. {c} \X ts \subseteq {d \in Channels : channel'[d] = "live"} \X Live'
      <4>1. CASE ts = {}
        BY <4>1
      <4>2. CASE ts # {}
        BY <1>2, <1>4, <1>6, <2>3, <4>2
      <4>3. QED BY <4>1, <4>2
    <3>3. QED BY <2>1, <3>1, <3>2
  <2>4. QED BY <2>2, <2>3
<1>9. DefaultsCreated'
  <2>1. \A d \in Channels : \A t \in defaults'[d] : tag[t] # "new"
    <3>1. CASE ts = None \/ Row(c) \notin locks[r]
      BY <1>3, <3>1 DEF CatalogInv, DefaultsCreated
    <3>2. CASE ts # None /\ Row(c) \in locks[r]
      BY <1>1, <1>2, <1>3, <3>2 DEF CatalogInv, DefaultsCreated, TypeOK, Live
    <3>3. QED BY <3>1, <3>2
  <2>2. QED BY <1>3, <2>1 DEF DefaultsCreated
<1>10. ASSUME NEW s \in Requests, s # r PROVE Respects(s)
  <2>1. ASSUME NEW d \in Channels, NEW t \in Tags,
               Row(d) \in locks[s], <<d, t>> \in links'
        PROVE  <<d, t>> \in links
    <3>1. c # None
      BY <1>2, CatalogAssumption
    <3>2. Row(c) \in locks[r]
      BY <1>2, <2>1, <3>1 DEF CatalogInv, RequestInv, RowHeld
    <3>3. Row(c) \notin locks[s]
      BY <1>10, <3>2, WhatConflicts DEF CatalogInv, LocksExclude, Compatible
    <3>4. d # c
      BY <2>1, <3>3
    <3>5. QED BY <1>3, <2>1, <3>4
  <2>2. QED BY <1>3, <1>4, <1>6, <2>1 DEF Respects, history
<1>11. QED BY <1>3, <1>5, <1>6, <1>7, <1>8, <1>9, <1>10, CommitStep

LEMMA DropChannelKeeps ==
    ASSUME CatalogInv, NEW r \in Requests, DropChannel(r) PROVE CatalogInv'
<1> DEFINE c == req[r].channel
<1>1. CASE channel[c] # "live"
  BY <1>1, RefusalKeeps DEF DropChannel
<1>2. CASE channel[c] = "live"
  <2>1. TypeOK
    BY DEF CatalogInv
  <2>2. /\ req[r].pc = "drop" /\ c \in Channels /\ req[r].tag = None /\ req[r].todo = {}
    BY DEF DropChannel, CatalogInv, RequestInv, Shape, ChannelSteps
  <2>3. Statement(r, "drop", "remove")
    BY <1>2 DEF DropChannel
  <2>4. [req[r] EXCEPT !.pc = "remove"] \in Request
    BY <2>1, MovedRequest
  <2>5. Needs(req[r]) = {Row(c), Key(c)}
    BY <2>2, NeedsOf
  <2>6. /\ req'[r].pc = "remove" /\ req'[r].channel = c /\ req'[r].tag = None
        /\ req'[r].todo = {} /\ Key(c) \in locks'[r]
        /\ OwnLinks(r)' /\ (RequestInv(r)' => CatalogInv')
    BY <2>2, <2>3, <2>4, <2>5, StatementDoes
  <2>7. /\ Shape(r)' /\ LinksHold(r)' /\ DeletesLocked(r)' /\ KeyHeld(r)' /\ KnownRow(r)'
        /\ RowHeld(r)' /\ LinksHeld(r)' /\ PostsHeld(r)'
    BY <2>2, <2>6 DEF Shape, ChannelSteps, PostSteps, LinksHold, DeletesLocked, KeyHeld,
                      KnownRow, RowHeld, LinksHeld, PostsHeld
  <2>8. QED BY <2>6, <2>7 DEF RequestInv
<1>3. QED BY <1>1, <1>2

LEMMA RemoveChannelKeeps ==
    ASSUME CatalogInv, NEW r \in Requests, RemoveChannel(r) PROVE CatalogInv'
<1> DEFINE c == req[r].channel
<1>1. TypeOK
  BY DEF CatalogInv
<1>2. req[r].pc = "remove" /\ c \in Channels /\ Key(c) \in locks[r]
  BY DEF RemoveChannel, CatalogInv, RequestInv, Shape, ChannelSteps, KeyHeld
<1>3. /\ channel' = [channel EXCEPT ![c] = "gone"] /\ links' = {l \in links : l[1] # c}
      /\ End(r) /\ UNCHANGED <<tag, defaults, postTags, lateTags, given>>
  BY DEF RemoveChannel, history
<1>4. Live' = Live
  BY <1>3 DEF Live
<1>5. channel' \in [Channels -> {"new", "live", "gone"}]
  BY <1>1, <1>3 DEF TypeOK
<1>6. links' \subseteq {d \in Channels : channel'[d] = "live"} \X Live'
  BY <1>1, <1>3, <1>4 DEF TypeOK
<1>7. DefaultsCreated'
  BY <1>3 DEF CatalogInv, DefaultsCreated
<1>8. ASSUME NEW s \in Requests, s # r PROVE Respects(s)
  <2>1. KeyShare(c) \notin locks[s]
    BY <1>2, <1>8, WhatConflicts DEF CatalogInv, LocksExclude, Compatible
  <2>2. \A d \in Channels : KeyShare(d) \in locks[s] /\ channel[d] # "gone" => channel'[d] # "gone"
    BY <1>1, <1>3, <2>1 DEF TypeOK
  <2>3. \A d \in Channels : channel[d] # "new" => channel'[d] # "new"
    BY <1>1, <1>3 DEF TypeOK
  <2>4. QED BY <1>3, <1>4, <2>2, <2>3 DEF Respects
<1>9. QED BY <1>1, <1>3, <1>5, <1>6, <1>7, <1>8, CommitStep DEF TypeOK

LEMMA CommitTagKeeps ==
    ASSUME CatalogInv, NEW r \in Requests, CommitTag(r) PROVE CatalogInv'
<1> DEFINE t == req[r].tag
<1>1. TypeOK
  BY DEF CatalogInv
<1>2. req[r].pc = "commit" /\ t \in Tags /\ t # None
  BY <1>1 DEF CommitTag, TypeOK, Request
<1>3. /\ tag' = [tag EXCEPT ![t] = "gone"] /\ links' = {l \in links : l[2] # t}
      /\ postTags' = [p \in Posts |-> IF PostRow(p) \in locks[r]
                                      THEN postTags[p] \ {t} ELSE postTags[p]]
      /\ End(r) /\ UNCHANGED <<channel, defaults, lateTags, given>>
  BY DEF CommitTag, history
<1>4. Live' = Live \ {t} /\ tag' \in [Tags -> {"new", "live", "gone"}]
  BY <1>1, <1>2, <1>3 DEF Live, TypeOK
<1>5. \A p \in Posts : postTags'[p] \subseteq postTags[p] /\ postTags'[p] \in SUBSET Tags
  BY <1>1, <1>3 DEF TypeOK
<1>6. postTags' \in [Posts -> SUBSET Tags]
  BY <1>3, <1>5
<1>7. links' \subseteq {d \in Channels : channel'[d] = "live"} \X Live'
  BY <1>1, <1>3, <1>4 DEF TypeOK
<1>8. DefaultsCreated'
  BY <1>1, <1>2, <1>3 DEF CatalogInv, DefaultsCreated, TypeOK
<1>9. ASSUME NEW s \in Requests, s # r PROVE Respects(s)
  <2>1. tag[t] = "gone" \/ TagRow(t) \in locks[r]
    BY <1>2 DEF CatalogInv, RequestInv, DeletesLocked
  <2>2. t \notin Live \/ Share(t) \notin locks[s]
    BY <1>9, <2>1, WhatConflicts DEF CatalogInv, LocksExclude, Compatible, Live
  <2>3. \A u \in Tags : tag[u] # "new" => tag'[u] \in {tag[u], "gone"}
    BY <1>1, <1>3 DEF TypeOK
  <2>4. QED BY <1>3, <1>4, <1>5, <2>2, <2>3 DEF Respects
<1>10. QED BY <1>1, <1>3, <1>4, <1>6, <1>7, <1>8, <1>9, CommitStep DEF TypeOK

(* What the ends of the transactions on a post have in common.             *)
WritesPost(r) == WriteList(r) \/ WriteBack(r) \/ WriteNormalized(r)

LEMMA WritesPostDoes ==
    ASSUME TypeOK, NEW r \in Requests, WritesPost(r), Shape(r)
    PROVE  /\ req[r].post \in Posts /\ req[r].tags \in SUBSET Tags
           /\ End(r) /\ UNCHANGED <<tag, channel, defaults, links>>
           /\ GiveTags(req[r].post, req[r].tags) \/ UNCHANGED <<postTags, lateTags>>
           /\ given' \in [Posts -> TagLists]
<1>1. req[r].pc \in PostSteps /\ End(r) /\ UNCHANGED <<tag, channel, defaults, links>>
  BY DEF WritesPost, WriteList, WriteBack, WriteNormalized, EndOnPost, PostSteps
<1>2. req[r].post \in Posts /\ req[r].tags \in SUBSET Tags
  BY <1>1 DEF Shape
<1>3. req[r].tags \in TagLists /\ None \in TagLists
  BY <1>2 DEF TagLists
<1>4. CASE WriteList(r)
  BY <1>1, <1>2, <1>3, <1>4 DEF WriteList, TypeOK
<1>5. CASE WriteBack(r)
  BY <1>1, <1>2, <1>3, <1>5 DEF WriteBack, Forget, TypeOK
<1>6. CASE WriteNormalized(r)
  BY <1>1, <1>2, <1>3, <1>6 DEF WriteNormalized, WriteTags, Forget, history, TypeOK
<1>7. QED BY <1>4, <1>5, <1>6 DEF WritesPost

LEMMA WritesPostKeeps ==
    ASSUME CatalogInv, NEW r \in Requests, WritesPost(r) PROVE CatalogInv'
<1> DEFINE p == req[r].post
           ts == req[r].tags
<1>1. TypeOK
  BY DEF CatalogInv
<1>2. /\ p \in Posts /\ ts \in SUBSET Tags
      /\ End(r) /\ UNCHANGED <<tag, channel, defaults, links>>
      /\ GiveTags(p, ts) \/ UNCHANGED <<postTags, lateTags>>
      /\ given' \in [Posts -> TagLists]
  BY <1>1, WritesPostDoes DEF CatalogInv, RequestInv
<1>3. Live' = Live
  BY <1>2 DEF Live
<1>4. postTags' \in [Posts -> SUBSET Tags] /\ lateTags' \subseteq Tags /\ lateTags \subseteq lateTags'
  BY <1>1, <1>2 DEF TypeOK, GiveTags
<1>5. DefaultsCreated'
  BY <1>2 DEF CatalogInv, DefaultsCreated
<1>6. ASSUME NEW s \in Requests, s # r PROVE Respects(s)
  <2>1. ASSUME NEW x \in Posts, NEW t \in postTags'[x]
        PROVE  t \in postTags[x] \/ t \in lateTags' \/ req[s].tag # t \/ req[s].pc = "strip"
    <3>1. CASE x # p \/ UNCHANGED <<postTags, lateTags>>
      BY <1>1, <1>2, <2>1, <3>1 DEF TypeOK, GiveTags
    <3>2. CASE x = p /\ GiveTags(p, ts)
      <4>1. t \in ts
        BY <1>1, <1>2, <2>1, <3>2 DEF TypeOK, GiveTags
      <4>2. CASE req[s].tag = t /\ req[s].pc # "strip"
        BY <1>2, <3>2, <4>1, <4>2 DEF Stripped, GiveTags
      <4>3. QED BY <4>2
    <3>3. QED BY <1>2, <3>1, <3>2
  <2>2. QED BY <1>2, <1>3, <1>4, <2>1 DEF Respects
<1>7. QED BY <1>1, <1>2, <1>3, <1>4, <1>5, <1>6, CommitStep DEF TypeOK

LEMMA LoadPolicyKeeps ==
    ASSUME CatalogInv, NEW r \in Requests, LoadPolicy(r) PROVE CatalogInv'
<1> DEFINE c == ChannelOf[req[r].post]
<1>1. CASE channel[c] # "live"
  BY <1>1, RefusalKeeps DEF LoadPolicy
<1>2. CASE channel[c] = "live"
  <2>1. TypeOK
    BY DEF CatalogInv
  <2>2. /\ req[r].pc = "policy" /\ req[r].post \in Posts /\ req[r].tag = None
        /\ req[r].channel = None /\ req[r].todo = {}
    BY DEF LoadPolicy, CatalogInv, RequestInv, Shape
  <2>3. c \in Channels
    BY <2>2, CatalogAssumption
  <2>4. PICK ts \in SUBSET Tags :
            req' = [req EXCEPT ![r].pc = "normalize", ![r].tags = ts]
    BY <1>2, <2>1, <2>3 DEF LoadPolicy, TypeOK
  <2> DEFINE q == [req[r] EXCEPT !.pc = "normalize", !.tags = ts]
  <2>5. /\ q \in Request /\ q.pc = "normalize" /\ q.channel = None /\ q.tag = None
        /\ q.post = req[r].post /\ q.tags = ts /\ q.todo = {}
    BY <2>1, <2>2 DEF TypeOK, Request, TagLists
  <2>6. req' = [req EXCEPT ![r] = q] /\ UNCHANGED <<Rows, locks>>
    BY <1>2, <2>1, <2>4 DEF LoadPolicy, TypeOK
  <2> HIDE DEF q
  <2>7. req'[r] = q /\ locks'[r] = locks[r] /\ (RequestInv(r)' => CatalogInv')
    BY <2>5, <2>6, StepWithoutLocks
  <2>8. /\ Shape(r)' /\ LinksHold(r)' /\ DeletesLocked(r)' /\ OwnLinks(r)' /\ KnownRow(r)'
        /\ KeyHeld(r)' /\ RowHeld(r)' /\ LinksHeld(r)' /\ PostsHeld(r)'
    BY <2>2, <2>5, <2>7 DEF Shape, ChannelSteps, PostSteps, LinksHold, DeletesLocked, OwnLinks,
                            KnownRow, KeyHeld, RowHeld, LinksHeld, PostsHeld
  <2>9. QED BY <2>7, <2>8 DEF RequestInv
<1>3. QED BY <1>1, <1>2

LEMMA InitCatalogInv == Init => CatalogInv
<1> SUFFICES ASSUME Init PROVE CatalogInv
  OBVIOUS
<1>1. TypeOK
  BY IdleIsRequest DEF Init, TypeOK, TagLists
<1>2. LocksExclude
  BY NothingConflictsWithNone DEF Init, LocksExclude
<1>3. DefaultsCreated
  BY DEF Init, DefaultsCreated
<1>4. ASSUME NEW r \in Requests PROVE RequestInv(r)
  <2>1. req[r] = Idle /\ locks[r] = {}
    BY DEF Init
  <2>2. Shape(r)
    BY <2>1, IdleIsRequest DEF Shape, ChannelSteps, PostSteps, Idle
  <2>3. QED BY <2>1, <2>2, IdleIsRequest
                DEF RequestInv, LinksHold, DeletesLocked, OwnLinks, KnownRow, KeyHeld,
                    RowHeld, LinksHeld, PostsHeld
<1>5. QED BY <1>1, <1>2, <1>3, <1>4 DEF CatalogInv

LEMMA NextCatalogInv == CatalogInv /\ [Next]_vars => CatalogInv'
<1> SUFFICES ASSUME CatalogInv, [Next]_vars PROVE CatalogInv'
  OBVIOUS
<1>1. CASE CreateTag
  BY <1>1, CreateTagKeeps
<1>2. ASSUME NEW r \in Requests,
             \/ StartCreateChannel(r) \/ StartUpdateChannel(r) \/ StartUpdateAiSettings(r)
             \/ StartDeleteChannel(r) \/ StartDeleteTag(r) \/ StartEdit(r) \/ StartDecide(r)
             \/ StartNormalize(r)
      PROVE  CatalogInv'
  BY <1>2, StartsKeep
<1>3. ASSUME NEW r \in Requests, Step(r) PROVE CatalogInv'
  <2>1. CASE InsertChannel(r) \/ LoadChannel(r) \/ WriteChannel(r)
    BY <2>1, InsertChannelKeeps, LoadChannelKeeps, WriteChannelKeeps
  <2>2. CASE DeleteLinks(r) \/ SelectTags(r) \/ InsertLink(r)
    BY <2>2, DeleteLinksKeeps, SelectTagsKeeps, InsertLinkKeeps
  <2>3. CASE StripPosts(r) \/ DeleteTag(r) \/ CascadeLinks(r)
    BY <2>3, DeletionKeeps
  <2>4. CASE CommitChannel(r) \/ DropChannel(r) \/ RemoveChannel(r)
    BY <2>4, CommitChannelKeeps, DropChannelKeeps, RemoveChannelKeeps
  <2>5. CASE CommitTag(r) \/ WritesPost(r)
    BY <2>5, CommitTagKeeps, WritesPostKeeps
  <2>6. CASE DeadlockVictim(r) \/ PostGone(r)
    BY <2>6, RefusalKeeps DEF DeadlockVictim, PostGone
  <2>7. CASE LoadPolicy(r)
    BY <2>7, LoadPolicyKeeps
  <2>8. QED BY <1>3, <2>1, <2>2, <2>3, <2>4, <2>5, <2>6, <2>7 DEF Step, WritesPost
<1>4. ASSUME NEW r \in Requests, Fails(r) PROVE CatalogInv'
  BY <1>4, RefusalKeeps DEF Fails
<1>5. CASE UNCHANGED vars
  <2>1. TypeOK' /\ LocksExclude' /\ DefaultsCreated'
    BY <1>5 DEF CatalogInv, TypeOK, LocksExclude, DefaultsCreated, Live, vars, history
  <2>2. ASSUME NEW s \in Requests PROVE RequestInv(s)'
    <3>1. Respects(s)
      BY <1>5 DEF Respects, Live, vars, history
    <3>2. QED BY <1>5, <3>1, OthersKeep DEF CatalogInv, vars
  <2>3. QED BY <2>1, <2>2 DEF CatalogInv
<1>6. QED BY <1>1, <1>2, <1>3, <1>4, <1>5 DEF Next

(* Every request is at a statement the code has, with what that statement  *)
(* needs, and a link joins a channel and a tag that are there: the foreign *)
(* keys hold, whatever is deleted meanwhile (setDefaultTagLinks,           *)
(* handleDeleteTag, handleDeleteChannel).                                  *)
THEOREM CatalogTypes == Spec => []TypeOK
<1>1. Init => CatalogInv
  BY InitCatalogInv
<1>2. CatalogInv /\ [Next]_vars => CatalogInv'
  BY NextCatalogInv
<1>3. CatalogInv => TypeOK
  BY DEF CatalogInv
<1>4. QED BY <1>1, <1>2, <1>3, PTL DEF Spec

-----------------------------------------------------------------------------
(* The steps that change rows.                                             *)
LEMMA RowsChange ==
    ASSUME Next
    PROVE  \/ UNCHANGED Rows
           \/ CreateTag
           \/ \E r \in Requests : \/ CommitChannel(r) \/ RemoveChannel(r)
                                  \/ CommitTag(r) \/ WritesPost(r)
<1>1. ASSUME NEW r \in Requests, NEW q, Start(r, q) PROVE UNCHANGED Rows
  BY <1>1 DEF Start
<1>2. ASSUME NEW r \in Requests,
             \/ StartCreateChannel(r) \/ StartUpdateChannel(r) \/ StartUpdateAiSettings(r)
             \/ StartDeleteChannel(r) \/ StartDeleteTag(r) \/ StartEdit(r) \/ StartDecide(r)
             \/ StartNormalize(r)
      PROVE  UNCHANGED Rows
  BY <1>1, <1>2 DEF StartCreateChannel, StartUpdateChannel, StartUpdateAiSettings,
                    StartDeleteChannel, StartDeleteTag, StartEdit, StartDecide, StartNormalize
<1>3. ASSUME NEW r \in Requests,
             \/ InsertChannel(r) \/ LoadChannel(r) \/ WriteChannel(r) \/ DeleteLinks(r)
             \/ SelectTags(r) \/ InsertLink(r) \/ StripPosts(r) \/ DeleteTag(r)
             \/ CascadeLinks(r) \/ DeadlockVictim(r) \/ DropChannel(r) \/ LoadPolicy(r)
             \/ PostGone(r) \/ Fails(r)
      PROVE  UNCHANGED Rows
  <2>1. CASE \/ InsertChannel(r) \/ LoadChannel(r) \/ SelectTags(r) \/ DeadlockVictim(r)
             \/ LoadPolicy(r) \/ PostGone(r) \/ Fails(r)
    BY <2>1 DEF InsertChannel, LoadChannel, SelectTags, DeadlockVictim, LoadPolicy, PostGone,
                Fails, Refuse
  <2>2. CASE WriteChannel(r) \/ DeleteLinks(r) \/ DropChannel(r)
    BY <2>2 DEF WriteChannel, DeleteLinks, DropChannel, Statement, Refuse
  <2>3. CASE InsertLink(r)
    BY <2>3 DEF InsertLink, Statement, Refuse
  <2>4. CASE StripPosts(r) \/ DeleteTag(r) \/ CascadeLinks(r)
    BY <2>4 DEF StripPosts, DeleteTag, CascadeLinks, Statement, Refuse
  <2>5. QED BY <1>3, <2>1, <2>2, <2>3, <2>4
<1>4. QED BY <1>2, <1>3 DEF Next, Step, WritesPost

LEMMA MirrorStep ==
    ASSUME CatalogInv, LinksMirrorDefaults, [Next]_vars PROVE LinksMirrorDefaults'
<1> DEFINE Linked(c) == {t \in Tags : <<c, t>> \in links}
<1>1. TypeOK
  BY DEF CatalogInv
<1> SUFFICES ASSUME NEW c \in Channels, channel'[c] = "live"
             PROVE  {t \in Tags : <<c, t>> \in links'} = defaults'[c] \cap Live'
  BY DEF LinksMirrorDefaults
<1>2. channel[c] = "live" => Linked(c) = defaults[c] \cap Live
  BY DEF LinksMirrorDefaults
<1>3. CASE UNCHANGED Rows \/ UNCHANGED vars
  BY <1>2, <1>3 DEF Rows, vars, Live
<1>4. CASE CreateTag
  <2>1. PICK t \in Tags : /\ tag[t] = "new" /\ tag' = [tag EXCEPT ![t] = "live"]
                          /\ UNCHANGED <<channel, defaults, links>>
    BY <1>4 DEF CreateTag
  <2>2. Live' = Live \cup {t}
    BY <1>1, <2>1 DEF Live, TypeOK
  <2>3. t \notin defaults[c]
    BY <2>1 DEF CatalogInv, DefaultsCreated
  <2>4. QED BY <1>2, <2>1, <2>2, <2>3
<1>5. ASSUME NEW r \in Requests, CommitChannel(r)
      PROVE  {t \in Tags : <<c, t>> \in links'} = defaults'[c] \cap Live'
  <2> DEFINE ts == req[r].tags
             d == req[r].channel
  <2>1. /\ req[r].pc = "commit" /\ d \in Channels
        /\ ts # None => ts \subseteq Live
        /\ ts = None => channel[d] # "new"
        /\ \A x \in Channels, t \in Tags : Link(x, t) \in locks[r] => x = d
    BY <1>5, ChannelAtCommit
  <2>2. /\ channel' = [channel EXCEPT ![d] = IF channel[d] = "new" THEN "live" ELSE channel[d]]
        /\ defaults' = IF ts = None \/ Row(d) \notin locks[r] THEN defaults
                       ELSE [defaults EXCEPT ![d] = ts]
        /\ links' = IF ts = None THEN links ELSE (links \ Unlinked(r)) \cup ({d} \X ts)
        /\ tag' = tag
    BY <1>1, <1>5, <2>1 DEF CommitChannel, TypeOK
  <2>3. Live' = Live
    BY <2>2 DEF Live
  <2>4. d # None
    BY <2>1, CatalogAssumption
  <2>5. CASE ts = None
    <3>1. channel' = channel
      BY <1>1, <2>1, <2>2, <2>5 DEF TypeOK
    <3>2. QED BY <1>2, <2>2, <2>3, <2>5, <3>1
  <2>6. CASE ts # None /\ c # d
    <3>1. channel[c] = "live" /\ defaults'[c] = defaults[c]
      BY <1>1, <2>1, <2>2, <2>6 DEF TypeOK
    <3>2. \A t \in Tags : <<c, t>> \in links' <=> <<c, t>> \in links
      <4>1. \A t \in Tags : <<c, t>> \notin Unlinked(r)
        BY <2>1, <2>6 DEF Unlinked
      <4>2. QED BY <2>2, <2>6, <4>1
    <3>3. QED BY <1>2, <2>3, <3>1, <3>2
  <2>7. CASE ts # None /\ c = d
    <3>1. /\ Row(c) \in locks[r]
          /\ \A t \in Tags : <<c, t>> \in links => Link(c, t) \in locks[r]
      BY <2>1, <2>4, <2>7 DEF CatalogInv, RequestInv, RowHeld, LinksHeld
    <3>2. defaults'[c] = ts
      BY <1>1, <2>2, <2>7, <3>1 DEF TypeOK
    <3>3. \A t \in Tags : <<c, t>> \in links => <<c, t>> \in Unlinked(r)
      BY <3>1 DEF Unlinked
    <3>4. \A t \in Tags : <<c, t>> \in links' <=> t \in ts
      BY <2>2, <2>7, <3>3
    <3>5. ts \subseteq Tags
      BY <2>1, <2>7 DEF Live
    <3>6. QED BY <2>1, <2>3, <2>7, <3>2, <3>4, <3>5
  <2>8. QED BY <2>5, <2>6, <2>7
<1>6. ASSUME NEW r \in Requests, RemoveChannel(r)
      PROVE  {t \in Tags : <<c, t>> \in links'} = defaults'[c] \cap Live'
  <2>1. /\ channel' = [channel EXCEPT ![req[r].channel] = "gone"]
        /\ links' = {l \in links : l[1] # req[r].channel}
        /\ defaults' = defaults /\ tag' = tag
    BY <1>6 DEF RemoveChannel
  <2>2. c # req[r].channel /\ channel[c] = "live"
    BY <1>1, <2>1 DEF TypeOK
  <2>3. \A t \in Tags : <<c, t>> \in links' <=> <<c, t>> \in links
    BY <2>1, <2>2
  <2>4. QED BY <1>2, <2>1, <2>2, <2>3 DEF Live
<1>7. ASSUME NEW r \in Requests, CommitTag(r)
      PROVE  {t \in Tags : <<c, t>> \in links'} = defaults'[c] \cap Live'
  <2>1. /\ tag' = [tag EXCEPT ![req[r].tag] = "gone"]
        /\ links' = {l \in links : l[2] # req[r].tag}
        /\ defaults' = defaults /\ channel' = channel
    BY <1>7 DEF CommitTag
  <2>2. Live' = Live \ {req[r].tag}
    BY <1>1, <2>1 DEF Live, TypeOK
  <2>3. \A t \in Tags : <<c, t>> \in links' <=> <<c, t>> \in links /\ t # req[r].tag
    BY <2>1
  <2>4. QED BY <1>2, <2>1, <2>2, <2>3
<1>8. ASSUME NEW r \in Requests, WritesPost(r)
      PROVE  {t \in Tags : <<c, t>> \in links'} = defaults'[c] \cap Live'
  <2>1. UNCHANGED <<tag, channel, defaults, links>>
    BY <1>1, <1>8, WritesPostDoes DEF CatalogInv, RequestInv
  <2>2. QED BY <1>2, <2>1 DEF Live
<1>9. QED BY <1>3, <1>4, <1>5, <1>6, <1>7, <1>8, RowsChange

LEMMA StaleTagsStep ==
    ASSUME CatalogInv, StaleTagsCameLate, [Next]_vars PROVE StaleTagsCameLate'
<1>1. TypeOK
  BY DEF CatalogInv
<1> SUFFICES ASSUME NEW p \in Posts, NEW t \in Tags, t \in postTags'[p], tag'[t] = "gone"
             PROVE  t \in lateTags'
  BY DEF StaleTagsCameLate
<1>2. t \in postTags[p] /\ tag[t] = "gone" => t \in lateTags
  BY DEF StaleTagsCameLate
<1>3. CASE UNCHANGED Rows \/ UNCHANGED vars
  BY <1>2, <1>3 DEF Rows, vars, history
<1>4. CASE CreateTag
  BY <1>1, <1>2, <1>4 DEF CreateTag, TypeOK, history
<1>5. ASSUME NEW r \in Requests, CommitChannel(r) \/ RemoveChannel(r) PROVE t \in lateTags'
  BY <1>2, <1>5 DEF CommitChannel, RemoveChannel, history
<1>6. ASSUME NEW r \in Requests, CommitTag(r) PROVE t \in lateTags'
  <2>1. /\ req[r].pc = "commit" /\ req[r].tag # None /\ lateTags' = lateTags
        /\ tag' = [tag EXCEPT ![req[r].tag] = "gone"]
        /\ postTags'[p] = IF PostRow(p) \in locks[r] THEN postTags[p] \ {req[r].tag}
                          ELSE postTags[p]
    BY <1>6 DEF CommitTag, history
  <2>2. CASE t = req[r].tag
    <3>1. t \in postTags[p] /\ PostRow(p) \notin locks[r]
      BY <2>1, <2>2
    <3>2. QED BY <2>1, <2>2, <3>1 DEF CatalogInv, RequestInv, PostsHeld
  <2>3. CASE t # req[r].tag
    BY <1>1, <1>2, <2>1, <2>3 DEF TypeOK
  <2>4. QED BY <2>2, <2>3
<1>7. ASSUME NEW r \in Requests, WritesPost(r) PROVE t \in lateTags'
  <2>1. /\ tag' = tag
        /\ GiveTags(req[r].post, req[r].tags) \/ UNCHANGED <<postTags, lateTags>>
    BY <1>1, <1>7, WritesPostDoes DEF CatalogInv, RequestInv
  <2>2. CASE UNCHANGED <<postTags, lateTags>>
    BY <1>2, <2>1, <2>2
  <2>3. CASE GiveTags(req[r].post, req[r].tags)
    <3>1. t \in Stripped
      BY <2>1 DEF Stripped
    <3>2. t \in postTags[p] \/ t \in req[r].tags
      BY <1>1, <2>3 DEF TypeOK, GiveTags
    <3>3. QED BY <1>2, <2>1, <2>3, <3>1, <3>2 DEF GiveTags
  <2>4. QED BY <2>1, <2>2, <2>3
<1>8. QED BY <1>3, <1>4, <1>5, <1>6, <1>7, RowsChange

(* The join table of a channel that is there says what its default_tag_ids *)
(* say, for any number of requests that write, delete and deadlock at once *)
(* (setDefaultTagLinks, handleUpdateChannel, handleDeleteTag).             *)
THEOREM TheTablesAgree == Spec => []LinksMirrorDefaults
<1>1. Init => CatalogInv /\ LinksMirrorDefaults
  <2>1. Init => LinksMirrorDefaults
    BY DEF Init, LinksMirrorDefaults
  <2>2. QED BY <2>1, InitCatalogInv
<1>2. CatalogInv /\ LinksMirrorDefaults /\ [Next]_vars => (CatalogInv /\ LinksMirrorDefaults)'
  BY NextCatalogInv, MirrorStep
<1>3. QED BY <1>1, <1>2, PTL DEF Spec

(* A post that names a deleted tag was given it once the deletion had been *)
(* through the posts: the deletion leaves none behind (handleDeleteTag).   *)
THEOREM DeletionReachesThePosts == Spec => []StaleTagsCameLate
<1>1. Init => CatalogInv /\ StaleTagsCameLate
  <2>1. Init => StaleTagsCameLate
    BY DEF Init, StaleTagsCameLate
  <2>2. QED BY <2>1, InitCatalogInv
<1>2. CatalogInv /\ StaleTagsCameLate /\ [Next]_vars => (CatalogInv /\ StaleTagsCameLate)'
  BY NextCatalogInv, StaleTagsStep
<1>3. QED BY <1>1, <1>2, PTL DEF Spec
-----------------------------------------------------------------------------
(* Tags that an editor gave.                                               *)

(* A decision has loaded what was given when it began; a normalize job     *)
(* that began when no tag had been given has loaded none.                  *)
LoadedAsGiven(r) ==
    /\ req[r].pc = "decide" /\ req[r].base # None =>
           req[r].tags \subseteq req[r].base /\ req[r].base \ Gone \subseteq req[r].tags
    /\ req[r].pc \in {"policy", "normalize"} /\ req[r].base = {} => req[r].seen = {}

GivenInv == PostsKeepGivenTags /\ \A r \in Requests : LoadedAsGiven(r)

PostPcs == {"decide", "policy", "normalize"}

LEMMA GoneStays == ASSUME TypeOK, [Next]_vars PROVE Gone \subseteq Gone'
<1>1. CASE UNCHANGED Rows \/ UNCHANGED vars
  BY <1>1 DEF Rows, vars, Gone
<1>2. CASE CreateTag
  BY <1>2 DEF CreateTag, TypeOK, Gone
<1>3. ASSUME NEW r \in Requests, CommitChannel(r) \/ RemoveChannel(r) \/ WritesPost(r)
      PROVE  Gone \subseteq Gone'
  BY <1>3 DEF CommitChannel, RemoveChannel, WritesPost, WriteList, WriteBack, WriteNormalized,
              EndOnPost, Gone
<1>4. ASSUME NEW r \in Requests, CommitTag(r) PROVE Gone \subseteq Gone'
  BY <1>4 DEF CommitTag, TypeOK, Gone
<1>5. QED BY <1>1, <1>2, <1>3, <1>4, RowsChange

(* After a step of its own a request is not at a post, unless it is a      *)
(* normalize job that has loaded the policy.                               *)
LEMMA StepsLeaveThePosts ==
    ASSUME TypeOK, NEW r \in Requests, Step(r) \/ Fails(r), ~LoadPolicy(r)
    PROVE  /\ \A s \in Requests \ {r} : req'[s] = req[s]
           /\ req'[r].pc \notin PostPcs
<1>1. req \in [Requests -> Request] /\ Idle.pc = "idle"
  BY IdleIsRequest DEF TypeOK
<1>2. ASSUME End(r) PROVE /\ \A s \in Requests \ {r} : req'[s] = req[s]
                          /\ req'[r].pc \notin PostPcs
  BY <1>1, <1>2 DEF End, PostPcs
<1>3. ASSUME NEW pc, NEW next, Statement(r, pc, next), next \notin PostPcs
      PROVE  /\ \A s \in Requests \ {r} : req'[s] = req[s]
             /\ req'[r].pc \notin PostPcs
  <2>1. req' = [req EXCEPT ![r].pc = next]
    BY <1>3 DEF Statement
  <2>2. req'[r].pc = next
    BY <1>1, <2>1 DEF Request
  <2>3. QED BY <1>1, <1>3, <2>1, <2>2
<1>4. ASSUME NEW next, NEW todo, next \notin PostPcs,
             req' = [req EXCEPT ![r].pc = next, ![r].todo = todo]
      PROVE  /\ \A s \in Requests \ {r} : req'[s] = req[s]
             /\ req'[r].pc \notin PostPcs
  <2>1. req'[r].pc = next
    BY <1>1, <1>4 DEF Request
  <2>2. QED BY <1>1, <1>4, <2>1
<1>5. ASSUME NEW next, next \notin PostPcs, req' = [req EXCEPT ![r].pc = next]
      PROVE  /\ \A s \in Requests \ {r} : req'[s] = req[s]
             /\ req'[r].pc \notin PostPcs
  <2>1. req'[r].pc = next
    BY <1>1, <1>5 DEF Request
  <2>2. QED BY <1>1, <1>5, <2>1
<1>6. ASSUME NEW todo, req[r].pc \notin PostPcs, req' = [req EXCEPT ![r].todo = todo]
      PROVE  /\ \A s \in Requests \ {r} : req'[s] = req[s]
             /\ req'[r].pc \notin PostPcs
  <2>1. req'[r].pc = req[r].pc
    BY <1>1, <1>6 DEF Request
  <2>2. QED BY <1>1, <1>6, <2>1
<1>7. CASE InsertChannel(r) \/ LoadChannel(r)
  BY <1>2, <1>5, <1>7 DEF InsertChannel, LoadChannel, Refuse, PostPcs
<1>8. CASE SelectTags(r)
  BY <1>2, <1>4, <1>8 DEF SelectTags, Refuse, PostPcs
<1>9. CASE InsertLink(r)
  BY <1>2, <1>3, <1>6, <1>9 DEF InsertLink, Refuse, PostPcs
<1>10. CASE WriteChannel(r) \/ DeleteLinks(r) \/ DropChannel(r) \/ StripPosts(r) \/ DeleteTag(r)
            \/ CascadeLinks(r)
  BY <1>2, <1>3, <1>10 DEF WriteChannel, DeleteLinks, DropChannel, StripPosts, DeleteTag,
                           CascadeLinks, Refuse, PostPcs
<1>11. CASE \/ CommitChannel(r) \/ RemoveChannel(r) \/ CommitTag(r) \/ WriteList(r) \/ WriteBack(r)
            \/ WriteNormalized(r) \/ PostGone(r) \/ DeadlockVictim(r) \/ Fails(r)
  BY <1>2, <1>11 DEF CommitChannel, RemoveChannel, CommitTag, WriteList, WriteBack,
                     WriteNormalized, EndOnPost, PostGone, DeadlockVictim, Fails, Refuse
<1>12. QED BY <1>7, <1>8, <1>9, <1>10, <1>11 DEF Step

LEMMA LoadedStep ==
    ASSUME CatalogInv, GivenInv, [Next]_vars PROVE \A r \in Requests : LoadedAsGiven(r)'
<1>1. TypeOK /\ Gone \subseteq Gone'
  BY GoneStays DEF CatalogInv
<1>2. ASSUME NEW r \in Requests, req'[r] = req[r] PROVE LoadedAsGiven(r)'
  BY <1>1, <1>2 DEF GivenInv, LoadedAsGiven
<1>3. ASSUME NEW r \in Requests, req'[r].pc \notin PostPcs PROVE LoadedAsGiven(r)'
  BY <1>3 DEF LoadedAsGiven, PostPcs
<1>4. CASE CreateTag \/ UNCHANGED vars
  BY <1>2, <1>4 DEF CreateTag, vars
<1>5. ASSUME NEW r \in Requests, Step(r) \/ Fails(r), ~LoadPolicy(r)
      PROVE  \A s \in Requests : LoadedAsGiven(s)'
  BY <1>1, <1>2, <1>3, <1>5, StepsLeaveThePosts
<1>6. ASSUME NEW r \in Requests, LoadPolicy(r) PROVE \A s \in Requests : LoadedAsGiven(s)'
  <2>1. CASE req' = [req EXCEPT ![r] = Idle]
    BY <1>1, <1>2, <1>3, <2>1, IdleIsRequest DEF TypeOK, PostPcs
  <2>2. CASE \E ts : req' = [req EXCEPT ![r].pc = "normalize", ![r].tags = ts]
    <3>1. PICK ts : req' = [req EXCEPT ![r].pc = "normalize", ![r].tags = ts]
      BY <2>2
    <3>2. /\ req'[r].pc = "normalize" /\ req'[r].seen = req[r].seen
          /\ req'[r].base = req[r].base
      BY <1>1, <3>1 DEF TypeOK, Request
    <3>3. req[r].pc = "policy"
      BY <1>6 DEF LoadPolicy
    <3>4. LoadedAsGiven(r)'
      BY <3>2, <3>3 DEF GivenInv, LoadedAsGiven
    <3>5. \A s \in Requests \ {r} : req'[s] = req[s]
      BY <1>1, <3>1 DEF TypeOK
    <3>6. QED BY <1>2, <3>4, <3>5
  <2>3. QED BY <1>6, <2>1, <2>2 DEF LoadPolicy, Refuse, End
<1>7. ASSUME NEW r \in Requests, NEW q \in Request, Start(r, q),
             /\ q.pc = "decide" /\ q.base # None =>
                    q.tags \subseteq q.base /\ q.base \ Gone \subseteq q.tags
             /\ q.pc \in {"policy", "normalize"} /\ q.base = {} => q.seen = {}
      PROVE  \A s \in Requests : LoadedAsGiven(s)'
  <2>1. req'[r] = q /\ \A s \in Requests \ {r} : req'[s] = req[s]
    BY <1>1, <1>7 DEF Start, TypeOK
  <2>2. LoadedAsGiven(r)'
    BY <1>1, <1>7, <2>1 DEF LoadedAsGiven
  <2>3. QED BY <1>2, <2>1, <2>2
<1>8. ASSUME NEW r \in Requests, NEW q \in Request, Start(r, q), q.pc \notin PostPcs
      PROVE  \A s \in Requests : LoadedAsGiven(s)'
  BY <1>7, <1>8 DEF PostPcs
<1>9. ASSUME NEW r \in Requests, StartCreateChannel(r) \/ StartUpdateChannel(r)
      PROVE  \A s \in Requests : LoadedAsGiven(s)'
  <2>1. PICK c \in Channels, ts \in TagLists, pc \in {"insert", "load"} :
            Start(r, [Idle EXCEPT !.pc = pc, !.channel = c, !.tags = ts])
    BY <1>9, CatalogAssumption DEF StartCreateChannel, StartUpdateChannel, TagLists
  <2> DEFINE q == [Idle EXCEPT !.pc = pc, !.channel = c, !.tags = ts]
  <2>2. q \in Request /\ q.pc \notin PostPcs
    BY DEF Idle, Request, TagLists, PostPcs
  <2>3. QED BY <1>8, <2>1, <2>2
<1>10. ASSUME NEW r \in Requests, \/ StartUpdateAiSettings(r) \/ StartDeleteChannel(r)
                                  \/ StartDeleteTag(r)
       PROVE  \A s \in Requests : LoadedAsGiven(s)'
  <2>1. PICK c \in Channels \cup {None}, t \in Tags \cup {None}, pc \in {"load", "drop", "strip"} :
            \/ Start(r, [Idle EXCEPT !.pc = pc, !.channel = c])
            \/ Start(r, [Idle EXCEPT !.pc = pc, !.tag = t])
    BY <1>10 DEF StartUpdateAiSettings, StartDeleteChannel, StartDeleteTag, Live
  <2>2. /\ [Idle EXCEPT !.pc = pc, !.channel = c] \in Request
        /\ [Idle EXCEPT !.pc = pc, !.tag = t] \in Request
        /\ [Idle EXCEPT !.pc = pc, !.channel = c].pc \notin PostPcs
        /\ [Idle EXCEPT !.pc = pc, !.tag = t].pc \notin PostPcs
    BY DEF Idle, Request, TagLists, PostPcs
  <2>3. QED BY <1>8, <2>1, <2>2
<1>11. ASSUME NEW r \in Requests, StartEdit(r) PROVE \A s \in Requests : LoadedAsGiven(s)'
  <2>1. PICK p \in Posts, ts \in Lists : Start(r, [Idle EXCEPT !.pc = "edit", !.post = p, !.tags = ts])
    BY <1>11 DEF StartEdit
  <2> DEFINE q == [Idle EXCEPT !.pc = "edit", !.post = p, !.tags = ts]
  <2>2. q \in Request /\ q.pc \notin PostPcs
    BY CatalogAssumption DEF Idle, Request, TagLists, PostPcs
  <2>3. QED BY <1>8, <2>1, <2>2
<1>12. ASSUME NEW p \in Posts, given[p] # None
       PROVE  postTags[p] \subseteq given[p] /\ given[p] \ Gone \subseteq postTags[p]
  BY <1>12 DEF GivenInv, PostsKeepGivenTags
<1>13. postTags \in [Posts -> SUBSET Tags] /\ given \in [Posts -> TagLists]
  BY <1>1 DEF TypeOK
<1>14. ASSUME NEW r \in Requests, StartDecide(r) PROVE \A s \in Requests : LoadedAsGiven(s)'
  <2>1. PICK p \in Posts : Start(r, [Idle EXCEPT !.pc = "decide", !.post = p, !.tags = postTags[p],
                                                !.base = given[p]])
    BY <1>14 DEF StartDecide
  <2> DEFINE q == [Idle EXCEPT !.pc = "decide", !.post = p, !.tags = postTags[p], !.base = given[p]]
  <2>2. q \in Request /\ q.pc = "decide" /\ q.tags = postTags[p] /\ q.base = given[p]
    BY <1>13 DEF Idle, Request, TagLists
  <2>3. Start(r, q)
    BY <2>1
  <2> HIDE DEF q
  <2>4. QED BY <1>7, <1>12, <2>2, <2>3
<1>15. ASSUME NEW r \in Requests, StartNormalize(r) PROVE \A s \in Requests : LoadedAsGiven(s)'
  <2>1. PICK p \in Posts : Start(r, [Idle EXCEPT !.pc = "policy", !.post = p, !.seen = postTags[p],
                                                !.base = given[p]])
    BY <1>15 DEF StartNormalize
  <2> DEFINE q == [Idle EXCEPT !.pc = "policy", !.post = p, !.seen = postTags[p], !.base = given[p]]
  <2>2. q \in Request /\ q.pc = "policy" /\ q.seen = postTags[p] /\ q.base = given[p]
    BY <1>13 DEF Idle, Request, TagLists
  <2>3. Start(r, q)
    BY <2>1
  <2>4. {} # None
    BY NoneIsNothing
  <2> HIDE DEF q
  <2>5. QED BY <1>7, <1>12, <2>2, <2>3, <2>4
<1>16. QED BY <1>4, <1>5, <1>6, <1>9, <1>10, <1>11, <1>14, <1>15 DEF Next

LEMMA GivenStep ==
    ASSUME CatalogInv, GivenInv, [Next]_vars PROVE PostsKeepGivenTags'
<1>1. TypeOK /\ Gone \subseteq Gone'
  BY GoneStays DEF CatalogInv
<1> SUFFICES ASSUME NEW p \in Posts, given'[p] # None
             PROVE  postTags'[p] \subseteq given'[p] /\ given'[p] \ Gone' \subseteq postTags'[p]
  BY DEF PostsKeepGivenTags
<1>2. given[p] # None => postTags[p] \subseteq given[p] /\ given[p] \ Gone \subseteq postTags[p]
  BY DEF GivenInv, PostsKeepGivenTags
<1>3. CASE given'[p] = given[p] /\ postTags'[p] = postTags[p]
  BY <1>1, <1>2, <1>3
<1>4. CASE UNCHANGED Rows \/ UNCHANGED vars
  BY <1>3, <1>4 DEF Rows, vars, history
<1>5. ASSUME CreateTag \/ \E r \in Requests : CommitChannel(r) \/ RemoveChannel(r)
      PROVE  given' = given /\ postTags' = postTags
  BY <1>5 DEF CreateTag, CommitChannel, RemoveChannel, history
<1>6. ASSUME NEW r \in Requests, CommitTag(r)
      PROVE  postTags'[p] \subseteq given'[p] /\ given'[p] \ Gone' \subseteq postTags'[p]
  <2>1. /\ tag' = [tag EXCEPT ![req[r].tag] = "gone"] /\ given' = given /\ req[r].tag # None
        /\ postTags'[p] = IF PostRow(p) \in locks[r] THEN postTags[p] \ {req[r].tag}
                          ELSE postTags[p]
    BY <1>6 DEF CommitTag, history
  <2>2. req[r].tag \in Gone'
    BY <1>1, <2>1 DEF TypeOK, Request, Gone
  <2>3. QED BY <1>1, <1>2, <2>1, <2>2
<1>7. ASSUME NEW r \in Requests, WritesPost(r)
      PROVE  postTags'[p] \subseteq given'[p] /\ given'[p] \ Gone' \subseteq postTags'[p]
  <2> DEFINE q == req[r]
  <2>1. q.post \in Posts /\ q.tags \in SUBSET Tags
    BY <1>1, <1>7, WritesPostDoes DEF CatalogInv, RequestInv
  <2>2. LoadedAsGiven(r)
    BY DEF GivenInv
  <2>3. postTags \in [Posts -> SUBSET Tags] /\ given \in [Posts -> TagLists]
    BY <1>1 DEF TypeOK
  <2>4. CASE WriteList(r)
    <3>1. /\ postTags' = [postTags EXCEPT ![q.post] = q.tags]
          /\ given' = [given EXCEPT ![q.post] = q.tags]
      BY <2>4 DEF WriteList, GiveTags
    <3>2. QED BY <1>3, <2>1, <2>3, <3>1
  <2>5. CASE WriteBack(r)
    <3>1. /\ q.pc = "decide" /\ postTags' = [postTags EXCEPT ![q.post] = q.tags]
          /\ \/ q.base = given[q.post] /\ given' = given
             \/ given' = [given EXCEPT ![q.post] = None]
      BY <2>5 DEF WriteBack, GiveTags, EndOnPost, Forget
    <3>2. CASE p # q.post
      BY <1>3, <2>1, <2>3, <3>1, <3>2
    <3>3. CASE p = q.post
      <4>1. q.base = given[p] /\ given' = given /\ postTags'[p] = q.tags
        BY <2>1, <2>3, <3>1, <3>3
      <4>2. q.tags \subseteq q.base /\ q.base \ Gone \subseteq q.tags
        BY <2>2, <3>1, <4>1 DEF LoadedAsGiven
      <4>3. QED BY <1>1, <4>1, <4>2
    <3>4. QED BY <3>2, <3>3
  <2>6. CASE WriteNormalized(r)
    <3>1. q.pc = "normalize"
      BY <2>6 DEF WriteNormalized, EndOnPost
    <3>2. CASE q.tags # q.seen
      <4>1. /\ postTags' = [postTags EXCEPT ![q.post] = q.tags]
            /\ \/ q.tags = {} /\ q.base = {} /\ given' = given
               \/ given' = [given EXCEPT ![q.post] = None]
        BY <2>6, <3>2 DEF WriteNormalized, WriteTags, GiveTags, Forget
      <4>2. ~(q.tags = {} /\ q.base = {})
        BY <2>2, <3>1, <3>2 DEF LoadedAsGiven
      <4>3. p # q.post
        BY <2>1, <2>3, <4>1, <4>2
      <4>4. QED BY <1>3, <2>1, <2>3, <4>1, <4>3
    <3>3. CASE q.tags = q.seen
      BY <1>3, <2>6, <3>3 DEF WriteNormalized, history
    <3>4. QED BY <3>2, <3>3
  <2>7. QED BY <1>7, <2>4, <2>5, <2>6 DEF WritesPost
<1>8. QED BY <1>3, <1>4, <1>5, <1>6, <1>7, RowsChange

(* A post keeps the tags of the last list an editor gave it, less those    *)
(* deleted since: however edits, decisions, deletions of tags and          *)
(* normalize jobs overlap, nothing takes them away but a job of an `auto'  *)
(* channel, a job that began when tags had been given, and a decision that *)
(* writes back what it loaded before the list came (normalize, decide,     *)
(* handleEditTags, handleDeleteTag).                                       *)
THEOREM GivenTagsAreKept == Spec => []PostsKeepGivenTags
<1>1. Init => CatalogInv /\ GivenInv
  <2>1. ASSUME Init PROVE GivenInv
    <3>1. PostsKeepGivenTags
      BY <2>1 DEF Init, PostsKeepGivenTags
    <3>2. \A r \in Requests : LoadedAsGiven(r)
      BY <2>1, IdleIsRequest DEF Init, LoadedAsGiven
    <3>3. QED BY <3>1, <3>2 DEF GivenInv
  <2>2. QED BY <2>1, InitCatalogInv
<1>2. CatalogInv /\ GivenInv /\ [Next]_vars => (CatalogInv /\ GivenInv)'
  BY NextCatalogInv, LoadedStep, GivenStep DEF GivenInv
<1>3. GivenInv => PostsKeepGivenTags
  BY DEF GivenInv
<1>4. QED BY <1>1, <1>2, <1>3, PTL DEF Spec
=============================================================================
