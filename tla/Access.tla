------------------------------- MODULE Access -------------------------------
(***************************************************************************)
(* Who may do what: the rows of admins, who holds tokens, the login limit, *)
(* and the requests that change admins (apigo/handlers_auth.go,            *)
(* auth_mw.go, handlers_admins.go; cli.py seeds the first one). Passwords  *)
(* and Telegram ids are left out: no property depends on them; and so is   *)
(* the role written into a token, which nothing reads.                     *)
(***************************************************************************)
EXTENDS LoginLimit, FiniteSets

CONSTANTS
    Admins,     \* ids, each with its username
    SeedAdmin,  \* seed_admin_username
    LowerRoles, \* the roles below super_admin
    Requests,   \* requests under way at once that change an admin
    Payloads,   \* bodies of PATCH: a role and a `disabled', or neither
    NoAdmin

ASSUME AdminsAssumption == /\ IsFiniteSet(Admins)
                           /\ SeedAdmin \in Admins
                           /\ NoAdmin \notin Admins

VARIABLES
    admin,      \* rows of admins
    session,    \* admins who hold a token that has not run out
    req,        \* what each request is doing
    overtaken   \* requests for whom another one changed what they had read

vars == <<limitVars, admin, session, req, overtaken>>

Role == LowerRoles \cup {"super_admin"}
NoRole == "none"

Row == [role : Role \cup {NoRole}, enabled : BOOLEAN]
Absent == [role |-> NoRole, enabled |-> FALSE]
Exists(a) == admin[a].role # NoRole

Payload == [role : Role \cup {NoRole}, disabled : {"unset", "yes", "no"}]

ASSUME PayloadsAssumption ==
    /\ LowerRoles \subseteq {"editor", "admin"}
    /\ Payloads \subseteq Payload

NoPayload == [role |-> NoRole, disabled |-> "unset"]

\* A request keeps the row it loaded.
Request == [pc : {"idle", "create", "update", "loaded", "checked"},
            actor : Admins \cup {NoAdmin}, target : Admins \cup {NoAdmin},
            payload : Payload,
            seen : Row]
IdleRequest == [pc |-> "idle", actor |-> NoAdmin, target |-> NoAdmin,
                payload |-> NoPayload, seen |-> Absent]

TypeOK == /\ LimitTypeOK
          /\ admin \in [Admins -> Row]
          /\ session \subseteq Admins
          /\ req \in [Requests -> Request]
          /\ overtaken \subseteq Requests
          /\ \A a \in Admins : admin[a].enabled => Exists(a)

ActiveSupers == {a \in Admins : admin[a].role = "super_admin" /\ admin[a].enabled}

Init == /\ LimitInit
        /\ admin = [a \in Admins |-> Absent]
        /\ session = {}
        /\ req = [r \in Requests |-> IdleRequest]
        /\ overtaken = {}

\* `migrate' seeds the configured super-admin unless the username is taken.
SeedAdminRow == /\ ~Exists(SeedAdmin)
                /\ admin' = [admin EXCEPT ![SeedAdmin] =
                                 [role |-> "super_admin", enabled |-> TRUE]]
                /\ UNCHANGED <<limitVars, session, req, overtaken>>

\* Login, once the limiter has let it through: a known and enabled admin with
\* the right password gets tokens, anybody else nothing.
Login(k) == /\ client[k] = "admitted"
            /\ client' = [client EXCEPT ![k] = "idle"]
            /\ \/ \E a \in Admins : admin[a].enabled /\ session' = session \cup {a}
               \/ UNCHANGED session
            /\ UNCHANGED <<count, expires, expireLost, admin, req, overtaken>>

\* Both tokens have run out: for an enabled admin a refresh puts that off.
\* Logout only makes the browser forget them.
TokensExpire(a) == /\ a \in session
                   /\ session' = session \ {a}
                   /\ UNCHANGED <<limitVars, admin, req, overtaken>>
-----------------------------------------------------------------------------
\* requireRole(super_admin): the token names the admin, the row has the role.
RequireSuperAdmin(a) ==
    a \in session /\ admin[a].enabled /\ admin[a].role = "super_admin"

Accept(r, a, target, payload, kind) ==
    /\ req[r].pc = "idle"
    /\ RequireSuperAdmin(a)
    /\ req' = [req EXCEPT ![r] = [IdleRequest EXCEPT !.pc = kind, !.actor = a,
                                       !.target = target, !.payload = payload]]
    /\ UNCHANGED <<limitVars, admin, session, overtaken>>

Answer(r) == req' = [req EXCEPT ![r] = IdleRequest]

\* The step changes the row that a request has loaded, or takes a super-admin
\* away that it has counted.
Overtakes(r) == \/ /\ req[r].pc \in {"loaded", "checked"}
                   /\ admin'[req[r].target] # admin[req[r].target]
                \/ /\ req[r].pc = "checked"
                   /\ ~(ActiveSupers \subseteq ActiveSupers')

Committed(r) == /\ Answer(r)
                /\ overtaken' = {q \in Requests \ {r} : q \in overtaken \/ Overtakes(q)}

\* (mutant) the role the body leaves out is NULL
CreateWithoutRole(r) ==
    /\ req[r].pc = "create"
    /\ admin' = IF Exists(req[r].target) THEN admin
                ELSE [admin EXCEPT ![req[r].target] = [role |-> NoRole, enabled |-> TRUE]]
    /\ Committed(r)
    /\ UNCHANGED <<limitVars, session>>

\* The username is unique: a second row of the same name is refused.
CreateAdmin(r) ==
    /\ req[r].pc = "create"
    /\ admin' = IF Exists(req[r].target) THEN admin
                ELSE [admin EXCEPT ![req[r].target] =
                         [role |-> req[r].payload.role, enabled |-> TRUE]]
    /\ Committed(r)
    /\ UNCHANGED <<limitVars, session>>

LoadAdmin(r) ==
    /\ req[r].pc = "update"
    /\ IF Exists(req[r].target)
       THEN req' = [req EXCEPT ![r].pc = "loaded", ![r].seen = admin[req[r].target]]
       ELSE Answer(r)
    /\ UNCHANGED <<limitVars, admin, session, overtaken>>

\* The role the row will have, if nobody else changes it.
NewRole(q) == IF q.payload.role = NoRole THEN q.seen.role ELSE q.payload.role

Demotes(q) == q.seen.role = "super_admin" /\ NewRole(q) # "super_admin"
Disables(q) == q.payload.disabled = "yes" /\ q.seen.role = "super_admin" /\ q.seen.enabled

\* (mutant) a demotion is not checked
CheckDisableOnly(r) ==
    /\ req[r].pc = "loaded"
    /\ IF Disables(req[r]) /\ Cardinality(ActiveSupers) <= 1
       THEN Answer(r) /\ overtaken' = overtaken \ {r}
       ELSE req' = [req EXCEPT ![r].pc = "checked"] /\ UNCHANGED overtaken
    /\ UNCHANGED <<limitVars, admin, session>>

\* countActiveSuperAdmins. A body that demotes and disables has the count taken
\* twice, and goes on only if the second one allows it too: one count stands
\* for the two.
CheckLastSuperAdmin(r) ==
    /\ req[r].pc = "loaded"
    /\ IF (Demotes(req[r]) \/ Disables(req[r])) /\ Cardinality(ActiveSupers) <= 1
       THEN Answer(r) /\ overtaken' = overtaken \ {r}
       ELSE req' = [req EXCEPT ![r].pc = "checked"] /\ UNCHANGED overtaken
    /\ UNCHANGED <<limitVars, admin, session>>

\* The UPDATE has the role if it differs from the one that was loaded, and
\* disabled_at if the body has it. No row is ever deleted.
UpdateAdmin(r) ==
    LET q == req[r] IN
    /\ q.pc = "checked"
    /\ admin' = [admin EXCEPT
           ![q.target].role = IF NewRole(q) # q.seen.role THEN NewRole(q) ELSE @,
           ![q.target].enabled = IF q.payload.disabled = "yes" THEN FALSE
                                 ELSE IF q.payload.disabled = "no" THEN TRUE ELSE @]
    /\ Committed(r)
    /\ UNCHANGED <<limitVars, session>>

\* The connection or the process goes before the commit.
RequestLost(r) == /\ req[r].pc # "idle"
                  /\ Answer(r)
                  /\ overtaken' = overtaken \ {r}
                  /\ UNCHANGED <<limitVars, admin, session>>

RequestStep(r) == \/ CreateAdmin(r) \/ LoadAdmin(r) \/ CheckLastSuperAdmin(r)
                  \/ UpdateAdmin(r) \/ RequestLost(r)

StartRequest(r) ==
    \E a, target \in Admins :
        \/ \E role \in Role : Accept(r, a, target, [NoPayload EXCEPT !.role = role], "create")
        \/ \E payload \in Payloads : Accept(r, a, target, payload, "update")

Next == \/ SeedAdminRow
        \/ \E k \in Clients : Login(k)
        \/ \E a \in Admins : TokensExpire(a)
        \/ \E r \in Requests : StartRequest(r) \/ RequestStep(r)
        \/ LimitNext /\ UNCHANGED <<admin, session, req, overtaken>>

Spec == Init /\ [][Next]_vars
-----------------------------------------------------------------------------
(* The last active super-admin can only be lost to a request that another  *)
(* one overtook: the row it changes was changed after it had loaded it, or *)
(* a super-admin was taken away after it had counted them. Requests that   *)
(* merely run at the same time never lose the last one (handleUpdateAdmin, *)
(* countActiveSuperAdmins).                                                *)
LastSuperAdminStays ==
    [][ActiveSupers # {} /\ ActiveSupers' = {} =>
           \E r \in overtaken : req[r].pc = "checked" /\ req'[r].pc = "idle"]_vars

(* A counter that will not expire, and would lock its address out for ever *)
(* once it is over the limit, waits for the attempt that sets its expiry,  *)
(* or that attempt ended without setting it (rateLimit).                   *)
NoEndlessBlock ==
    count > 0 /\ ~expires => expireLost \/ \E k \in Clients : client[k] = "first"
=============================================================================
