---------------------------- MODULE AccessProofs ----------------------------
(***************************************************************************)
(* Theorems about Access, for any finite set of admins, any number of      *)
(* requests and of logins under way, and any limit.                        *)
(***************************************************************************)
EXTENDS Access, FiniteSetTheorems, TLAPS

(* What a request carries at each point: an actor and a target; a role for *)
(* a row to be created; a row that was there when it was loaded, and rows  *)
(* are not deleted.                                                        *)
RequestIsWhole(r) ==
    /\ req[r].pc # "idle" => req[r].actor \in Admins /\ req[r].target \in Admins
    /\ req[r].pc = "create" => req[r].payload.role # NoRole
    /\ req[r].pc \in {"loaded", "checked"} => req[r].seen.role # NoRole /\ Exists(req[r].target)

RequestInv == TypeOK /\ \A r \in Requests : RequestIsWhole(r)

LEMMA RolesDiffer == NoRole \notin Role /\ Row = [role : Role \cup {NoRole}, enabled : BOOLEAN]
  BY PayloadsAssumption DEF Role, NoRole, Row

LEMMA InitRequestInv == Init => RequestInv
<1> SUFFICES ASSUME Init PROVE RequestInv
  OBVIOUS
<1>1. LimitTypeOK
  <2>1. count \in 0 .. Limit + 1
    BY LimitAssumption DEF Init, LimitInit
  <2>2. expires \in BOOLEAN /\ expireLost \in BOOLEAN
    BY Zenon DEF Init, LimitInit
  <2>3. client \in [Clients -> {"idle", "first", "admitted"}]
    BY DEF Init, LimitInit
  <2>4. QED BY <2>1, <2>2, <2>3 DEF LimitTypeOK
<1>2. Absent \in Row /\ IdleRequest \in Request
  BY DEF Absent, Row, IdleRequest, Request, NoPayload, Payload
<1>3. /\ admin \in [Admins -> Row] /\ session \subseteq Admins
      /\ req \in [Requests -> Request] /\ overtaken \subseteq Requests
  BY <1>2 DEF Init
<1>4. \A a \in Admins : ~admin[a].enabled
  BY DEF Init, Absent
<1>5. TypeOK
  BY <1>1, <1>3, <1>4 DEF TypeOK
<1>6. QED BY <1>5 DEF Init, RequestInv, RequestIsWhole, IdleRequest

-----------------------------------------------------------------------------
(* The login limit.                                                        *)

LEMMA LimitStepTypes ==
    ASSUME LimitTypeOK, LimitNext \/ (\E k \in Clients : Login(k))
    PROVE  LimitTypeOK'
<1>1. Limit \in Nat
  BY LimitAssumption
<1>2. CASE \E k \in Clients : Login(k)
  BY <1>2 DEF Login, LimitTypeOK
<1>3. ASSUME NEW k \in Clients, Incr(k) PROVE LimitTypeOK'
  <2>1. count' \in 0 .. Limit + 1
    BY <1>1, <1>3 DEF Incr, IncrWithExpiryAt, LimitTypeOK
  <2>2. PICK stage \in {"idle", "first", "admitted"} : client' = [client EXCEPT ![k] = stage]
    BY <1>3 DEF Incr, IncrWithExpiryAt
  <2>3. client' \in [Clients -> {"idle", "first", "admitted"}]
    BY <2>2 DEF LimitTypeOK
  <2>4. QED BY <1>3, <2>1, <2>3 DEF Incr, IncrWithExpiryAt, LimitTypeOK
<1>4. ASSUME NEW k \in Clients, IncrFails(k) \/ Expire(k) \/ ExpireFails(k) PROVE LimitTypeOK'
  <2>1. count' \in 0 .. Limit + 1
    BY <1>4 DEF IncrFails, Expire, ExpireFails, LimitTypeOK
  <2>2. expires' \in BOOLEAN /\ expireLost' \in BOOLEAN
    <3>1. CASE Expire(k)
      <4>1. expires' \in BOOLEAN
        BY <3>1 DEF Expire
      <4>2. QED BY <3>1, <4>1, Zenon DEF Expire, LimitTypeOK
    <3>2. CASE IncrFails(k) \/ ExpireFails(k)
      BY <3>2, Zenon DEF IncrFails, ExpireFails, LimitTypeOK
    <3>3. QED BY <1>4, <3>1, <3>2
  <2>3. PICK stage \in {"idle", "first", "admitted"} : client' = [client EXCEPT ![k] = stage]
    BY <1>4 DEF IncrFails, Expire, ExpireFails
  <2>4. client' \in [Clients -> {"idle", "first", "admitted"}]
    BY <2>3 DEF LimitTypeOK
  <2>5. QED BY <2>1, <2>2, <2>4 DEF LimitTypeOK
<1>5. CASE WindowEnds
  <2>1. count' \in 0 .. Limit + 1
    BY <1>1, <1>5 DEF WindowEnds
  <2>2. expires' \in BOOLEAN /\ expireLost' \in BOOLEAN
    BY <1>5, Zenon DEF WindowEnds, LimitTypeOK
  <2>3. QED BY <1>5, <2>1, <2>2 DEF WindowEnds, LimitTypeOK
<1>6. QED BY <1>2, <1>3, <1>4, <1>5 DEF LimitNext

(* The attempt that finds no counter is the one that sets the expiry, and  *)
(* until it has, it is there.                                              *)
LEMMA LimitStepNoEndlessBlock ==
    ASSUME LimitTypeOK, NoEndlessBlock, LimitNext \/ (\E k \in Clients : Login(k))
    PROVE  NoEndlessBlock'
<1>1. /\ count \in Nat /\ client \in [Clients -> {"idle", "first", "admitted"}]
      /\ expires \in BOOLEAN
  BY LimitAssumption DEF LimitTypeOK
<1>2. ASSUME NEW k \in Clients, Incr(k) PROVE NoEndlessBlock'
  <2>1. CASE count = 0
    <3>1. client'[k] = "first"
      BY <1>1, <1>2, <2>1 DEF Incr, IncrWithExpiryAt
    <3>2. QED BY <3>1 DEF NoEndlessBlock
  <2>2. CASE count # 0
    BY <1>1, <1>2, <2>2 DEF Incr, IncrWithExpiryAt, NoEndlessBlock
  <2>3. QED BY <2>1, <2>2
<1>3. ASSUME NEW k \in Clients, IncrFails(k) \/ Login(k) PROVE NoEndlessBlock'
  BY <1>1, <1>3 DEF IncrFails, Login, NoEndlessBlock
<1>4. ASSUME NEW k \in Clients, Expire(k) PROVE NoEndlessBlock'
  BY <1>1, <1>4 DEF Expire, NoEndlessBlock
<1>5. ASSUME NEW k \in Clients, ExpireFails(k) PROVE NoEndlessBlock'
  BY <1>5 DEF ExpireFails, NoEndlessBlock
<1>6. CASE WindowEnds
  BY <1>6 DEF WindowEnds, NoEndlessBlock
<1>7. QED BY <1>2, <1>3, <1>4, <1>5, <1>6 DEF LimitNext

-----------------------------------------------------------------------------
(* The requests.                                                           *)

LEMMA StartRequestAccepts ==
    ASSUME NEW r \in Requests, StartRequest(r)
    PROVE  \E a \in Admins, target \in Admins, payload \in Payload, kind \in {"create", "update"} :
               Accept(r, a, target, payload, kind) /\ (kind = "create" => payload.role # NoRole)
<1>1. ASSUME NEW role \in Role
      PROVE  /\ [NoPayload EXCEPT !.role = role] \in Payload
             /\ [NoPayload EXCEPT !.role = role].role = role
  BY <1>1 DEF NoPayload, Payload
<1>2. QED BY <1>1, RolesDiffer, PayloadsAssumption DEF StartRequest

LEMMA StartRequestEffect ==
    ASSUME req \in [Requests -> Request], NEW r \in Requests, StartRequest(r)
    PROVE  /\ req[r].pc = "idle" /\ req'[r].pc \in {"create", "update"}
           /\ \A s \in Requests \ {r} : req'[s] = req[s]
           /\ UNCHANGED <<limitVars, admin, session, overtaken>>
<1>1. PICK a \in Admins, target \in Admins, payload \in Payload, kind \in {"create", "update"} :
          Accept(r, a, target, payload, kind)
  BY StartRequestAccepts
<1> DEFINE q == [IdleRequest EXCEPT !.pc = kind, !.actor = a, !.target = target,
                                    !.payload = payload]
<1>2. q.pc = kind
  BY DEF IdleRequest
<1>3. /\ req[r].pc = "idle" /\ req' = [req EXCEPT ![r] = q]
      /\ UNCHANGED <<limitVars, admin, session, overtaken>>
  BY <1>1 DEF Accept
<1> HIDE DEF q
<1>4. req'[r] = q /\ \A s \in Requests \ {r} : req'[s] = req[s]
  BY <1>3
<1>5. QED BY <1>2, <1>3, <1>4

LEMMA StartRequestInv ==
    ASSUME RequestInv, NEW r \in Requests, StartRequest(r)
    PROVE  RequestInv'
<1>1. PICK a \in Admins, target \in Admins, payload \in Payload, kind \in {"create", "update"} :
          Accept(r, a, target, payload, kind) /\ (kind = "create" => payload.role # NoRole)
  BY StartRequestAccepts
<1> DEFINE q == [IdleRequest EXCEPT !.pc = kind, !.actor = a, !.target = target,
                                    !.payload = payload]
<1>2. q \in Request
  <2>1. Absent \in Row
    BY DEF Absent, Row
  <2>2. QED BY <2>1 DEF IdleRequest, Request, NoPayload
<1>3. /\ q.pc = kind /\ q.actor = a /\ q.target = target /\ q.payload = payload
  BY DEF IdleRequest
<1>4. req' = [req EXCEPT ![r] = q] /\ UNCHANGED <<limitVars, admin, session, overtaken>>
  BY <1>1 DEF Accept
<1> HIDE DEF q
<1>5. req' \in [Requests -> Request] /\ \A s \in Requests \ {r} : req'[s] = req[s]
  BY <1>2, <1>4 DEF RequestInv, TypeOK
<1>6. TypeOK'
  BY <1>4, <1>5 DEF RequestInv, TypeOK, limitVars, LimitTypeOK, Exists
<1>7. req'[r] = q
  BY <1>2, <1>4 DEF RequestInv, TypeOK
<1>8. ASSUME NEW s \in Requests PROVE RequestIsWhole(s)'
  <2>1. CASE s = r
    BY <1>1, <1>3, <1>7, <2>1 DEF RequestIsWhole
  <2>2. CASE s # r
    BY <1>4, <1>5, <2>2 DEF RequestInv, RequestIsWhole, Exists
  <2>3. QED BY <2>1, <2>2
<1>9. QED BY <1>6, <1>8 DEF RequestInv

\* What Answer leaves.
LEMMA AnswerEffect ==
    ASSUME req \in [Requests -> Request], NEW r \in Requests, Answer(r)
    PROVE  /\ req' \in [Requests -> Request] /\ req'[r].pc = "idle"
           /\ \A s \in Requests \ {r} : req'[s] = req[s]
<1>1. IdleRequest \in Request /\ IdleRequest.pc = "idle"
  BY DEF IdleRequest, Request, NoPayload, Payload, Absent, Row
<1>2. QED BY <1>1 DEF Answer

\* Rows are changed and created, and never deleted.
LEMMA RequestEnds ==
    ASSUME RequestInv, NEW r \in Requests, Answer(r), overtaken' \subseteq Requests,
           UNCHANGED <<limitVars, session>>, admin' \in [Admins -> Row],
           \A a \in Admins : (Exists(a) => Exists(a)') /\ (admin'[a].enabled => Exists(a)')
    PROVE  RequestInv'
<1>1. req \in [Requests -> Request]
  BY DEF RequestInv, TypeOK
<1>2. /\ req' \in [Requests -> Request] /\ req'[r].pc = "idle"
      /\ \A s \in Requests \ {r} : req'[s] = req[s]
  BY <1>1, AnswerEffect
<1>3. TypeOK'
  BY <1>2 DEF RequestInv, TypeOK, limitVars, LimitTypeOK
<1>4. ASSUME NEW s \in Requests PROVE RequestIsWhole(s)'
  <2>1. CASE s = r
    BY <1>2, <2>1 DEF RequestIsWhole
  <2>2. CASE s # r
    BY <1>2, <2>2 DEF RequestInv, RequestIsWhole
  <2>3. QED BY <2>1, <2>2
<1>5. QED BY <1>3, <1>4 DEF RequestInv

LEMMA RequestGoesOn ==
    ASSUME RequestInv, NEW r \in Requests, NEW q \in Request, req' = [req EXCEPT ![r] = q],
           UNCHANGED <<limitVars, admin, session, overtaken>>,
           q.actor \in Admins, q.target \in Admins, q.pc # "create",
           q.seen.role # NoRole, Exists(q.target)
    PROVE  RequestInv'
<1>1. req' \in [Requests -> Request] /\ \A s \in Requests \ {r} : req'[s] = req[s]
  BY DEF RequestInv, TypeOK
<1>2. TypeOK'
  BY <1>1 DEF RequestInv, TypeOK, limitVars, LimitTypeOK, Exists
<1>3. req'[r] = q
  BY DEF RequestInv, TypeOK
<1>4. ASSUME NEW s \in Requests PROVE RequestIsWhole(s)'
  <2>1. CASE s = r
    BY <1>3, <2>1 DEF RequestIsWhole, Exists
  <2>2. CASE s # r
    BY <1>1, <2>2 DEF RequestInv, RequestIsWhole, Exists
  <2>3. QED BY <2>1, <2>2
<1>5. QED BY <1>2, <1>4 DEF RequestInv

\* What the UPDATE makes of the row.
LEMMA UpdateEffect ==
    ASSUME RequestInv, NEW r \in Requests, UpdateAdmin(r)
    PROVE  LET q == req[r] IN
           /\ q.target \in Admins /\ q.seen \in Row /\ q.seen.role # NoRole
           /\ NewRole(q) \in Role
           /\ admin' \in [Admins -> Row]
           /\ \A a \in Admins \ {q.target} : admin'[a] = admin[a]
           /\ admin'[q.target].role = IF NewRole(q) # q.seen.role THEN NewRole(q)
                                      ELSE admin[q.target].role
           /\ admin'[q.target].enabled = IF q.payload.disabled = "yes" THEN FALSE
                                         ELSE IF q.payload.disabled = "no"
                                              THEN TRUE ELSE admin[q.target].enabled
           /\ Exists(q.target) /\ admin'[q.target].role # NoRole
<1> DEFINE q == req[r]
           t == q.target
           role == IF NewRole(q) # q.seen.role THEN NewRole(q) ELSE admin[t].role
           enabled == IF q.payload.disabled = "yes" THEN FALSE
                      ELSE IF q.payload.disabled = "no"
                           THEN TRUE ELSE admin[t].enabled
<1>1. q \in Request /\ q.pc = "checked" /\ admin \in [Admins -> Row]
  BY DEF RequestInv, TypeOK, UpdateAdmin
<1>2. /\ t \in Admins /\ q.seen \in Row /\ q.seen.role # NoRole /\ Exists(t)
      /\ q.payload.role \in Role \cup {NoRole}
  BY <1>1 DEF RequestInv, RequestIsWhole, Request, Payload
<1>3. NewRole(q) \in Role
  BY <1>2 DEF NewRole, Row
<1>4. admin[t] \in Row /\ admin[t].role \in Role /\ admin[t].enabled \in BOOLEAN
  BY <1>1, <1>2 DEF Row, Exists
<1>5. role \in Role /\ enabled \in BOOLEAN
  BY <1>3, <1>4
<1>6. PICK newRole \in Role, newEnabled \in BOOLEAN :
          /\ newRole = role /\ newEnabled = enabled
          /\ admin' = [admin EXCEPT ![t] = [[admin[t] EXCEPT !.role = newRole]
                                                      EXCEPT !.enabled = newEnabled]]
  <2>1. admin' = [admin EXCEPT ![t] = [[admin[t] EXCEPT !.role = role] EXCEPT !.enabled = enabled]]
    BY <1>1, <1>2 DEF UpdateAdmin
  <2>2. CASE q.payload.disabled = "yes"
    <3>1. admin' = [admin EXCEPT ![t] = [[admin[t] EXCEPT !.role = role] EXCEPT !.enabled = FALSE]]
      BY <2>1, <2>2
    <3>2. enabled = FALSE
      BY <2>2
    <3>3. QED BY <1>5, <3>1, <3>2
  <2>3. CASE q.payload.disabled = "no"
    <3>1. admin' = [admin EXCEPT ![t] = [[admin[t] EXCEPT !.role = role] EXCEPT !.enabled = TRUE]]
      BY <2>1, <2>3
    <3>2. enabled = TRUE
      BY <2>3
    <3>3. QED BY <1>5, <3>1, <3>2
  <2>4. CASE q.payload.disabled # "yes" /\ q.payload.disabled # "no"
    <3>1. admin' = [admin EXCEPT ![t] = [[admin[t] EXCEPT !.role = role]
                                                   EXCEPT !.enabled = admin[t].enabled]]
      BY <2>1, <2>4
    <3>2. enabled = admin[t].enabled
      BY <2>4
    <3>3. QED BY <1>4, <1>5, <3>1, <3>2
  <2> HIDE DEF role, enabled
  <2>5. QED BY <2>2, <2>3, <2>4, Zenon
<1> DEFINE row == [[admin[t] EXCEPT !.role = newRole] EXCEPT !.enabled = newEnabled]
<1> HIDE DEF role, enabled
<1>7. row \in Row /\ row.role = newRole /\ row.enabled = newEnabled
  BY <1>4 DEF Row
<1> HIDE DEF row
<1>8. admin' \in [Admins -> Row] /\ \A a \in Admins \ {t} : admin'[a] = admin[a]
  <2>1. admin' = [admin EXCEPT ![t] = row]
    BY <1>6, Zenon DEF row
  <2>2. QED BY <1>1, <1>7, <2>1
<1>9. admin'[t].role = role /\ admin'[t].enabled = enabled
  <2>1. admin' = [admin EXCEPT ![t] = row]
    BY <1>6, Zenon DEF row
  <2>2. admin'[t] = row
    BY <1>1, <1>2, <2>1
  <2>3. QED BY <1>6, <1>7, <2>2, Zenon
<1>10. admin'[t].role # NoRole
  BY <1>5, <1>9, RolesDiffer
<1>11. QED BY <1>2, <1>3, <1>8, <1>9, <1>10 DEF role, enabled

LEMMA UpdateInv ==
    ASSUME RequestInv, NEW r \in Requests, UpdateAdmin(r)
    PROVE  RequestInv'
<1>1. /\ Answer(r) /\ overtaken' \subseteq Requests /\ UNCHANGED <<limitVars, session>>
  BY DEF UpdateAdmin, Committed
<1>2. \A a \in Admins : (Exists(a) => Exists(a)') /\ (admin'[a].enabled => Exists(a)')
  <2> TAKE a \in Admins
  <2>1. CASE a = req[r].target
    BY <2>1, UpdateEffect DEF Exists
  <2>2. CASE a # req[r].target
    BY <2>2, UpdateEffect DEF Exists, RequestInv, TypeOK
  <2>3. QED BY <2>1, <2>2
<1>3. admin' \in [Admins -> Row]
  BY UpdateEffect
<1>4. QED BY <1>1, <1>2, <1>3, RequestEnds

\* A row is created where there was none, and is no super-admin's before.
LEMMA CreateEffect ==
    ASSUME RequestInv, NEW r \in Requests, CreateAdmin(r)
    PROVE  /\ admin' \in [Admins -> Row]
           /\ \A a \in Admins : /\ Exists(a) => admin'[a] = admin[a]
                                /\ admin'[a] # admin[a] => admin'[a].role # NoRole
<1> DEFINE t == req[r].target
           row == [role |-> req[r].payload.role, enabled |-> TRUE]
<1>1. /\ admin \in [Admins -> Row] /\ t \in Admins
      /\ req[r].payload.role \in Role \cup {NoRole} /\ req[r].payload.role # NoRole
  BY DEF RequestInv, TypeOK, RequestIsWhole, CreateAdmin, Request, Payload
<1>2. row \in Row /\ row.role # NoRole
  BY <1>1 DEF Row
<1>3. admin' = IF Exists(t) THEN admin ELSE [admin EXCEPT ![t] = row]
  BY DEF CreateAdmin
<1> HIDE DEF row, t
<1>4. admin' \in [Admins -> Row]
  BY <1>1, <1>2, <1>3
<1>5. QED BY <1>1, <1>2, <1>3, <1>4 DEF Exists

LEMMA RequestStepInv ==
    ASSUME RequestInv, NEW r \in Requests, RequestStep(r)
    PROVE  RequestInv'
<1>1. CASE CreateAdmin(r)
  <2>1. Answer(r) /\ overtaken' \subseteq Requests /\ UNCHANGED <<limitVars, session>>
    BY <1>1 DEF CreateAdmin, Committed
  <2>2. /\ admin' \in [Admins -> Row]
        /\ \A a \in Admins : /\ Exists(a) => admin'[a] = admin[a]
                             /\ admin'[a] # admin[a] => admin'[a].role # NoRole
    BY <1>1, CreateEffect
  <2>3. \A a \in Admins : admin[a].enabled => Exists(a)
    BY DEF RequestInv, TypeOK
  <2>4. ASSUME NEW a \in Admins
        PROVE  (Exists(a) => Exists(a)') /\ (admin'[a].enabled => Exists(a)')
    <3>1. CASE admin'[a] = admin[a]
      BY <2>3, <3>1 DEF Exists
    <3>2. CASE admin'[a] # admin[a]
      <4>1. admin'[a].role # NoRole
        BY <2>2, <3>2
      <4>2. QED BY <4>1 DEF Exists, NoRole
    <3>3. QED BY <3>1, <3>2
  <2>5. QED BY <2>1, <2>2, <2>4, RequestEnds
<1>2. CASE UpdateAdmin(r)
  BY <1>2, UpdateInv
<1>3. ASSUME Answer(r), overtaken' \subseteq Requests, UNCHANGED <<limitVars, admin, session>>
      PROVE  RequestInv'
  <2>1. \A a \in Admins : (Exists(a) => Exists(a)') /\ (admin'[a].enabled => Exists(a)')
    BY <1>3 DEF Exists, RequestInv, TypeOK
  <2>2. admin' \in [Admins -> Row] /\ UNCHANGED <<limitVars, session>>
    BY <1>3 DEF RequestInv, TypeOK
  <2>3. QED BY <1>3, <2>1, <2>2, RequestEnds
<1>4. CASE LoadAdmin(r)
  <2>1. CASE Exists(req[r].target)
    <3> DEFINE q == [req[r] EXCEPT !.pc = "loaded", !.seen = admin[req[r].target]]
    <3>1. /\ req[r] \in Request /\ req[r].actor \in Admins /\ req[r].target \in Admins
          /\ admin[req[r].target] \in Row
      BY <1>4 DEF RequestInv, TypeOK, RequestIsWhole, LoadAdmin
    <3>2. /\ q \in Request /\ q.actor = req[r].actor /\ q.target = req[r].target
          /\ q.pc = "loaded" /\ q.seen = admin[req[r].target]
      BY <3>1 DEF Request
    <3>3. req' = [req EXCEPT ![r] = q] /\ UNCHANGED <<limitVars, admin, session, overtaken>>
      BY <1>4, <2>1 DEF LoadAdmin
    <3> HIDE DEF q
    <3>4. QED BY <2>1, <3>1, <3>2, <3>3, RequestGoesOn DEF Exists
  <2>2. CASE ~Exists(req[r].target)
    BY <1>3, <1>4, <2>2 DEF LoadAdmin, RequestInv, TypeOK
  <2>3. QED BY <2>1, <2>2
<1>5. CASE CheckLastSuperAdmin(r)
  <2>1. CASE Answer(r) /\ overtaken' = overtaken \ {r}
    BY <1>3, <1>5, <2>1 DEF CheckLastSuperAdmin, RequestInv, TypeOK
  <2>2. CASE req' = [req EXCEPT ![r].pc = "checked"] /\ UNCHANGED overtaken
    <3> DEFINE q == [req[r] EXCEPT !.pc = "checked"]
    <3>1. /\ req[r] \in Request /\ req[r].actor \in Admins /\ req[r].target \in Admins
          /\ req[r].seen.role # NoRole /\ Exists(req[r].target)
      BY <1>5 DEF RequestInv, TypeOK, RequestIsWhole, CheckLastSuperAdmin
    <3>2. /\ q \in Request /\ q.actor = req[r].actor /\ q.target = req[r].target
          /\ q.pc = "checked" /\ q.seen = req[r].seen
      BY <3>1 DEF Request
    <3>3. req' = [req EXCEPT ![r] = q] /\ UNCHANGED <<limitVars, admin, session, overtaken>>
      BY <1>5, <2>2 DEF CheckLastSuperAdmin
    <3> HIDE DEF q
    <3>4. QED BY <3>1, <3>2, <3>3, RequestGoesOn
  <2>3. QED BY <1>5, <2>1, <2>2 DEF CheckLastSuperAdmin
<1>6. CASE RequestLost(r)
  BY <1>3, <1>6 DEF RequestLost, RequestInv, TypeOK
<1>7. QED BY <1>1, <1>2, <1>4, <1>5, <1>6 DEF RequestStep

LEMMA NextRequestInv == RequestInv /\ [Next]_vars => RequestInv'
<1> SUFFICES ASSUME RequestInv, [Next]_vars PROVE RequestInv'
  OBVIOUS
<1>1. ASSUME LimitTypeOK', session' \subseteq Admins,
             UNCHANGED <<admin, req, overtaken>>
      PROVE  RequestInv'
  BY <1>1 DEF RequestInv, TypeOK, RequestIsWhole, Exists
<1>2. ASSUME UNCHANGED limitVars PROVE LimitTypeOK'
  BY <1>2 DEF limitVars, LimitTypeOK, RequestInv, TypeOK
<1>3. ASSUME NEW k \in Clients, Login(k) PROVE RequestInv'
  <2>1. LimitTypeOK'
    BY <1>3, LimitStepTypes DEF RequestInv, TypeOK
  <2>2. session' \subseteq Admins /\ UNCHANGED <<admin, req, overtaken>>
    BY <1>3 DEF Login, RequestInv, TypeOK
  <2>3. QED BY <1>1, <2>1, <2>2
<1>4. ASSUME NEW a \in Admins, TokensExpire(a) PROVE RequestInv'
  BY <1>1, <1>2, <1>4 DEF TokensExpire, RequestInv, TypeOK
<1>5. CASE SeedAdminRow
  <2> DEFINE row == [role |-> "super_admin", enabled |-> TRUE]
  <2>1. row \in Row /\ row.role # NoRole
    BY RolesDiffer DEF Row, Role, NoRole
  <2>2. admin' = [admin EXCEPT ![SeedAdmin] = row] /\ UNCHANGED <<limitVars, session, req, overtaken>>
    BY <1>5 DEF SeedAdminRow
  <2> HIDE DEF row
  <2>3. /\ admin' \in [Admins -> Row] /\ admin'[SeedAdmin] = row
        /\ \A a \in Admins \ {SeedAdmin} : admin'[a] = admin[a]
    BY <2>1, <2>2, AdminsAssumption DEF RequestInv, TypeOK
  <2>4. \A a \in Admins : (Exists(a) => Exists(a)') /\ (admin'[a].enabled => Exists(a)')
    <3> TAKE a \in Admins
    <3>1. CASE a = SeedAdmin
      BY <2>1, <2>3, <3>1 DEF Exists
    <3>2. CASE a # SeedAdmin
      BY <2>3, <3>2 DEF Exists, RequestInv, TypeOK
    <3>3. QED BY <3>1, <3>2
  <2>5. TypeOK'
    BY <1>2, <2>2, <2>3, <2>4 DEF RequestInv, TypeOK
  <2>6. \A r \in Requests : RequestIsWhole(r)'
    BY <2>2, <2>4 DEF RequestInv, RequestIsWhole, TypeOK, Request
  <2>7. QED BY <2>5, <2>6 DEF RequestInv
<1>6. ASSUME NEW r \in Requests, StartRequest(r) \/ RequestStep(r) PROVE RequestInv'
  BY <1>6, StartRequestInv, RequestStepInv
<1>7. CASE LimitNext /\ UNCHANGED <<admin, session, req, overtaken>>
  <2>1. LimitTypeOK'
    BY <1>7, LimitStepTypes DEF RequestInv, TypeOK
  <2>2. QED BY <1>1, <1>7, <2>1 DEF RequestInv, TypeOK
<1>8. CASE UNCHANGED vars
  BY <1>1, <1>2, <1>8 DEF vars, RequestInv, TypeOK
<1>9. QED BY <1>3, <1>4, <1>5, <1>6, <1>7, <1>8 DEF Next

LEMMA RequestInvariant == Spec => []RequestInv
  BY InitRequestInv, NextRequestInv, PTL DEF Spec

(* Every row, token and request is what the code takes it for: a row that  *)
(* is enabled has a role, no request is for an admin that was never there  *)
(* (handleUpdateAdmin, handleCreateAdmin).                                           *)
THEOREM AccessTypes == Spec => []TypeOK
<1>1. RequestInv => TypeOK
  BY DEF RequestInv
<1>2. QED BY <1>1, RequestInvariant, PTL

(* No address is locked out for ever, unless the attempt that had to set   *)
(* the expiry ended before it did: for any number of attempts at a time    *)
(* and any limit (rateLimit).                                              *)
THEOREM LockedOutForAWhile == Spec => []NoEndlessBlock
<1>1. Init => NoEndlessBlock
  BY DEF Init, LimitInit, NoEndlessBlock
<1>2. RequestInv /\ NoEndlessBlock /\ [Next]_vars => NoEndlessBlock'
  <2> SUFFICES ASSUME RequestInv, NoEndlessBlock, [Next]_vars PROVE NoEndlessBlock'
    OBVIOUS
  <2>1. ASSUME UNCHANGED limitVars PROVE NoEndlessBlock'
    BY <2>1 DEF limitVars, NoEndlessBlock
  <2>2. CASE LimitNext \/ (\E k \in Clients : Login(k))
    BY <2>2, LimitStepNoEndlessBlock DEF RequestInv, TypeOK
  <2>3. CASE SeedAdminRow \/ \E a \in Admins : TokensExpire(a)
    BY <2>1, <2>3 DEF SeedAdminRow, TokensExpire
  <2>4. ASSUME NEW r \in Requests, StartRequest(r) \/ RequestStep(r) PROVE NoEndlessBlock'
    <3>1. UNCHANGED limitVars
      BY <2>4 DEF StartRequest, RequestStep, Accept, CreateAdmin, LoadAdmin, CheckLastSuperAdmin,
                  UpdateAdmin, RequestLost
    <3>2. QED BY <2>1, <3>1
  <2>5. CASE UNCHANGED vars
    BY <2>1, <2>5 DEF vars
  <2>6. QED BY <2>2, <2>3, <2>4, <2>5 DEF Next
<1>3. QED BY <1>1, <1>2, RequestInvariant, PTL DEF Spec

-----------------------------------------------------------------------------
(* The last super-admin.                                                   *)

(* While nobody overtakes a request, the row is what it loaded; and after  *)
(* its check, one that takes a super-admin away has counted another.       *)
CheckHolds(r) ==
    r \notin overtaken =>
        /\ req[r].pc \in {"loaded", "checked"} => admin[req[r].target] = req[r].seen
        /\ req[r].pc = "checked" /\ (Demotes(req[r]) \/ Disables(req[r]))
             => Cardinality(ActiveSupers) > 1

SuperInv == RequestInv /\ \A r \in Requests : CheckHolds(r)

LEMMA SupersAreFinite ==
    /\ IsFiniteSet(ActiveSupers) /\ Cardinality(ActiveSupers) \in Nat
    /\ ActiveSupers \subseteq ActiveSupers'
         => Cardinality(ActiveSupers) <= Cardinality(ActiveSupers')
<1>1. ActiveSupers \subseteq Admins /\ ActiveSupers' \subseteq Admins
  BY DEF ActiveSupers
<1>2. IsFiniteSet(ActiveSupers) /\ IsFiniteSet(ActiveSupers')
  BY <1>1, AdminsAssumption, FS_Subset
<1>3. QED BY <1>2, FS_Subset, FS_CardinalityType

\* A request that a step leaves alone: its row stays, and no super-admin goes
\* that it has counted.
LEMMA CheckStays ==
    ASSUME NEW r, CheckHolds(r), req'[r] = req[r], r \notin overtaken' => r \notin overtaken,
           r \notin overtaken' => ~Overtakes(r)
    PROVE  CheckHolds(r)'
<1> SUFFICES ASSUME r \notin overtaken' PROVE CheckHolds(r)'
  BY DEF CheckHolds
<1>1. /\ NewRole(req[r])' = NewRole(req[r]) /\ (Demotes(req[r])' <=> Demotes(req[r]))
      /\ (Disables(req[r])' <=> Disables(req[r]))
  BY DEF NewRole, Demotes, Disables
<1>2. req[r].pc \in {"loaded", "checked"} => admin'[req[r].target] = req[r].seen
  BY DEF CheckHolds, Overtakes
<1>3. ASSUME req[r].pc = "checked", Cardinality(ActiveSupers) > 1
      PROVE  Cardinality(ActiveSupers') > 1
  <2>1. ActiveSupers \subseteq ActiveSupers'
    BY <1>3 DEF Overtakes
  <2>2. /\ Cardinality(ActiveSupers) \in Nat /\ Cardinality(ActiveSupers') \in Nat
        /\ Cardinality(ActiveSupers) <= Cardinality(ActiveSupers')
    <3>1. Cardinality(ActiveSupers') \in Nat
      <4>1. ActiveSupers' \subseteq Admins
        BY DEF ActiveSupers
      <4>2. QED BY <4>1, AdminsAssumption, FS_Subset, FS_CardinalityType
    <3>2. QED BY <2>1, <3>1, SupersAreFinite
  <2>3. QED BY <1>3, <2>2
<1>4. QED BY <1>1, <1>2, <1>3 DEF CheckHolds

\* While the rows stay, nobody is overtaken.
LEMMA RowsStay == ASSUME UNCHANGED admin, NEW r PROVE ~Overtakes(r)
  BY DEF Overtakes, ActiveSupers

\* Who commits overtakes those whose reading it spoils.
LEMMA CommitOvertakes ==
    ASSUME SuperInv, NEW r \in Requests, Committed(r)
    PROVE  \A s \in Requests : CheckHolds(s)'
<1> TAKE s \in Requests
<1>1. req \in [Requests -> Request]
  BY DEF SuperInv, RequestInv, TypeOK
<1>2. CASE s = r
  BY <1>1, <1>2, AnswerEffect DEF Committed, CheckHolds
<1>3. CASE s # r
  <2>1. req'[s] = req[s]
    BY <1>1, <1>3, AnswerEffect DEF Committed
  <2>2. /\ s \notin overtaken' => s \notin overtaken
        /\ s \notin overtaken' => ~Overtakes(s)
    BY <1>3 DEF Committed
  <2>3. QED BY <2>1, <2>2, CheckStays DEF SuperInv
<1>4. QED BY <1>2, <1>3

\* Who ends without a commit overtakes nobody.
LEMMA EndOvertakesNobody ==
    ASSUME SuperInv, NEW r \in Requests, Answer(r), admin' = admin,
           overtaken' \in {overtaken, overtaken \ {r}}
    PROVE  \A s \in Requests : CheckHolds(s)'
<1> TAKE s \in Requests
<1>1. req \in [Requests -> Request]
  BY DEF SuperInv, RequestInv, TypeOK
<1>2. CASE s = r
  BY <1>1, <1>2, AnswerEffect DEF CheckHolds
<1>3. CASE s # r
  <2>1. req'[s] = req[s] /\ (s \in overtaken' <=> s \in overtaken)
    BY <1>1, <1>3, AnswerEffect
  <2>2. QED BY <2>1, CheckStays, RowsStay DEF SuperInv
<1>4. QED BY <1>2, <1>3

LEMMA CheckStepHolds ==
    ASSUME SuperInv, NEW r \in Requests, CheckLastSuperAdmin(r)
    PROVE  \A s \in Requests : CheckHolds(s)'
<1>1. CASE Answer(r) /\ overtaken' = overtaken \ {r}
  BY <1>1, EndOvertakesNobody DEF CheckLastSuperAdmin
<1>2. CASE /\ req' = [req EXCEPT ![r].pc = "checked"] /\ UNCHANGED overtaken
           /\ ~((Demotes(req[r]) \/ Disables(req[r])) /\ Cardinality(ActiveSupers) <= 1)
  <2> TAKE s \in Requests
  <2>1. /\ req \in [Requests -> Request] /\ req[r] \in Request /\ req[r].pc = "loaded"
        /\ UNCHANGED admin
    BY DEF SuperInv, RequestInv, TypeOK, CheckLastSuperAdmin
  <2>2. CASE s = r
    <3>1. /\ req'[r].target = req[r].target /\ req'[r].seen = req[r].seen
          /\ req'[r].payload = req[r].payload
      BY <1>2, <2>1 DEF Request
    <3>2. /\ NewRole(req[r])' = NewRole(req[r]) /\ (Demotes(req[r])' <=> Demotes(req[r]))
          /\ (Disables(req[r])' <=> Disables(req[r])) /\ ActiveSupers' = ActiveSupers
      BY <2>1, <3>1 DEF NewRole, Demotes, Disables, ActiveSupers
    <3>3. r \notin overtaken => admin[req[r].target] = req[r].seen
      BY <2>1 DEF SuperInv, CheckHolds
    <3>4. Cardinality(ActiveSupers) \in Nat
      BY SupersAreFinite
    <3>5. QED BY <1>2, <2>1, <2>2, <3>1, <3>2, <3>3, <3>4 DEF CheckHolds
  <2>3. CASE s # r
    <3>1. req'[s] = req[s]
      BY <1>2, <2>1, <2>3
    <3>2. QED BY <1>2, <2>1, <3>1, CheckStays, RowsStay DEF SuperInv
  <2>4. QED BY <2>2, <2>3
<1>3. QED BY <1>1, <1>2 DEF CheckLastSuperAdmin

\* The seeded admin is one more, and nobody's target.
LEMMA SeedHolds ==
    ASSUME SuperInv, SeedAdminRow
    PROVE  \A s \in Requests : CheckHolds(s)'
<1> DEFINE row == [role |-> "super_admin", enabled |-> TRUE]
<1> TAKE s \in Requests
<1>1. /\ admin \in [Admins -> Row] /\ SeedAdmin \in Admins
      /\ admin' = [admin EXCEPT ![SeedAdmin] = row] /\ UNCHANGED <<req, overtaken>>
      /\ ~Exists(SeedAdmin) /\ ~admin[SeedAdmin].enabled
  BY AdminsAssumption DEF SuperInv, RequestInv, TypeOK, SeedAdminRow
<1>2. \A a \in Admins \ {SeedAdmin} : admin'[a] = admin[a]
  BY <1>1
<1>3. ASSUME req[s].pc \in {"loaded", "checked"}
      PROVE  admin'[req[s].target] = admin[req[s].target]
  BY <1>1, <1>2, <1>3 DEF SuperInv, RequestInv, RequestIsWhole, Exists
<1>4. ActiveSupers \subseteq ActiveSupers'
  BY <1>1, <1>2 DEF ActiveSupers
<1>5. ~Overtakes(s)
  BY <1>3, <1>4 DEF Overtakes
<1>6. QED BY <1>1, <1>5, CheckStays DEF SuperInv

LEMMA SuperStep == SuperInv /\ [Next]_vars => SuperInv'
<1> SUFFICES ASSUME SuperInv, [Next]_vars PROVE SuperInv'
  OBVIOUS
<1>1. RequestInv'
  BY NextRequestInv DEF SuperInv
<1>2. ASSUME UNCHANGED <<admin, req, overtaken>> PROVE \A s \in Requests : CheckHolds(s)'
  BY <1>2, CheckStays, RowsStay DEF SuperInv
<1>3. CASE \/ SeedAdminRow
           \/ \E k \in Clients : Login(k)
           \/ \E a \in Admins : TokensExpire(a)
           \/ LimitNext /\ UNCHANGED <<admin, session, req, overtaken>>
           \/ UNCHANGED vars
  <2>1. SeedAdminRow \/ UNCHANGED <<admin, req, overtaken>>
    BY <1>3 DEF Login, TokensExpire, vars
  <2>2. QED BY <1>1, <1>2, <2>1, SeedHolds DEF SuperInv
<1>4. ASSUME NEW r \in Requests, StartRequest(r) PROVE SuperInv'
  <2>1. /\ req'[r].pc \in {"create", "update"} /\ UNCHANGED <<admin, overtaken>>
        /\ \A s \in Requests \ {r} : req'[s] = req[s]
    BY <1>4, StartRequestEffect DEF SuperInv, RequestInv, TypeOK
  <2>2. ASSUME NEW s \in Requests PROVE CheckHolds(s)'
    <3>1. CASE s = r
      BY <2>1, <3>1 DEF CheckHolds
    <3>2. CASE s # r
      BY <2>1, <3>2, CheckStays, RowsStay DEF SuperInv
    <3>3. QED BY <3>1, <3>2
  <2>3. QED BY <1>1, <2>2 DEF SuperInv
<1>5. ASSUME NEW r \in Requests, RequestStep(r) PROVE SuperInv'
  <2>1. CASE CreateAdmin(r) \/ UpdateAdmin(r)
    BY <1>1, <2>1, CommitOvertakes DEF CreateAdmin, UpdateAdmin, SuperInv
  <2>2. CASE LoadAdmin(r)
    <3>1. CASE Exists(req[r].target)
      <4>1. /\ req \in [Requests -> Request] /\ req[r] \in Request
            /\ req' = [req EXCEPT ![r].pc = "loaded", ![r].seen = admin[req[r].target]]
            /\ UNCHANGED <<admin, overtaken>>
        BY <2>2, <3>1 DEF LoadAdmin, SuperInv, RequestInv, TypeOK
      <4>2. /\ req'[r].pc = "loaded" /\ req'[r].seen = admin[req[r].target]
            /\ req'[r].target = req[r].target
            /\ \A s \in Requests \ {r} : req'[s] = req[s]
        BY <4>1 DEF Request
      <4>3. ASSUME NEW s \in Requests PROVE CheckHolds(s)'
        <5>1. CASE s = r
          BY <4>1, <4>2, <5>1 DEF CheckHolds
        <5>2. CASE s # r
          BY <4>1, <4>2, <5>2, CheckStays, RowsStay DEF SuperInv
        <5>3. QED BY <5>1, <5>2
      <4>4. QED BY <1>1, <4>3 DEF SuperInv
    <3>2. CASE ~Exists(req[r].target)
      BY <1>1, <2>2, <3>2, EndOvertakesNobody DEF LoadAdmin, SuperInv
    <3>3. QED BY <3>1, <3>2
  <2>3. CASE CheckLastSuperAdmin(r)
    BY <1>1, <2>3, CheckStepHolds DEF SuperInv
  <2>4. CASE RequestLost(r)
    BY <1>1, <2>4, EndOvertakesNobody DEF RequestLost, SuperInv
  <2>5. QED BY <1>5, <2>1, <2>2, <2>3, <2>4 DEF RequestStep
<1>6. QED BY <1>3, <1>4, <1>5 DEF Next

\* Only an update takes a super-admin away.
LEMMA OnlyUpdatesTakeAway ==
    ASSUME SuperInv, [Next]_vars, NEW a \in ActiveSupers, a \notin ActiveSupers'
    PROVE  \E r \in Requests : UpdateAdmin(r)
<1>1. a \in Admins /\ admin[a].role = "super_admin" /\ admin[a].enabled
  BY DEF ActiveSupers
<1>2. admin'[a] # admin[a]
  BY <1>1 DEF ActiveSupers
<1>3. Exists(a)
  BY <1>1 DEF Exists, NoRole
<1>4. ~SeedAdminRow
  <2>1. SUFFICES ASSUME SeedAdminRow PROVE FALSE
    OBVIOUS
  <2>2. a # SeedAdmin
    BY <1>3, <2>1 DEF SeedAdminRow
  <2>3. PICK row : admin' = [admin EXCEPT ![SeedAdmin] = row]
    BY <2>1 DEF SeedAdminRow
  <2>4. QED BY <1>1, <1>2, <2>2, <2>3 DEF SuperInv, RequestInv, TypeOK
<1>5. \A r \in Requests : ~CreateAdmin(r)
  BY <1>1, <1>2, <1>3, CreateEffect DEF SuperInv
<1>6. \A r \in Requests : ~StartRequest(r)
  BY <1>2, StartRequestEffect DEF SuperInv, RequestInv, TypeOK
<1>7. QED BY <1>2, <1>4, <1>5, <1>6 DEF Next, RequestStep, Login, TokensExpire, LoadAdmin,
                                        CheckLastSuperAdmin, RequestLost, vars

(* For any number of admins and of requests under way, the last active     *)
(* super-admin is only lost to a request that another one overtook: whose  *)
(* row was changed after its load, or after whose count a super-admin was  *)
(* taken away (handleUpdateAdmin, countActiveSuperAdmins).                 *)
THEOREM LastSuperAdminIsKept == Spec => LastSuperAdminStays
<1> DEFINE Kept == ActiveSupers # {} /\ ActiveSupers' = {} =>
                       \E r \in overtaken : req[r].pc = "checked" /\ req'[r].pc = "idle"
<1>1. Init => SuperInv
  BY InitRequestInv DEF SuperInv, CheckHolds, Init, IdleRequest
<1>2. SuperInv /\ [Next]_vars => [Kept]_vars
  <2> SUFFICES ASSUME SuperInv, [Next]_vars, ActiveSupers # {}, ActiveSupers' = {}
               PROVE  \E r \in overtaken : req[r].pc = "checked" /\ req'[r].pc = "idle"
    OBVIOUS
  <2>1. PICK a \in ActiveSupers : TRUE
    OBVIOUS
  <2>2. PICK r \in Requests : UpdateAdmin(r)
    BY <2>1, OnlyUpdatesTakeAway
  <2> DEFINE q == req[r]
  <2>3. req[r].pc = "checked" /\ req'[r].pc = "idle"
    BY <2>2, AnswerEffect DEF UpdateAdmin, Committed, SuperInv, RequestInv, TypeOK
  <2>4. RequestInv /\ CheckHolds(r)
    BY DEF SuperInv
  <2>5. /\ q.target \in Admins
        /\ \A b \in Admins \ {q.target} : admin'[b] = admin[b]
        /\ admin'[q.target].role = IF NewRole(q) # q.seen.role THEN NewRole(q)
                                   ELSE admin[q.target].role
        /\ admin'[q.target].enabled = IF q.payload.disabled = "yes" THEN FALSE
                                      ELSE IF q.payload.disabled = "no"
                                           THEN TRUE ELSE admin[q.target].enabled
    BY <2>2, <2>4, UpdateEffect
  <2>6. ActiveSupers = {q.target}
    BY <2>1, <2>5 DEF ActiveSupers
  <2>7. admin[q.target].role = "super_admin" /\ admin[q.target].enabled
    BY <2>6 DEF ActiveSupers
  <2>8. ~(admin'[q.target].role = "super_admin" /\ admin'[q.target].enabled)
    BY <2>5 DEF ActiveSupers
  <2>9. ASSUME r \notin overtaken PROVE FALSE
    <3>1. admin[q.target] = q.seen
      BY <2>3, <2>4, <2>9 DEF CheckHolds
    <3>2. admin'[q.target].role = NewRole(q)
      BY <2>5, <3>1
    <3>3. Demotes(q) \/ Disables(q)
      <4>1. CASE NewRole(q) # "super_admin"
        BY <2>7, <3>1, <4>1 DEF Demotes
      <4>2. CASE NewRole(q) = "super_admin"
        <5>1. ~admin'[q.target].enabled
          BY <2>8, <3>2, <4>2
        <5>2. q.payload.disabled = "yes"
          BY <2>5, <2>7, <5>1
        <5>3. QED BY <2>7, <3>1, <5>2 DEF Disables
      <4>3. QED BY <4>1, <4>2
    <3>4. Cardinality(ActiveSupers) > 1
      BY <2>3, <2>4, <2>9, <3>3 DEF CheckHolds
    <3>5. Cardinality({q.target}) = 1
      BY FS_Singleton
    <3>6. QED BY <2>6, <3>4, <3>5
  <2>10. QED BY <2>3, <2>9
<1>3. QED BY <1>1, <1>2, SuperStep, PTL DEF Spec, LastSuperAdminStays
=============================================================================
