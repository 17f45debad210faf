----------------------------- MODULE LoginLimit -----------------------------
(***************************************************************************)
(* apigo/ratelimit.go: the fixed window of login attempts of one address.  *)
(* Incr and Expire are two calls to Redis, and either may fail.            *)
(***************************************************************************)
EXTENDS Naturals

CONSTANTS
    Clients,        \* login requests that may be under way at once
    Limit           \* attempts per window

ASSUME LimitAssumption == Limit \in Nat \ {0}

VARIABLES
    count,      \* the counter in Redis, 0 when there is none
    expires,    \* has the counter a time to live?
    client,     \* how far each login request has got
    expireLost  \* has a first attempt ended without its Expire?

limitVars == <<count, expires, client, expireLost>>

LimitTypeOK == /\ count \in 0 .. Limit + 1
               /\ expires \in BOOLEAN
               /\ expireLost \in BOOLEAN
               /\ client \in [Clients -> {"idle", "first", "admitted"}]

LimitInit == /\ count = 0
             /\ expires = FALSE
             /\ expireLost = FALSE
             /\ client = [k \in Clients |-> "idle"]

\* Redis counts on; above the limit the exact number does not matter. The n
\* that Incr answers decides: the first attempt sets the expiry, and one over
\* the limit is refused.
IncrWithExpiryAt(k, n) ==
    /\ client[k] = "idle"
    /\ count' = IF count > Limit THEN count ELSE count + 1
    /\ client' = [client EXCEPT ![k] = IF count + 1 = n THEN "first"
                                       ELSE IF count + 1 > Limit THEN "idle" ELSE "admitted"]
    /\ UNCHANGED <<expires, expireLost>>

\* (mutant) the second attempt sets the expiry
IncrLate(k) == IncrWithExpiryAt(k, 2)

Incr(k) == IncrWithExpiryAt(k, 1)

\* An error of Incr lets the request pass.
IncrFails(k) == /\ client[k] = "idle"
                /\ client' = [client EXCEPT ![k] = "admitted"]
                /\ UNCHANGED <<count, expires, expireLost>>

Expire(k) == /\ client[k] = "first"
             /\ expires' = (count > 0)
             /\ client' = [client EXCEPT ![k] = "admitted"]
             /\ UNCHANGED <<count, expireLost>>

\* The call fails and nobody looks, or the process ends before it.
ExpireFails(k) == /\ client[k] = "first"
                  /\ expireLost' = TRUE
                  /\ \E next \in {"admitted", "idle"} : client' = [client EXCEPT ![k] = next]
                  /\ UNCHANGED <<count, expires>>

WindowEnds == /\ expires
              /\ count' = 0
              /\ expires' = FALSE
              /\ UNCHANGED <<client, expireLost>>

LimitNext == \/ \E k \in Clients : Incr(k) \/ IncrFails(k) \/ Expire(k) \/ ExpireFails(k)
             \/ WindowEnds
=============================================================================
