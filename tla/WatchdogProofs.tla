--------------------------- MODULE WatchdogProofs ---------------------------
(***************************************************************************)
(* Theorems about Watchdog, for any bound of the ages, any time that the   *)
(* backfills of a start may take and any choice of faults.                 *)
(***************************************************************************)
EXTENDS Watchdog, TLAPS

Flags == /\ running \in BOOLEAN /\ connected \in BOOLEAN /\ authorized \in BOOLEAN
         /\ lost \in BOOLEAN /\ firstBad \in BOOLEAN

Clocks == /\ link \in Links
          /\ age \in 0 .. Horizon /\ lasted \in 0 .. Horizon
          /\ failures \in 0 .. MaxExponent + 1
          /\ left \in 0 .. MaxBackoff + LongestFill
          /\ was \in {"unknown", "healthy", "unhealthy"}
          /\ told \in Alerts

LEMMA TypeParts == TypeOK <=> Flags /\ Clocks
<1>1. {running, connected, authorized, lost, firstBad} \subseteq BOOLEAN <=> Flags
  BY Zenon DEF Flags
<1>2. QED BY <1>1 DEF TypeOK, Clocks

LEMMA Bounds == Horizon \in Nat /\ LongestFill \in Nat
  BY WatchdogAssumption

\* The interval after the n-th failure in a row.
LEMMA Backoffs ==
    /\ Backoff(0) = 1 /\ Backoff(1) = 1 /\ Backoff(2) = 2
    /\ \A n \in 0 .. MaxExponent + 1 : Backoff(n) \in 1 .. MaxBackoff
<1>1. /\ Backoff(0) = 1 /\ Backoff(1) = 1 /\ Backoff(2) = 2 /\ Backoff(3) = 4
      /\ Backoff(4) = 8 /\ Backoff(5) = 10
  BY 2 ^ 0 = 1, 2 ^ 1 = 2, 2 ^ 2 = 4, 2 ^ 3 = 8, 2 ^ 4 = 16 DEF Backoff, MaxBackoff, MaxExponent
<1>2. ASSUME NEW n \in 0 .. 5 PROVE Backoff(n) \in 1 .. 10
  <2>1. n = 0 \/ n = 1 \/ n = 2 \/ n = 3 \/ n = 4 \/ n = 5
    BY <1>2
  <2>2. QED BY <1>1, <2>1
<1>3. QED BY <1>1, <1>2 DEF MaxBackoff, MaxExponent

\* What a probe leaves, whatever it found.
LEMMA ProbeEffect ==
    ASSUME Clocks, Probe
    PROVE  /\ running /\ left = 0 /\ UNCHANGED <<link, running, lasted>>
           /\ link = "good" => age' = 0 /\ failures' = 0 /\ left' = 1 /\ connected' /\ authorized'
           /\ link # "good" => /\ age' = age
                               /\ failures' = IF failures > MaxExponent THEN failures ELSE failures + 1
           /\ failures' \in 0 .. MaxExponent + 1 /\ left' \in 1 .. MaxBackoff
           /\ left' = Backoff(failures')
           /\ was' = IF Healthy' THEN "healthy" ELSE "unhealthy"
<1>1. failures' \in 0 .. MaxExponent + 1
  BY DEF Clocks, Probe, ProbeResult, MaxExponent
<1>2. left' = Backoff(failures') /\ left' \in 1 .. MaxBackoff
  BY <1>1, Backoffs DEF Probe
<1>3. ASSUME link = "good" PROVE age' = 0 /\ failures' = 0 /\ left' = 1 /\ connected' /\ authorized'
  BY <1>2, <1>3, Backoffs DEF Probe, ProbeResult
<1>4. was' = IF Healthy' THEN "healthy" ELSE "unhealthy"
  BY DEF Probe, Edge
<1>5. QED BY <1>1, <1>2, <1>3, <1>4 DEF Probe, ProbeResult

-----------------------------------------------------------------------------
LEMMA InitTypes == Init => TypeOK
<1> SUFFICES ASSUME Init PROVE TypeOK
  OBVIOUS
<1>1. Flags
  BY Zenon DEF Init, Flags
<1>2. Clocks
  BY Bounds DEF Init, Clocks, Links, Alerts, MaxExponent, MaxBackoff
<1>3. QED BY <1>1, <1>2, TypeParts

LEMMA StepFlags == Flags /\ Next => Flags'
<1> SUFFICES ASSUME Flags, Next PROVE Flags'
  OBVIOUS
<1>1. CASE Start
  BY <1>1, Zenon DEF Start, Fresh, Flags
<1>2. CASE Stop \/ LinkChanges \/ Tick
  BY <1>2, Zenon DEF Stop, LinkChanges, Tick, Flags
<1>3. ASSUME NEW a, Alert(a) PROVE lost' \in BOOLEAN
  BY <1>3, Zenon DEF Alert, Flags
<1>4. CASE Probe
  <2>1. running' \in BOOLEAN
    BY <1>4, Zenon DEF Probe, Flags
  <2>2. connected' \in BOOLEAN
    BY <1>4 DEF Probe, ProbeResult
  <2>3. authorized' \in BOOLEAN
    <3>1. authorized' \in {TRUE} \/ authorized' \in {FALSE} \/ authorized' \in {authorized}
            \/ authorized' \in {authorized, TRUE}
      BY <1>4 DEF Probe, ProbeResult
    <3>2. QED BY <3>1, Zenon DEF Flags
  <2>4. lost' \in BOOLEAN
    <3>1. UNCHANGED lost \/ Alert("recovered") \/ Alert("unhealthy")
      BY <1>4 DEF Probe, Edge
    <3>2. QED BY <1>3, <3>1, Zenon DEF Flags
  <2>5. firstBad' \in BOOLEAN
    BY <1>4 DEF Probe, Edge
  <2>6. QED BY <2>1, <2>2, <2>3, <2>4, <2>5 DEF Flags
<1>5. CASE ProbeFatal
  <2>1. lost' \in BOOLEAN
    BY <1>3, <1>5 DEF ProbeFatal
  <2>2. QED BY <1>5, <2>1, Zenon DEF ProbeFatal, Flags
<1>6. QED BY <1>1, <1>2, <1>4, <1>5 DEF Next

LEMMA StepClocks == Clocks /\ Next => Clocks'
<1> SUFFICES ASSUME Clocks, Next PROVE Clocks'
  OBVIOUS
<1>1. CASE Start
  BY <1>1, Bounds DEF Start, Fresh, Clocks, Alerts, MaxExponent, MaxBackoff
<1>2. CASE Stop
  BY <1>2 DEF Stop, Clocks
<1>3. CASE LinkChanges
  BY <1>3, Bounds DEF LinkChanges, Clocks
<1>4. CASE Tick
  BY <1>4, Bounds DEF Tick, Capped, Clocks, MaxBackoff
<1>5. ASSUME NEW a \in Alerts, Alert(a) PROVE told' \in Alerts
  BY <1>5 DEF Alert, Clocks
<1>6. CASE Probe
  <2>1. /\ age' \in 0 .. Horizon /\ failures' \in 0 .. MaxExponent + 1
        /\ left' \in 0 .. MaxBackoff + LongestFill /\ was' \in {"unknown", "healthy", "unhealthy"}
        /\ UNCHANGED <<link, lasted>>
    BY <1>6, ProbeEffect, Bounds DEF Clocks, MaxBackoff
  <2>2. UNCHANGED told \/ Alert("recovered") \/ Alert("unhealthy")
    BY <1>6 DEF Probe, Edge
  <2>3. told' \in Alerts
    BY <1>5, <2>2 DEF Clocks, Alerts
  <2>4. QED BY <2>1, <2>3 DEF Clocks
<1>7. CASE ProbeFatal
  <2>1. told' \in Alerts
    BY <1>5, <1>7 DEF ProbeFatal, Alerts
  <2>2. QED BY <1>7, <2>1 DEF ProbeFatal, Clocks
<1>8. QED BY <1>1, <1>2, <1>3, <1>4, <1>6, <1>7 DEF Next

LEMMA NextTypes == TypeOK /\ [Next]_vars => TypeOK'
<1>1. ASSUME TypeOK, UNCHANGED vars PROVE TypeOK'
  BY <1>1, Zenon DEF vars, TypeOK
<1>2. TypeOK' <=> (Flags /\ Clocks)'
  BY TypeParts, PTL
<1>3. QED BY <1>1, <1>2, TypeParts, StepFlags, StepClocks

(* Every clock stays within its bound: no backoff exceeds the longest one, *)
(* whatever the number of failures (backoff).                              *)
THEOREM WatchdogTypes == Spec => []TypeOK
  BY InitTypes, NextTypes, PTL DEF Spec

-----------------------------------------------------------------------------
(* What the editors were told.                                             *)

TellsInv ==
    running /\ ~lost /\ ~firstBad =>
        /\ was = "unknown" => told = "none"
        /\ was = "unhealthy" => told = "unhealthy"
        /\ was = "healthy" => told \in {"none", "recovered"}

LEMMA NextTells == Clocks /\ TellsInv /\ [Next]_vars => TellsInv'
<1> SUFFICES ASSUME Clocks, TellsInv, [Next]_vars PROVE TellsInv'
  OBVIOUS
<1>1. CASE Start \/ Stop \/ ProbeFatal
  BY <1>1 DEF Start, Fresh, Stop, ProbeFatal, TellsInv
<1>2. CASE LinkChanges \/ Tick \/ UNCHANGED vars
  BY <1>2 DEF LinkChanges, Tick, vars, TellsInv
<1>3. CASE Probe
  <2>1. running /\ UNCHANGED running /\ Edge
    BY <1>3 DEF Probe
  <2>2. ASSUME ~lost', ~firstBad' PROVE ~lost /\ ~firstBad /\ ~(was = "unknown" /\ was' = "unhealthy")
    BY <2>1, <2>2 DEF Edge, Alert
  <2>3. CASE was = "unknown" \/ was = was'
    BY <2>1, <2>2, <2>3 DEF Edge, TellsInv, Clocks
  <2>4. CASE was # "unknown" /\ was # was'
    <3>1. Alert(IF was' = "healthy" THEN "recovered" ELSE "unhealthy")
      BY <2>1, <2>4 DEF Edge
    <3>2. was' \in {"healthy", "unhealthy"}
      BY <2>1 DEF Edge
    <3>3. QED BY <3>1, <3>2 DEF Alert, TellsInv
  <2>5. QED BY <2>3, <2>4
<1>4. QED BY <1>1, <1>2, <1>3 DEF Next

(* What the editors were last told is what the watchdog last found, unless *)
(* an alert was refused or the first cycle found the session unhealthy     *)
(* (_watchdog).                                                            *)
THEOREM TheEditorsAreTold == Spec => []EditorsAreTold
<1>1. Init => TellsInv
  BY DEF Init, TellsInv
<1>2. TypeOK => Clocks
  BY TypeParts
<1>3. TellsInv => EditorsAreTold
  BY DEF TellsInv, EditorsAreTold, Asleep
<1>4. QED BY <1>1, <1>2, <1>3, NextTells, WatchdogTypes, PTL DEF Spec

-----------------------------------------------------------------------------
(* What the watchdog notices.                                              *)

\* The age at which the probe after the n-th failure in a row comes, at least.
SoonestProbe(n) == CASE n = 0 -> 1 [] n = 1 -> 2 [] OTHER -> 4

(* While Telegram does not answer, the age grows with the time it has not. *)
(* The next probe comes at an age no less than the backoffs before it took *)
(* and, as the second failure already waits for the stale age, one that    *)
(* found the session healthy is followed by another after five intervals.  *)
BadInv ==
    /\ link # "good" => lasted <= age
    /\ running /\ Horizon >= 5 =>
          /\ SoonestProbe(failures) <= age + left
          /\ was = "healthy" => age + left <= 5

LEMMA NextBad == Clocks /\ BadInv /\ [Next]_vars => BadInv'
<1> SUFFICES ASSUME Clocks, BadInv, [Next]_vars PROVE BadInv'
  OBVIOUS
<1>1. /\ age \in Nat /\ lasted \in Nat /\ left \in Nat /\ failures \in 0 .. 5 /\ Horizon \in Nat
      /\ age <= Horizon /\ lasted <= Horizon
  BY Bounds DEF Clocks, MaxExponent, MaxBackoff
<1>2. CASE Start
  BY <1>2, Bounds DEF Start, Fresh, BadInv, SoonestProbe
<1>3. CASE Stop \/ ProbeFatal \/ UNCHANGED vars
  BY <1>3 DEF Stop, ProbeFatal, vars, BadInv
<1>4. CASE LinkChanges
  BY <1>1, <1>4 DEF LinkChanges, BadInv
<1>5. CASE Tick
  <2>1. SoonestProbe(failures) \in 1 .. 4
    BY DEF SoonestProbe
  <2>2. SoonestProbe(failures)' = SoonestProbe(failures)
    BY <1>5 DEF Tick, SoonestProbe
  <2>3. QED BY <1>1, <1>5, <2>1, <2>2 DEF Tick, Capped, BadInv
<1>6. CASE Probe
  <2>1. CASE link = "good"
    BY <1>6, <2>1, ProbeEffect DEF BadInv, SoonestProbe
  <2>2. CASE link # "good"
    <3>1. /\ running /\ left = 0 /\ age' = age /\ UNCHANGED <<link, running, lasted>>
          /\ failures' = IF failures > 4 THEN failures ELSE failures + 1
          /\ failures' \in 0 .. 5 /\ left' = Backoff(failures') /\ left' \in 1 .. 10
          /\ was' = "healthy" => age <= 3
      BY <1>6, <2>2, ProbeEffect DEF MaxExponent, MaxBackoff, Healthy, Stale
    <3>2. CASE failures = 0
      <4>1. failures' = 1 /\ left' = 1
        BY <3>1, <3>2, Backoffs
      <4>2. QED BY <1>1, <3>1, <3>2, <4>1 DEF BadInv, SoonestProbe
    <3>3. CASE failures = 1
      <4>1. failures' = 2 /\ left' = 2
        BY <3>1, <3>3, Backoffs
      <4>2. QED BY <1>1, <3>1, <3>3, <4>1 DEF BadInv, SoonestProbe
    <3>4. CASE failures > 1
      <4>1. SoonestProbe(failures) = 4 /\ SoonestProbe(failures') = 4
        BY <1>1, <3>1, <3>4 DEF SoonestProbe
      <4>2. Horizon >= 5 => age >= 4
        BY <1>1, <3>1, <4>1 DEF BadInv
      <4>3. SoonestProbe(failures)' = 4
        BY <4>1 DEF SoonestProbe
      <4>4. QED BY <1>1, <3>1, <4>2, <4>3 DEF BadInv
    <3>5. QED BY <1>1, <3>2, <3>3, <3>4
  <2>3. QED BY <2>1, <2>2
<1>7. QED BY <1>2, <1>3, <1>4, <1>5, <1>6 DEF Next

(* A session that has been bad for more than four intervals is known to    *)
(* be, both to the watchdog and to the health check, whatever becomes rarer *)
(* by then (_is_mtproto_healthy, backoff).                                 *)
THEOREM TheBadIsNoticed == Spec => []BadIsNoticed
<1>1. Init => BadInv
  BY DEF Init, BadInv
<1>2. TypeOK => Clocks
  BY TypeParts
<1>3. Clocks /\ BadInv => BadIsNoticed
  BY Bounds DEF Clocks, BadInv, BadIsNoticed, Asleep, Healthy, Stale, MaxBackoff
<1>4. QED BY <1>1, <1>2, <1>3, NextBad, WatchdogTypes, PTL DEF Spec

(* Of a process that has probed: the next probe is no further away than    *)
(* the longest backoff; and since Telegram answers again it has either not *)
(* been due, or has found the session healthy.                             *)
GoodInv ==
    running /\ was # "unknown" =>
        /\ left <= MaxBackoff
        /\ link = "good" => \/ lasted + left <= MaxBackoff
                            \/ was = "healthy" /\ connected /\ authorized /\ age + left <= 1

LEMMA NextGood == Clocks /\ GoodInv /\ [Next]_vars => GoodInv'
<1> SUFFICES ASSUME Clocks, GoodInv, [Next]_vars PROVE GoodInv'
  OBVIOUS
<1>1. /\ age \in Nat /\ lasted \in Nat /\ left \in Nat /\ Horizon \in Nat
      /\ age <= Horizon /\ lasted <= Horizon
  BY Bounds DEF Clocks, MaxBackoff
<1>2. CASE Start \/ Stop \/ ProbeFatal \/ UNCHANGED vars
  BY <1>2 DEF Start, Fresh, Stop, ProbeFatal, vars, GoodInv
<1>3. CASE LinkChanges
  BY <1>1, <1>3 DEF LinkChanges, GoodInv, MaxBackoff
<1>4. CASE Tick
  BY <1>1, <1>4 DEF Tick, Capped, GoodInv, MaxBackoff
<1>5. CASE Probe
  <2>1. left' \in 1 .. MaxBackoff /\ UNCHANGED <<link, lasted>>
    BY <1>5, ProbeEffect
  <2>2. CASE link = "good"
    <3>1. age' = 0 /\ left' = 1 /\ connected' /\ authorized'
      BY <1>5, <2>2, ProbeEffect
    <3>2. was' = "healthy"
      BY <1>5, <3>1, ProbeEffect DEF Healthy, Stale
    <3>3. QED BY <2>1, <3>1, <3>2 DEF GoodInv, MaxBackoff
  <2>3. CASE link # "good"
    BY <2>1, <2>3 DEF GoodInv, MaxBackoff
  <2>4. QED BY <2>2, <2>3
<1>6. QED BY <1>2, <1>3, <1>4, <1>5 DEF Next

(* A session that has been good for longer than the longest backoff is     *)
(* known to be, once it has been probed at all (run, _watchdog).           *)
THEOREM TheGoodIsNoticed == Spec => []GoodIsNoticed
<1>1. Init => GoodInv
  BY DEF Init, GoodInv
<1>2. TypeOK => Clocks
  BY TypeParts
<1>3. Clocks /\ GoodInv => GoodIsNoticed
  BY Bounds DEF Clocks, GoodInv, GoodIsNoticed, Asleep, Healthy, Stale, MaxBackoff
<1>4. QED BY <1>1, <1>2, <1>3, NextGood, WatchdogTypes, PTL DEF Spec
=============================================================================
