------------------------------ MODULE Watchdog ------------------------------
(***************************************************************************)
(* The userbot's watchdog (userbot/main.py): it probes the connection to   *)
(* Telegram at growing intervals, answers the health check from what it    *)
(* found, and alerts the editors when that changes. A unit of time is      *)
(* _WATCHDOG_INTERVAL_SECONDS.                                             *)
(***************************************************************************)
EXTENDS Naturals

CONSTANTS
    Horizon,    \* bound of the ages that are told apart
    LongestFill,    \* bound of the time the boot takes for its backfills
    Faults      \* which of {"stop", "enqueue"} may happen: the process is
                \* stopped, or Redis refuses an alert

ASSUME WatchdogAssumption == {Horizon, LongestFill} \subseteq Nat /\ Faults \subseteq {"stop", "enqueue"}

Stale == 3      \* _WATCHDOG_STALE_SECONDS
MaxBackoff == 10
MaxExponent == 4

VARIABLES
    link,       \* what Telegram would say to a probe
    running,    \* is there a process that has come through its start?
    connected, authorized,      \* _mtproto_connected, _mtproto_authorized
    age,        \* since _mtproto_last_ok
    failures,   \* _mtproto_failure_count, as far as the backoff tells it apart
    left,       \* until the next probe
    was,        \* was_healthy: "unknown" in the first cycle
    told,       \* history: the last alert of this process,
    lost,       \* whether one of them was refused,
    firstBad,   \* whether its first cycle found it unhealthy,
    lasted      \* and for how long link has been good or bad under it

vars == <<link, running, connected, authorized, age, failures, left, was,
          told, lost, firstBad, lasted>>

\* get_me answers; no connection; no authorization; a call raises, which may be
\* flood control; the session is revoked or the account banned.
Links == {"good", "disconnected", "unauthorized", "raising", "fatal"}
Alerts == {"none", "unhealthy", "recovered", "terminated"}

Capped(n) == IF n > Horizon THEN Horizon ELSE n

TypeOK == /\ link \in Links
          /\ {running, connected, authorized, lost, firstBad} \subseteq BOOLEAN
          /\ age \in 0 .. Horizon /\ lasted \in 0 .. Horizon
          /\ failures \in 0 .. MaxExponent + 1
          /\ left \in 0 .. MaxBackoff + LongestFill
          /\ was \in {"unknown", "healthy", "unhealthy"}
          /\ told \in Alerts

\* What a start leaves behind: client.start and get_me have just succeeded. The
\* watchdog runs from the end of the backfills on, the health check at once.
Fresh == /\ connected' = TRUE /\ authorized' = TRUE /\ age' = 0
         /\ failures' = 0 /\ left' \in 1 .. 1 + LongestFill /\ was' = "unknown"
         /\ told' = "none" /\ lost' = FALSE /\ firstBad' = FALSE /\ lasted' = 0

Init == /\ link = "good" /\ running = FALSE
        /\ connected = FALSE /\ authorized = FALSE /\ age = Horizon
        /\ failures = 0 /\ left = 0 /\ was = "unknown"
        /\ told = "none" /\ lost = FALSE /\ firstBad = FALSE /\ lasted = 0

\* Docker starts the process again and again; without a session it ends at once.
Start == /\ ~running /\ link = "good"
         /\ running' = TRUE
         /\ Fresh
         /\ UNCHANGED link

Stop == /\ "stop" \in Faults
        /\ running
        /\ running' = FALSE
        /\ UNCHANGED <<link, connected, authorized, age, failures, left, was, told, lost,
                       firstBad, lasted>>

LinkChanges == /\ link' \in Links \ {link}
               /\ lasted' = IF "good" \in {link, link'} THEN 0 ELSE lasted
               /\ UNCHANGED <<running, connected, authorized, age, failures, left, was, told,
                              lost, firstBad>>

\* Time passes while the watchdog sleeps.
Tick == /\ running /\ left > 0
        /\ left' = left - 1
        /\ age' = Capped(age + 1)
        /\ lasted' = Capped(lasted + 1)
        /\ UNCHANGED <<link, running, connected, authorized, failures, was, told, lost, firstBad>>

\* (mutant) the first failure doubles the interval already
BackoffEarly(n) == IF n = 0 THEN 1
                   ELSE LET b == 2 ^ (IF n > MaxExponent THEN MaxExponent ELSE n)
                        IN IF b > MaxBackoff THEN MaxBackoff ELSE b

\* (mutant) the cap is forgotten
BackoffUncapped(n) == IF n = 0 THEN 1
                      ELSE 2 ^ (IF n - 1 > MaxExponent THEN MaxExponent ELSE n - 1)

Backoff(n) == IF n = 0 THEN 1
              ELSE LET b == 2 ^ (IF n - 1 > MaxExponent THEN MaxExponent ELSE n - 1)
                   IN IF b > MaxBackoff THEN MaxBackoff ELSE b

\* _is_mtproto_healthy
Healthy == connected /\ authorized /\ age <= Stale

\* The probe itself. A call that raises may be the first one, before the
\* authorization is known, or get_me after it.
ProbeResult ==
    /\ connected' = (link # "disconnected")
    /\ authorized' \in CASE link = "good" -> {TRUE}
                         [] link = "unauthorized" -> {FALSE}
                         [] link = "disconnected" -> {authorized}
                         [] OTHER -> {authorized, TRUE}
    /\ age' = IF link = "good" THEN 0 ELSE age
    /\ failures' = IF link = "good" THEN 0
                   ELSE IF failures > MaxExponent THEN failures ELSE failures + 1

\* enqueue_alert, whose exceptions are logged.
Alert(a) == \/ told' = a /\ UNCHANGED lost
            \/ "enqueue" \in Faults /\ lost' = TRUE /\ UNCHANGED told

\* (mutant) the state is kept when an alert is due and cannot be sent
EdgeUntilSent == LET now == IF Healthy' THEN "healthy" ELSE "unhealthy" IN
    /\ firstBad' = (firstBad \/ (was = "unknown" /\ now = "unhealthy"))
    /\ IF was = "unknown" \/ was = now THEN was' = now /\ UNCHANGED <<told, lost>>
       ELSE /\ Alert(IF now = "healthy" THEN "recovered" ELSE "unhealthy")
            /\ was' = was

Edge == LET now == IF Healthy' THEN "healthy" ELSE "unhealthy" IN
    /\ was' = now
    /\ firstBad' = (firstBad \/ (was = "unknown" /\ now = "unhealthy"))
    /\ IF was = "unknown" \/ was = now THEN UNCHANGED <<told, lost>>
       ELSE Alert(IF now = "healthy" THEN "recovered" ELSE "unhealthy")

Probe == /\ running /\ left = 0 /\ link # "fatal"
         /\ ProbeResult
         /\ Edge
         /\ left' = Backoff(failures')
         /\ UNCHANGED <<link, running, lasted>>

\* The watchdog says so and sets the stop event.
ProbeFatal == /\ running /\ left = 0 /\ link = "fatal"
              /\ Alert("terminated")
              /\ running' = FALSE
              /\ UNCHANGED <<link, connected, authorized, age, failures, left, was,
                             firstBad, lasted>>

Next == Start \/ Stop \/ LinkChanges \/ Tick \/ Probe \/ ProbeFatal

Spec == Init /\ [][Next]_vars
-----------------------------------------------------------------------------
\* A moment at which the watchdog is not in the middle of waking up.
Asleep == running /\ left > 0

(* The last alert says what the watchdog knows, unless it found the session *)
(* unhealthy in its first cycle or an alert was refused (_watchdog).        *)
EditorsAreTold ==
    Asleep /\ ~lost /\ ~firstBad =>
        /\ was = "unhealthy" => told = "unhealthy"
        /\ was = "healthy" => told \in {"none", "recovered"}

(* A session that has been bad for four intervals is known to be: neither  *)
(* the watchdog nor the health check says otherwise, although the probes   *)
(* have become rarer by then (_is_mtproto_healthy, backoff).               *)
BadIsNoticed == Asleep /\ link # "good" /\ lasted > 4 => was # "healthy" /\ ~Healthy

(* A session that has been good for the longest backoff is known to be, once *)
(* the watchdog has probed it at all: before that, backfills that take long  *)
(* let the health check call a good session stale (run, _watchdog).          *)
GoodIsNoticed == Asleep /\ was # "unknown" /\ link = "good" /\ lasted > MaxBackoff
                     => was = "healthy" /\ Healthy
=============================================================================
