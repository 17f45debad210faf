---------------------------- MODULE IntakeProofs ----------------------------
(***************************************************************************)
(* What Intake promises, for every number of channels, messages and tasks: *)
(* no message is passed over without a reason, and a boot that found all   *)
(* orphans leaves none without a normalize job.                            *)
(***************************************************************************)
EXTENDS Intake, FiniteSetTheorems, WellFoundedInduction, TLAPS

(* A set of message ids that is not empty has a newest one: of what is     *)
(* newer than each id, something is smallest, and it has to be empty.      *)
LEMMA NewestId ==
    ASSUME NEW n \in Nat, NEW ids \in SUBSET (1 .. n), ids # {}
    PROVE  \E m \in ids : \A k \in ids : k <= m
<1> DEFINE Newer(m) == {k \in ids : k > m}
           All == {Newer(m) : m \in ids}
           Order == StrictSubsetOrdering(ids)
<1>1. IsFiniteSet(ids)
  <2>1. IsFiniteSet(1 .. n)
    BY FS_Interval
  <2>2. QED BY <2>1, FS_Subset
<1>2. \A m \in ids : Newer(m) \in SUBSET ids /\ IsFiniteSet(Newer(m))
  <2>1. ASSUME NEW m \in ids PROVE Newer(m) \in SUBSET ids /\ IsFiniteSet(Newer(m))
    <3>1. Newer(m) \in SUBSET ids
      OBVIOUS
    <3> HIDE DEF Newer
    <3>2. QED BY <1>1, <3>1, FS_Subset
  <2>2. QED BY <2>1
<1>3. All \subseteq FiniteSubsetsOf(ids) /\ All # {}
  BY <1>2 DEF FiniteSubsetsOf
<1>4. \E s \in All : \A t \in All : <<t, s>> \notin Order
  <2> HIDE DEF All, Order
  <2>1. IsWellFoundedOn(Order, FiniteSubsetsOf(ids))
    BY FS_StrictSubsetOrderingWellFounded DEF Order
  <2>2. QED BY <1>3, <2>1, WFMin
<1>5. PICK m \in ids : \A k \in ids : <<Newer(k), Newer(m)>> \notin Order
  BY <1>4
<1>6. ASSUME NEW k \in ids, k > m PROVE FALSE
  <2>1. Newer(k) \subseteq Newer(m) /\ k \in Newer(m) /\ k \notin Newer(k)
    <3>1. m \in Int /\ \A j \in ids : j \in Int
      OBVIOUS
    <3>2. \A j \in ids : j > k => j > m
      BY <1>6, <3>1
    <3>3. ~(k > k)
      BY <3>1
    <3>4. QED BY <1>6, <3>2, <3>3
  <2>2. Newer(k) \subseteq ids /\ Newer(m) \subseteq ids
    OBVIOUS
  <2>3. <<Newer(k), Newer(m)>> \in Order
    <3>1. ASSUME NEW a, NEW b, a \subseteq b, b \subseteq ids, k \in b, k \notin a
          PROVE  <<a, b>> \in StrictSubsetOrdering(ids)
      BY <3>1 DEF StrictSubsetOrdering
    <3> HIDE DEF Newer
    <3>2. QED BY <2>1, <2>2, <3>1
  <2>4. QED BY <1>5, <2>3
<1>7. \A k \in ids : k <= m
  BY <1>6
<1>8. QED BY <1>7

LEMMA LastIdIs ==
    ASSUME NEW c \in Channels
    PROVE  /\ LastId(c) \in 0 .. MaxMessage
           /\ LastId(c) # 0 => LastId(c) \in Ids /\ Stored(<<c, LastId(c)>>)
           /\ \A m \in Ids : Stored(<<c, m>>) => m <= LastId(c)
<1> DEFINE ids == {m \in Ids : Stored(<<c, m>>)}
<1>1. MaxMessage \in Nat /\ ids \in SUBSET (1 .. MaxMessage)
  BY IntakeAssumption DEF Ids
<1>2. CASE ids = {}
  <2>1. LastId(c) = 0
    BY <1>2 DEF LastId
  <2>2. QED BY <1>1, <1>2, <2>1
<1>3. CASE ids # {}
  <2>1. LastId(c) = CHOOSE m \in ids : \A n \in ids : n <= m
    BY <1>3 DEF LastId
  <2>2. \E m \in ids : \A n \in ids : n <= m
    BY <1>1, <1>3, NewestId
  <2>3. LastId(c) \in ids /\ \A n \in ids : n <= LastId(c)
    <3> HIDE DEF ids
    <3>1. QED BY <2>1, <2>2
  <2>4. QED BY <1>1, <2>3
<1>4. QED BY <1>2, <1>3

-----------------------------------------------------------------------------
(* Types.                                                                  *)

Fill == [channel : Channels \cup {NoChannel}, at : 0 .. MaxMessage,
         left : 0 .. FillLimit, upTo : 0 .. MaxMessage]

LEMMA BoundsAreNat == MaxMessage \in Nat /\ FillLimit \in Nat /\ Ids = 1 .. MaxMessage
  BY IntakeAssumption DEF Ids

LEMMA NoFillType == NoFill \in Fill
  BY BoundsAreNat DEF NoFill, Fill

LEMMA MessagePair == \A x : x \in Message <=> \E c \in Channels, m \in Ids : x = <<c, m>>
  BY DEF Message

\* TypeOK but for its last conjunct, with the stored messages as a set.
FieldTypes ==
    /\ posted \in [Channels -> 0 .. MaxMessage]
    /\ row \in [Message -> {"none", "bare", "complete"}]
    /\ enabled \cup map \cup todo \subseteq Channels
    /\ phase \in Phases
    /\ fill \in Fill
    /\ task \in [Message -> Stages]
    /\ heard \cup excused \cup stuck \subseteq Message

OnlyStored == \A x \in queued \cup decided \cup old : x \in Message /\ Stored(x)

DownIsIdle == phase = "down" => map = {} /\ \A x \in Message : At(x, "none")

LEMMA TypeParts == TypeOK <=> FieldTypes /\ OnlyStored /\ DownIsIdle
  BY DEF TypeOK, FieldTypes, OnlyStored, DownIsIdle, Stored, Fill, At

LEMMA GotoTypes ==
    ASSUME FieldTypes, NEW x \in Message, NEW stage \in Stages, Goto(x, stage)
    PROVE  /\ task' \in [Message -> Stages]
           /\ \A y \in Message : At(y, "none")' <=> IF y = x THEN stage = "none" ELSE At(y, "none")
           /\ \A y \in Message : task'[y] = IF y = x THEN stage ELSE task[y]
  BY DEF FieldTypes, Goto, At

LEMMA InitTypes == Init => TypeOK
<1> SUFFICES ASSUME Init PROVE TypeOK
  OBVIOUS
<1>1. FieldTypes
  BY BoundsAreNat, NoFillType DEF Init, FieldTypes, Phases, Stages
<1>2. QED BY <1>1, TypeParts DEF Init, OnlyStored, DownIsIdle, At

LEMMA OutsideTypes ==
    ASSUME FieldTypes, OnlyStored, DownIsIdle,
           \/ \E c \in Channels : Post(c) \/ SetIngestion(c)
           \/ \E x \in Message : DecidePost(x) \/ GrowOld(x)
    PROVE  FieldTypes' /\ OnlyStored' /\ DownIsIdle'
<1>1. ASSUME NEW c \in Channels, Post(c)
      PROVE  FieldTypes' /\ OnlyStored' /\ DownIsIdle'
  <2> DEFINE x == <<c, posted[c] + 1>>
  <2>1. posted[c] \in 0 .. MaxMessage /\ posted[c] < MaxMessage
    BY <1>1 DEF Post, FieldTypes
  <2>2. posted[c] + 1 \in 0 .. MaxMessage /\ x \in Message
    BY <2>1, BoundsAreNat DEF Message
  <2>3. posted' \in [Channels -> 0 .. MaxMessage]
    BY <1>1, <2>2 DEF Post, FieldTypes
  <2>4. task' \in [Message -> Stages] /\ heard' \subseteq Message /\ excused' \subseteq Message
    BY <1>1, <2>2, GotoTypes DEF Post, FieldTypes, Stages
  <2>5. phase = "down" => task' = task
    BY <1>1 DEF Post
  <2>6. FieldTypes'
    BY <1>1, <2>3, <2>4 DEF Post, FieldTypes
  <2>7. QED BY <1>1, <2>5, <2>6 DEF Post, OnlyStored, DownIsIdle, Stored, At
<1>2. ASSUME NEW c \in Channels, SetIngestion(c)
      PROVE  FieldTypes' /\ OnlyStored' /\ DownIsIdle'
  BY <1>2 DEF SetIngestion, FieldTypes, OnlyStored, DownIsIdle, Stored, At
<1>3. ASSUME NEW x \in Message, DecidePost(x) \/ GrowOld(x)
      PROVE  FieldTypes' /\ OnlyStored' /\ DownIsIdle'
  BY <1>3 DEF DecidePost, GrowOld, FieldTypes, OnlyStored, DownIsIdle, Stored, At
<1>4. QED BY <1>1, <1>2, <1>3

(* Only a boot that is filling has a fill under way, and then of a channel. *)
FillInTime == phase # "filling" \/ fill.channel = NoChannel => fill = NoFill

LEMMA BootTypes ==
    ASSUME FieldTypes, OnlyStored, DownIsIdle, FillInTime, Start \/ BootStep \/ Reload \/ Crash
    PROVE  FieldTypes' /\ OnlyStored' /\ DownIsIdle'
<1>1. CASE Start \/ LoadChannels \/ Listen
  BY <1>1 DEF Start, LoadChannels, Listen, rows, FieldTypes, OnlyStored, DownIsIdle,
                Phases, Stored, At
<1>2. CASE Reconcile
  <2>1. Orphans \subseteq old /\ old \subseteq Message
    BY DEF Orphans, OnlyStored
  <2>2. FieldTypes'
    BY <1>2, <2>1 DEF Reconcile, FieldTypes, Phases
  <2>3. QED BY <1>2, <2>1, <2>2 DEF Reconcile, OnlyStored, DownIsIdle, Stored
<1>3. ASSUME NEW c \in Channels, StartFill(c) PROVE FieldTypes' /\ OnlyStored' /\ DownIsIdle'
  <2> DEFINE f == [channel |-> c, at |-> LastId(c), left |-> FillLimit, upTo |-> posted[c]]
  <2>1. f \in Fill
    <3>1. LastId(c) \in 0 .. MaxMessage
      BY LastIdIs
    <3>2. posted[c] \in 0 .. MaxMessage /\ FillLimit \in 0 .. FillLimit
      BY BoundsAreNat DEF FieldTypes
    <3>3. QED BY <3>1, <3>2 DEF Fill
  <2>2. (fill' = f \/ fill' = fill) /\ map' \subseteq Channels /\ todo' \subseteq Channels
    BY <1>3 DEF StartFill, FieldTypes
  <2> HIDE DEF f
  <2>3. FieldTypes'
    BY <1>3, <2>1, <2>2 DEF StartFill, rows, FieldTypes
  <2>4. QED BY <1>3, <2>3 DEF StartFill, rows, OnlyStored, DownIsIdle, Stored
<1>4. CASE FillNext
  <2> DEFINE c == fill.channel
             x == <<c, fill.at + 1>>
             f == [fill EXCEPT !.at = @ + 1, !.left = @ - 1]
  <2>1. c \in Channels /\ fill.at < posted[c] /\ fill.left > 0 /\ fill \in Fill
    BY <1>4 DEF FillNext, Between, FieldTypes, Fill
  <2>2. posted[c] \in 0 .. MaxMessage /\ fill.at \in 0 .. MaxMessage /\ fill.left \in 0 .. FillLimit
    BY <2>1 DEF FieldTypes, Fill
  <2>3. x \in Message
    BY <2>1, <2>2, BoundsAreNat DEF Message
  <2>4. f \in Fill
    <3>1. fill.at + 1 \in 0 .. MaxMessage /\ fill.left - 1 \in 0 .. FillLimit
      BY <2>1, <2>2, BoundsAreNat
    <3>2. QED BY <2>1, <3>1 DEF Fill
  <2>5. fill' = f /\ Goto(x, "insert") /\ phase # "down"
    BY <1>4 DEF FillNext, Between, NoFill, FillInTime
  <2>6. task' \in [Message -> Stages]
    BY <2>3, <2>5, GotoTypes DEF Stages
  <2> HIDE DEF f
  <2>7. FieldTypes'
    BY <1>4, <2>4, <2>5, <2>6 DEF FillNext, rows, FieldTypes
  <2>8. QED BY <1>4, <2>5, <2>7 DEF FillNext, rows, OnlyStored, DownIsIdle, Stored
<1>5. CASE FillEnds
  <2> DEFINE c == fill.channel
             late == {<<c, m>> : m \in fill.at + 1 .. posted[c]}
  <2>1. c \in Channels /\ fill \in Fill
    BY <1>5 DEF FillEnds, Between, FieldTypes, Fill
  <2>2. posted[c] \in 0 .. MaxMessage /\ fill.at \in 0 .. MaxMessage
    BY <2>1 DEF FieldTypes, Fill
  <2>3. \A m \in fill.at + 1 .. posted[c] : m \in Ids
    BY <2>2, BoundsAreNat
  <2>4. late \subseteq Message
    BY <2>1, <2>3 DEF Message
  <2>5. FieldTypes'
    BY <1>5, <2>4, NoFillType DEF FillEnds, rows, FieldTypes
  <2>6. QED BY <1>5, <2>5 DEF FillEnds, rows, OnlyStored, DownIsIdle, Stored, At
<1>6. CASE Reload
  <2>1. map' \subseteq Channels
    BY <1>6 DEF Reload, FieldTypes
  <2>2. \A c \in Channels : Unstored(c) \subseteq Message
    BY BoundsAreNat DEF Unstored, FieldTypes, Message
  <2>3. excused' \subseteq Message
    BY <1>6, <2>1, <2>2 DEF Reload, FieldTypes
  <2>4. FieldTypes'
    BY <1>6, <2>1, <2>3 DEF Reload, rows, FieldTypes
  <2>5. QED BY <1>6, <2>4 DEF Reload, rows, OnlyStored, DownIsIdle, Stored
<1>7. CASE Crash
  <2>1. FieldTypes'
    BY <1>7, NoFillType DEF Crash, rows, FieldTypes, Phases, Stages
  <2>2. QED BY <1>7, <2>1 DEF Crash, rows, OnlyStored, DownIsIdle, Stored, At
<1>8. QED BY <1>1, <1>2, <1>3, <1>4, <1>5, <1>6, <1>7 DEF BootStep

(* A task beyond its insertion has a row.                                  *)
RowsFirst == \A x \in Message : At(x, "download") \/ At(x, "enqueue") => Stored(x)

LEMMA TaskTypes ==
    ASSUME FieldTypes, OnlyStored, DownIsIdle, RowsFirst, NEW x \in Message,
           Ingest(x) \/ FloodWait(x) \/ IngestRaises(x)
    PROVE  FieldTypes' /\ OnlyStored' /\ DownIsIdle' /\ RowsFirst'
<1>1. phase # "down" /\ phase' = phase /\ map' = map
  BY DEF DownIsIdle, Ingest, Insert, Complete, EnqueueNormalize, FloodWait, IngestRaises, rows, At
<1>2. \E stage \in Stages : Goto(x, stage)
  BY DEF Ingest, Insert, Complete, EnqueueNormalize, FloodWait, IngestRaises, Drop, Stages
<1>3. task' \in [Message -> Stages] /\ \A y \in Message \ {x} : task'[y] = task[y]
  BY <1>2, GotoTypes
<1>4. \/ row' = row
      \/ \E r \in {"bare", "complete"} : row' = [row EXCEPT ![x] = r]
  BY DEF Ingest, Insert, Complete, EnqueueNormalize, FloodWait, IngestRaises, rows
<1>5. /\ row' \in [Message -> {"none", "bare", "complete"}]
      /\ \A y \in Message : Stored(y) => Stored(y)'
  BY <1>4 DEF FieldTypes, Stored
<1>6. FieldTypes'
  BY <1>3, <1>5
     DEF FieldTypes, Ingest, Insert, Complete, EnqueueNormalize, FloodWait, IngestRaises, Drop, rows
<1>7. OnlyStored'
  <2>1. queued' \subseteq queued \cup {x} /\ old' = old /\ decided' = decided
    BY DEF Ingest, Insert, Complete, EnqueueNormalize, FloodWait, IngestRaises, rows
  <2>2. x \in queued' => x \in queued \/ Stored(x)
    BY DEF Ingest, Insert, Complete, EnqueueNormalize, FloodWait, IngestRaises, rows, RowsFirst
  <2>3. QED BY <1>5, <2>1, <2>2 DEF OnlyStored
<1>8. RowsFirst'
  <2>1. ASSUME At(x, "download")' \/ At(x, "enqueue")' PROVE Stored(x)'
    <3>1. CASE Insert(x)
      BY <2>1, <3>1, GotoTypes DEF Insert, Drop, Stored, At, FieldTypes, Stages
    <3>2. CASE Complete(x)
      BY <3>2 DEF Complete, Stored, FieldTypes
    <3>3. CASE EnqueueNormalize(x) \/ FloodWait(x) \/ IngestRaises(x)
      <4>1. task'[x] \in {"none", "insert"}
        BY <3>3, GotoTypes DEF EnqueueNormalize, FloodWait, IngestRaises, Drop, Stages
      <4>2. QED BY <2>1, <4>1 DEF At
    <3>4. QED BY <3>1, <3>2, <3>3 DEF Ingest
  <2>2. QED BY <1>3, <1>5, <2>1 DEF RowsFirst, At
<1>9. QED BY <1>1, <1>6, <1>7, <1>8 DEF DownIsIdle

-----------------------------------------------------------------------------
(* Nothing is passed over without a reason.                                *)

\* A message that somebody has seen, and one that nobody has and nobody missed.
Reached(x) == Stored(x) \/ ~At(x, "none")
Waits(x) == x[2] <= posted[x[1]] /\ ~Reached(x) /\ x \notin excused

ReachedIsPosted == \A x \in Message : Reached(x) => x[2] <= posted[x[1]]

(* Channels are mapped by a boot's fills or later; while one is filled the  *)
(* only task is the fill's, for the message it has reached; a task of the   *)
(* live handler is for a message that it heard.                             *)
BootInOrder ==
    /\ FillInTime
    /\ phase \notin {"filling", "listening"} => map = {}
    /\ \A x \in Message : ~At(x, "none") =>
           IF phase = "listening" THEN x \in heard
           ELSE x[1] = fill.channel /\ x[2] = fill.at

(* A fill starts behind the newest message that is stored, and leads.      *)
FillLeads ==
    fill.channel \in Channels =>
        /\ fill.channel \in map
        /\ fill.at <= posted[fill.channel]
        /\ \A x \in Message : x[1] = fill.channel /\ Reached(x) => x[2] <= fill.at

(* What waits waits for the next fill: nothing newer has been reached, and  *)
(* where the channel is mapped, only what its fill has yet to reach.        *)
NoneBehind == \A x, y \in Message : x[1] = y[1] /\ Waits(x) /\ Reached(y) => y[2] < x[2]
NoneLeft == \A x \in Message : Waits(x) /\ x[1] \in map => x[1] = fill.channel /\ fill.at < x[2]

HolesInv == ReachedIsPosted /\ BootInOrder /\ FillLeads /\ NoneBehind /\ NoneLeft

LEMMA MessageParts ==
    ASSUME NEW x \in Message
    PROVE  x[1] \in Channels /\ x[2] \in Ids /\ x[2] \in Nat /\ x = <<x[1], x[2]>>
  BY BoundsAreNat DEF Message

LEMMA IdleOutsideFill ==
    ASSUME BootInOrder, phase # "listening", fill.channel = NoChannel
    PROVE  \A x \in Message : At(x, "none")
  BY MessageParts, IntakeAssumption DEF BootInOrder

(* A step that reaches nothing new and lets go of nothing without a reason. *)
LEMMA NothingNew ==
    ASSUME HolesInv, UNCHANGED <<posted, map, fill>>,
           \A x \in Message : Reached(x)' => Reached(x),
           \A x \in Message : ~At(x, "none")' => ~At(x, "none") /\ (x \in heard => x \in heard'),
           \A x \in Message : Waits(x)' => Waits(x),
           \/ phase' = phase
           \/ /\ fill = NoFill /\ \A x \in Message : At(x, "none")
              /\ map = {} \/ phase' \in {"filling", "listening"}
    PROVE  HolesInv'
<1>1. ReachedIsPosted'
  BY DEF HolesInv, ReachedIsPosted
<1>2. BootInOrder'
  BY DEF HolesInv, BootInOrder, FillInTime
<1>3. FillLeads' /\ NoneBehind' /\ NoneLeft'
  BY DEF HolesInv, FillLeads, NoneBehind, NoneLeft
<1>4. QED BY <1>1, <1>2, <1>3 DEF HolesInv

LEMMA TaskHoles ==
    ASSUME FieldTypes, RowsFirst, HolesInv, NEW x \in Message,
           Ingest(x) \/ FloodWait(x) \/ IngestRaises(x)
    PROVE  HolesInv'
<1>1. UNCHANGED <<posted, map, fill, phase>>
  BY DEF Ingest, Insert, Complete, EnqueueNormalize, FloodWait, IngestRaises, rows
<1>2. PICK stage \in Stages : Goto(x, stage)
  BY DEF Ingest, Insert, Complete, EnqueueNormalize, FloodWait, IngestRaises, Drop, Stages
<1>3. \A y \in Message : task'[y] = IF y = x THEN stage ELSE task[y]
  BY <1>2, GotoTypes
<1>4. ~At(x, "none")
  BY DEF Ingest, Insert, Complete, EnqueueNormalize, FloodWait, IngestRaises, At
<1>5. \A y \in Message \ {x} : row'[y] = row[y] /\ (y \in heard <=> y \in heard')
  BY DEF Ingest, Insert, Complete, EnqueueNormalize, FloodWait, IngestRaises, Drop, rows, FieldTypes
<1>6. excused \subseteq excused'
  BY DEF Ingest, Insert, Complete, EnqueueNormalize, FloodWait, IngestRaises
<1>7. ~At(x, "none")' => heard' = heard
  <2>1. Drop(x) => At(x, "none")'
    BY GotoTypes DEF Drop, Stages
  <2>2. EnqueueNormalize(x) => At(x, "none")'
    BY GotoTypes DEF EnqueueNormalize, Stages
  <2>3. QED BY <2>1, <2>2 DEF Ingest, Insert, Complete, FloodWait, IngestRaises
<1>8. ~Waits(x)'
  <2>1. CASE Insert(x)
    <3>1. Stored(x) => Stored(x)'
      BY <2>1 DEF Insert, Stored
    <3>2. ~Stored(x) => ~At(x, "none")'
      BY <2>1, GotoTypes DEF Insert, Stages
    <3>3. QED BY <3>1, <3>2 DEF Waits, Reached
  <2>2. CASE Complete(x) \/ EnqueueNormalize(x)
    <3>1. Stored(x)'
      BY <2>2 DEF Complete, EnqueueNormalize, RowsFirst, Stored, FieldTypes
    <3>2. QED BY <3>1 DEF Waits, Reached
  <2>3. CASE FloodWait(x) \/ IngestRaises(x)
    BY <2>3 DEF FloodWait, IngestRaises, Waits
  <2>4. QED BY <2>1, <2>2, <2>3 DEF Ingest
<1>9. \A y \in Message : Reached(y)' => Reached(y)
  BY <1>3, <1>4, <1>5 DEF Reached, Stored, At
<1>10. \A y \in Message : ~At(y, "none")' => ~At(y, "none") /\ (y \in heard => y \in heard')
  BY <1>3, <1>4, <1>5, <1>7 DEF At
<1>11. \A y \in Message : Waits(y)' => Waits(y)
  BY <1>1, <1>3, <1>5, <1>6, <1>8 DEF Waits, Reached, Stored, At
<1>12. QED BY <1>1, <1>9, <1>10, <1>11, NothingNew

LEMMA OutsideHoles ==
    ASSUME FieldTypes, HolesInv,
           \/ \E c \in Channels : SetIngestion(c)
           \/ \E x \in Message : DecidePost(x) \/ GrowOld(x)
    PROVE  HolesInv'
<1>1. UNCHANGED <<posted, map, fill, row, task, heard, excused, phase>>
  BY DEF SetIngestion, DecidePost, GrowOld
<1>2. QED BY <1>1, NothingNew DEF Reached, Waits, Stored, At

(* A new message is heard, will be listed by the fill that is under way or  *)
(* by the next one, or falls between the two and is excused.               *)
LEMMA PostHoles ==
    ASSUME FieldTypes, HolesInv, NEW c \in Channels, Post(c)
    PROVE  HolesInv'
<1> DEFINE listening == phase = "listening" /\ c \in map
<1>0. PICK x \in Message : x = <<c, posted[c] + 1>>
  BY BoundsAreNat DEF Post, FieldTypes, Message
<1>1. posted[c] \in Nat /\ x[1] = c /\ x[2] = posted[c] + 1 /\ fill \in Fill
  BY <1>0, BoundsAreNat DEF FieldTypes
<1>2. /\ UNCHANGED <<row, phase, map, fill>>
      /\ posted'[c] = posted[c] + 1
      /\ \A d \in Channels \ {c} : posted'[d] = posted[d]
  BY DEF Post, FieldTypes
<1>3. excused' = IF phase = "filling" /\ c \in map /\ fill.channel # c
                 THEN excused \cup {x} ELSE excused
  BY <1>0 DEF Post
<1>4. IF listening THEN Goto(x, "insert") /\ heard' = heard \cup {x}
      ELSE task' = task /\ heard' = heard
  BY <1>0 DEF Post
<1>5. ~Reached(x)
  BY <1>1 DEF HolesInv, ReachedIsPosted
<1>6. /\ \A y \in Message \ {x} : task'[y] = task[y]
      /\ IF listening THEN ~At(x, "none")' ELSE task'[x] = task[x]
  <2>1. CASE listening
    BY <1>1, <1>4, <2>1, GotoTypes DEF Stages
  <2>2. CASE ~listening
    BY <1>4, <2>2
  <2>3. QED BY <2>1, <2>2
<1>7. \A y \in Message \ {x} : Reached(y)' <=> Reached(y)
  BY <1>2, <1>6 DEF Reached, Stored, At
<1>8. Reached(x)' <=> listening
  BY <1>2, <1>5, <1>6 DEF Reached, Stored, At
<1>9. \A y \in Message \ {x} : Waits(y)' => Waits(y)
  <2>1. ASSUME NEW y \in Message \ {x}, Waits(y)' PROVE y[2] <= posted[y[1]]
    <3>1. y[1] \in Channels /\ y[2] \in Nat /\ y = <<y[1], y[2]>> /\ y[2] <= posted'[y[1]]
      BY <2>1, MessageParts DEF Waits
    <3>2. CASE y[1] = c
      BY <1>0, <1>1, <1>2, <3>1, <3>2
    <3>3. CASE y[1] # c
      BY <1>2, <3>1, <3>3
    <3>4. QED BY <3>2, <3>3
  <2>2. QED BY <1>3, <1>7, <2>1 DEF Waits
<1>10. ReachedIsPosted'
  <2>1. ASSUME NEW y \in Message, Reached(y)' PROVE y[2] <= posted'[y[1]]
    <3>1. CASE y = x
      BY <1>1, <1>2, <3>1
    <3>2. CASE y # x
      <4>1. y[2] <= posted[y[1]] /\ y[1] \in Channels /\ y[2] \in Nat
        BY <1>7, <2>1, <3>2, MessageParts DEF HolesInv, ReachedIsPosted
      <4>2. QED BY <1>1, <1>2, <4>1
    <3>3. QED BY <3>1, <3>2
  <2>2. QED BY <2>1 DEF ReachedIsPosted
<1>11. BootInOrder'
  <2>1. ASSUME NEW y \in Message, ~At(y, "none")'
        PROVE  IF phase = "listening" THEN y \in heard' ELSE y[1] = fill.channel /\ y[2] = fill.at
    <3>1. CASE y = x
      BY <1>4, <1>5, <1>6, <2>1, <3>1 DEF Reached, At
    <3>2. CASE y # x
      BY <1>4, <1>6, <2>1, <3>2 DEF HolesInv, BootInOrder, At
    <3>3. QED BY <3>1, <3>2
  <2>2. QED BY <1>2, <2>1 DEF HolesInv, BootInOrder, FillInTime
<1>12. FillLeads'
  <2> SUFFICES ASSUME fill.channel \in Channels
               PROVE  /\ fill.channel \in map
                      /\ fill.at <= posted'[fill.channel]
                      /\ \A y \in Message : y[1] = fill.channel /\ Reached(y)' => y[2] <= fill.at
    BY <1>2 DEF FillLeads
  <2>1. phase # "listening"
    BY IntakeAssumption DEF HolesInv, BootInOrder, FillInTime, NoFill
  <2>2. \A y \in Message : Reached(y)' => Reached(y)
    BY <1>7, <1>8, <2>1
  <2>3. fill.at <= posted[fill.channel] /\ fill.at \in Nat /\ posted[fill.channel] \in Nat
    BY <1>1, BoundsAreNat DEF HolesInv, FillLeads, Fill, FieldTypes
  <2>4. fill.at <= posted'[fill.channel]
    BY <1>2, <2>3
  <2>5. QED BY <2>2, <2>4 DEF HolesInv, FillLeads
<1>13. Waits(x)' => ~listening /\ (c \in map => c = fill.channel)
  <2>1. phase \in {"filling", "listening"} \/ c \notin map
    BY DEF HolesInv, BootInOrder
  <2>2. QED BY <1>3, <1>8, <2>1 DEF Waits
<1>14. NoneBehind'
  <2> SUFFICES ASSUME NEW y \in Message, NEW z \in Message, y[1] = z[1], Waits(y)', Reached(z)'
               PROVE  z[2] < y[2]
    BY DEF NoneBehind
  <2>1. CASE y = x
    <3>1. z # x /\ Reached(z)
      BY <1>7, <2>1 DEF Waits
    <3>2. z[2] <= posted[c] /\ z[2] \in Nat
      BY <1>1, <2>1, <3>1, MessageParts DEF HolesInv, ReachedIsPosted
    <3>3. QED BY <1>1, <2>1, <3>2
  <2>2. CASE y # x /\ z = x
    <3>1. Waits(y) /\ listening
      BY <1>8, <1>9, <2>2
    <3>2. y[1] \in map /\ fill = NoFill
      BY <1>1, <2>2, <3>1 DEF HolesInv, BootInOrder, FillInTime
    <3>3. y[1] # fill.channel
      BY <3>2, MessageParts, IntakeAssumption DEF NoFill
    <3>4. QED BY <3>1, <3>2, <3>3 DEF HolesInv, NoneLeft
  <2>3. CASE y # x /\ z # x
    BY <1>7, <1>9, <2>3 DEF HolesInv, NoneBehind
  <2>4. QED BY <2>1, <2>2, <2>3
<1>15. NoneLeft'
  <2> SUFFICES ASSUME NEW y \in Message, Waits(y)', y[1] \in map
               PROVE  y[1] = fill.channel /\ fill.at < y[2]
    BY <1>2 DEF NoneLeft
  <2>1. CASE y = x
    <3>1. c = fill.channel /\ fill.at <= posted[c]
      BY <1>1, <1>13, <2>1 DEF HolesInv, FillLeads
    <3>2. fill.at \in Nat
      BY <1>1, BoundsAreNat DEF Fill
    <3>3. QED BY <1>1, <2>1, <3>1, <3>2
  <2>2. CASE y # x
    BY <1>9, <2>2 DEF HolesInv, NoneLeft
  <2>3. QED BY <2>1, <2>2
<1>16. QED BY <1>10, <1>11, <1>12, <1>14, <1>15 DEF HolesInv

LEMMA StartFillHoles ==
    ASSUME FieldTypes, HolesInv, NEW c \in Channels, StartFill(c)
    PROVE  HolesInv'
<1>1. /\ phase = "filling" /\ fill.channel = NoChannel
      /\ UNCHANGED <<posted, row, task, heard, excused, phase>>
  BY DEF StartFill, rows
<1>2. \A x \in Message : At(x, "none")
  BY <1>1, IdleOutsideFill DEF HolesInv
<1>3. /\ \A x \in Message : Reached(x)' = Reached(x) /\ Waits(x)' = Waits(x)
      /\ \A x \in Message : Reached(x) <=> Stored(x)
  BY <1>1, <1>2 DEF Reached, Waits, Stored, At
<1>4. CASE UNCHANGED <<map, fill>>
  BY <1>1, <1>3, <1>4, NothingNew DEF At
<1>5. CASE /\ map' = map \cup {c}
           /\ fill' = [channel |-> c, at |-> LastId(c), left |-> FillLimit, upTo |-> posted[c]]
  <2>1. fill'.channel = c /\ fill'.at = LastId(c) /\ LastId(c) \in Nat
    <3>1. LastId(c) \in 0 .. MaxMessage
      BY LastIdIs
    <3>2. QED BY <1>5, <3>1, BoundsAreNat
  <2>2. ReachedIsPosted' /\ NoneBehind'
    BY <1>1, <1>3 DEF HolesInv, ReachedIsPosted, NoneBehind
  <2>3. BootInOrder'
    BY <1>1, <1>2, <2>1, IntakeAssumption DEF BootInOrder, FillInTime, At
  <2>4. FillLeads'
    <3>1. LastId(c) <= posted[c]
      <4>1. CASE LastId(c) = 0
        BY <4>1, BoundsAreNat DEF FieldTypes
      <4>2. CASE LastId(c) # 0
        <5>1. <<c, LastId(c)>> \in Message /\ Stored(<<c, LastId(c)>>)
          BY <4>2, LastIdIs DEF Message
        <5>2. QED BY <1>3, <5>1 DEF HolesInv, ReachedIsPosted
      <4>3. QED BY <4>1, <4>2
    <3>2. ASSUME NEW x \in Message, x[1] = c, Reached(x) PROVE x[2] <= LastId(c)
      BY <1>3, <3>2, MessageParts, LastIdIs
    <3>3. QED BY <1>1, <1>3, <1>5, <2>1, <3>1, <3>2 DEF FillLeads
  <2>5. NoneLeft'
    <3> SUFFICES ASSUME NEW x \in Message, Waits(x), x[1] \in map \cup {c}
                 PROVE  x[1] = c /\ LastId(c) < x[2]
      BY <1>3, <1>5, <2>1 DEF NoneLeft
    <3>1. x[1] \notin map
      BY <1>1, MessageParts, IntakeAssumption DEF HolesInv, NoneLeft
    <3>2. CASE LastId(c) = 0
      BY <3>1, <3>2, MessageParts, BoundsAreNat
    <3>3. CASE LastId(c) # 0
      <4>1. PICK y \in Message : y = <<c, LastId(c)>> /\ Stored(y)
        BY <3>3, LastIdIs DEF Message
      <4>2. y[1] = x[1] /\ Reached(y) /\ y[2] = LastId(c)
        BY <1>3, <3>1, <4>1
      <4>3. QED BY <3>1, <4>2 DEF HolesInv, NoneBehind
    <3>4. QED BY <3>2, <3>3
  <2>6. QED BY <2>2, <2>3, <2>4, <2>5 DEF HolesInv
<1>6. QED BY <1>4, <1>5 DEF StartFill

(* The only message a fill has in hand is the one it has reached; what it   *)
(* takes next is the oldest that waits.                                    *)
LEMMA FillNextHoles ==
    ASSUME FieldTypes, HolesInv, FillNext
    PROVE  HolesInv'
<1> DEFINE c == fill.channel
<1>1. /\ c \in Channels /\ fill \in Fill /\ fill.at < posted[c]
      /\ fill.at \in Nat /\ posted[c] \in 0 .. MaxMessage
  BY BoundsAreNat DEF FillNext, Between, FieldTypes, Fill
<1>2. PICK x \in Message : x = <<c, fill.at + 1>>
  <2>1. fill.at + 1 \in Ids
    BY <1>1, BoundsAreNat
  <2>2. QED BY <1>1, <2>1 DEF Message
<1>3. x[1] = c /\ x[2] = fill.at + 1
  BY <1>2
<1>4. /\ UNCHANGED <<posted, row, map, heard, excused, phase>>
      /\ Goto(x, "insert")
      /\ fill' = [fill EXCEPT !.at = @ + 1, !.left = @ - 1]
      /\ \A m \in Ids : At(<<c, m>>, "none")
  BY <1>2 DEF FillNext, Between, rows
<1>5. fill'.channel = c /\ fill'.at = fill.at + 1
  BY <1>1, <1>4 DEF Fill
<1>6. phase = "filling" /\ c \in map
  BY <1>1, IntakeAssumption DEF HolesInv, BootInOrder, FillInTime, FillLeads, NoFill
<1>7. /\ ~At(x, "none")' /\ \A y \in Message \ {x} : task'[y] = task[y]
      /\ \A y \in Message : At(y, "none")
  <2>1. ~At(x, "none")' /\ \A y \in Message \ {x} : task'[y] = task[y]
    BY <1>4, GotoTypes DEF Stages
  <2>2. \A y \in Message : At(y, "none")
    BY <1>4, <1>6, MessageParts DEF HolesInv, BootInOrder
  <2>3. QED BY <2>1, <2>2
<1>8. /\ \A y \in Message \ {x} : Reached(y)' = Reached(y)
      /\ Reached(x)'
      /\ \A y \in Message : Waits(y)' => Waits(y) /\ y # x
  BY <1>4, <1>7 DEF Reached, Waits, Stored, At
<1>9. ReachedIsPosted'
  BY <1>1, <1>3, <1>4, <1>8 DEF HolesInv, ReachedIsPosted
<1>10. BootInOrder'
  BY <1>1, <1>3, <1>4, <1>5, <1>6, <1>7, IntakeAssumption DEF BootInOrder, FillInTime, At
<1>11. FillLeads'
  <2>1. ASSUME NEW y \in Message, y[1] = c, Reached(y)' PROVE y[2] <= fill.at + 1
    <3>1. CASE y = x
      BY <1>1, <1>3, <3>1
    <3>2. CASE y # x
      <4>1. y[2] <= fill.at
        BY <1>1, <1>8, <2>1, <3>2 DEF HolesInv, FillLeads
      <4>2. QED BY <1>1, <4>1, MessageParts
    <3>3. QED BY <3>1, <3>2
  <2>2. fill.at + 1 <= posted[c]
    BY <1>1
  <2>3. QED BY <1>4, <1>5, <1>6, <2>1, <2>2 DEF FillLeads
<1>12. NoneLeft'
  <2> SUFFICES ASSUME NEW y \in Message, Waits(y), y # x, y[1] \in map
               PROVE  y[1] = c /\ fill.at + 1 < y[2]
    BY <1>4, <1>5, <1>8 DEF NoneLeft
  <2>1. y[1] = c /\ fill.at < y[2]
    BY DEF HolesInv, NoneLeft
  <2>2. y[2] # fill.at + 1
    BY <1>2, <2>1, MessageParts
  <2>3. QED BY <1>1, <2>1, <2>2, MessageParts
<1>13. NoneBehind'
  <2> SUFFICES ASSUME NEW y \in Message, NEW z \in Message, y[1] = z[1],
                     Waits(y), Reached(z)', y # x
               PROVE  z[2] < y[2]
    BY <1>8 DEF NoneBehind
  <2>1. CASE z = x
    <3>1. fill.at < y[2]
      BY <1>3, <1>6, <2>1 DEF HolesInv, NoneLeft
    <3>2. y[2] # fill.at + 1
      BY <1>2, <1>3, <2>1, MessageParts
    <3>3. QED BY <1>1, <1>3, <2>1, <3>1, <3>2, MessageParts
  <2>2. CASE z # x
    BY <1>8, <2>2 DEF HolesInv, NoneBehind
  <2>3. QED BY <2>1, <2>2
<1>14. QED BY <1>9, <1>10, <1>11, <1>12, <1>13 DEF HolesInv

LEMMA FillEndsHoles ==
    ASSUME FieldTypes, HolesInv, FillEnds
    PROVE  HolesInv'
<1> DEFINE c == fill.channel
           late == {<<c, m>> : m \in fill.at + 1 .. posted[c]}
<1>1. /\ c \in Channels /\ fill.at \in Nat /\ posted[c] \in Nat
      /\ \A m \in Ids : At(<<c, m>>, "none")
  BY BoundsAreNat DEF FillEnds, Between, FieldTypes, Fill
<1>2. /\ UNCHANGED <<posted, row, map, heard, phase, task>>
      /\ fill' = NoFill /\ excused' = excused \cup late
  BY DEF FillEnds, rows
<1>3. phase = "filling"
  BY <1>1, IntakeAssumption DEF HolesInv, BootInOrder, FillInTime, NoFill
<1>4. \A x \in Message : At(x, "none")
  BY <1>1, <1>3, MessageParts DEF HolesInv, BootInOrder
<1>5. /\ \A x \in Message : Reached(x)' = Reached(x)
      /\ \A x \in Message : Waits(x)' => Waits(x) /\ x \notin late
  BY <1>2 DEF Reached, Waits, Stored, At
<1>6. ReachedIsPosted' /\ NoneBehind'
  BY <1>2, <1>5 DEF HolesInv, ReachedIsPosted, NoneBehind
<1>7. BootInOrder'
  BY <1>2, <1>3, <1>4 DEF BootInOrder, FillInTime, At
<1>8. FillLeads'
  BY <1>2, IntakeAssumption DEF FillLeads, NoFill
<1>9. NoneLeft'
  <2> SUFFICES ASSUME NEW x \in Message, Waits(x), x \notin late, x[1] \in map PROVE FALSE
    BY <1>2, <1>5 DEF NoneLeft
  <2>1. x[1] = c /\ fill.at < x[2] /\ x[2] <= posted[c]
    BY DEF HolesInv, NoneLeft, Waits
  <2>2. x[2] \in fill.at + 1 .. posted[c]
    BY <1>1, <2>1, MessageParts
  <2>3. QED BY <2>1, <2>2, MessageParts
<1>10. QED BY <1>6, <1>7, <1>8, <1>9 DEF HolesInv

LEMMA ReloadHoles ==
    ASSUME FieldTypes, HolesInv, Reload
    PROVE  HolesInv'
<1>1. /\ UNCHANGED <<posted, row, fill, heard, phase, task>>
      /\ phase = "listening" /\ fill = NoFill
      /\ map' \subseteq Channels
      /\ excused' = excused \cup UNION {Unstored(c) : c \in map' \ map}
  BY DEF Reload, rows, FieldTypes, HolesInv, BootInOrder, FillInTime
<1>2. /\ \A x \in Message : Reached(x)' = Reached(x)
      /\ \A x \in Message : Waits(x)' => Waits(x)
  BY <1>1 DEF Reached, Waits, Stored, At
<1>3. ReachedIsPosted' /\ NoneBehind' /\ BootInOrder'
  BY <1>1, <1>2
     DEF HolesInv, ReachedIsPosted, NoneBehind, BootInOrder, FillInTime, At
<1>4. FillLeads'
  BY <1>1, IntakeAssumption DEF FillLeads, NoFill
<1>5. NoneLeft'
  <2> SUFFICES ASSUME NEW x \in Message, Waits(x), x \notin excused', x[1] \in map' PROVE FALSE
    BY <1>1, <1>2 DEF NoneLeft, Waits
  <2>1. x[1] # fill.channel
    BY <1>1, MessageParts, IntakeAssumption DEF NoFill
  <2>2. x[1] \notin map
    BY <2>1 DEF HolesInv, NoneLeft
  <2>3. x \in Unstored(x[1])
    <3>1. x[2] \in 1 .. posted[x[1]]
      BY MessageParts, BoundsAreNat DEF Waits, FieldTypes
    <3>2. QED BY <3>1, MessageParts DEF Unstored, Waits, Reached
  <2>4. QED BY <1>1, <2>2, <2>3
<1>6. QED BY <1>3, <1>4, <1>5 DEF HolesInv

(* What a task had in hand and was not stored is the newest of its channel  *)
(* that anybody reached, or is excused.                                    *)
LEMMA CrashHoles ==
    ASSUME FieldTypes, HolesInv, Crash
    PROVE  HolesInv'
<1> DEFINE lost == {x \in heard : ~At(x, "none") /\ ~Stored(x) /\ LastId(x[1]) > x[2]}
<1>1. /\ UNCHANGED <<posted, row>> /\ phase' = "down" /\ map' = {} /\ fill' = NoFill
      /\ \A x \in Message : At(x, "none")'
      /\ excused' = excused \cup lost
  BY DEF Crash, rows, At
<1>2. \A x \in Message : Reached(x)' <=> Stored(x)
  BY <1>1 DEF Reached, Stored
<1>3. ReachedIsPosted'
  BY <1>1, <1>2 DEF HolesInv, ReachedIsPosted, Reached
<1>4. BootInOrder' /\ NoneLeft'
  BY <1>1 DEF BootInOrder, FillInTime, NoneLeft
<1>5. FillLeads'
  BY <1>1, IntakeAssumption DEF FillLeads, NoFill
<1>6. NoneBehind'
  <2> SUFFICES ASSUME NEW x \in Message, NEW y \in Message, x[1] = y[1], Waits(x)', Stored(y)
               PROVE  y[2] < x[2]
    BY <1>2 DEF NoneBehind
  <2>1. /\ x[2] <= posted[x[1]] /\ ~Stored(x) /\ x \notin excused /\ x \notin lost
        /\ y[2] \in Nat /\ x[2] \in Nat /\ y[2] # x[2]
    BY <1>1, <1>2, MessageParts DEF Waits
  <2>2. CASE At(x, "none")
    BY <2>1, <2>2 DEF HolesInv, NoneBehind, Waits, Reached
  <2>3. CASE ~At(x, "none") /\ phase = "listening"
    <3>1. ~(LastId(x[1]) > x[2])
      BY <2>1, <2>3 DEF HolesInv, BootInOrder
    <3>2. LastId(x[1]) \in Nat /\ y[2] <= LastId(x[1])
      <4>1. LastId(x[1]) \in 0 .. MaxMessage /\ y[2] <= LastId(x[1])
        BY MessageParts, LastIdIs
      <4>2. QED BY <4>1, BoundsAreNat
    <3>3. QED BY <2>1, <3>1, <3>2
  <2>4. CASE ~At(x, "none") /\ phase # "listening"
    <3>1. x[1] = fill.channel /\ x[2] = fill.at
      BY <2>4 DEF HolesInv, BootInOrder
    <3>2. y[2] <= fill.at
      BY <3>1, MessageParts DEF HolesInv, FillLeads, Reached
    <3>3. QED BY <2>1, <3>1, <3>2
  <2>5. QED BY <2>2, <2>3, <2>4
<1>7. QED BY <1>3, <1>4, <1>5, <1>6 DEF HolesInv

LEMMA BootHoles ==
    ASSUME FieldTypes, DownIsIdle, HolesInv, Start \/ BootStep
    PROVE  HolesInv'
<1>1. CASE Start \/ LoadChannels \/ Reconcile \/ Listen
  <2>1. /\ UNCHANGED <<posted, row, map, fill, task, heard, excused>>
        /\ phase # "listening"
    BY <1>1 DEF Start, LoadChannels, Reconcile, Listen, rows
  <2>2. phase \in {"filling", "listening"} \/ map = {}
    BY DEF HolesInv, BootInOrder
  <2>3. fill = NoFill /\ fill.channel = NoChannel
    BY <1>1 DEF Start, LoadChannels, Reconcile, Listen, HolesInv, BootInOrder, FillInTime, NoFill
  <2>4. \A x \in Message : At(x, "none")
    BY <2>1, <2>3, IdleOutsideFill DEF HolesInv
  <2>5. map = {} \/ phase' \in {"filling", "listening"}
    BY <1>1, <2>2 DEF Start, LoadChannels, Reconcile, Listen
  <2>6. QED BY <2>1, <2>3, <2>4, <2>5, NothingNew DEF Reached, Waits, Stored, At
<1>2. QED
  BY <1>1, StartFillHoles, FillNextHoles, FillEndsHoles DEF BootStep

-----------------------------------------------------------------------------
(* Orphans.                                                                *)

LEMMA OrphansStep ==
    ASSUME FieldTypes, OnlyStored, OrphansAreFound, [Next]_vars
    PROVE  OrphansAreFound'
<1>1. ASSUME phase' \in {"reconciled", "filling", "listening"} =>
                 phase \in {"reconciled", "filling", "listening"},
             stuck' = stuck, queued \subseteq queued',
             \A x \in Message : row[x] = "complete" => row'[x] = "complete"
      PROVE  OrphansAreFound'
  BY <1>1 DEF OrphansAreFound, FieldTypes
<1>2. CASE Reconcile
  <2>1. PICK found \in SUBSET Orphans :
            /\ queued' = queued \cup found
            /\ stuck' = IF found = Orphans THEN old \ queued ELSE {}
    BY <1>2 DEF Reconcile
  <2>2. ASSUME NEW x \in stuck', x \notin queued' PROVE x \in WithMedia /\ row[x] = "complete"
    <3>1. x \in old /\ x \notin Orphans
      BY <2>1, <2>2
    <3>2. x \in Message /\ row[x] \in {"none", "bare", "complete"} /\ row[x] # "none"
      BY <3>1 DEF OnlyStored, FieldTypes, Stored
    <3>3. QED BY <3>1, <3>2 DEF Orphans, NoRefs
  <2>3. row' = row
    BY <1>2 DEF Reconcile
  <2>4. QED BY <2>2, <2>3 DEF OrphansAreFound
<1>3. CASE Crash
  BY <1>3 DEF Crash, OrphansAreFound
<1>4. CASE \/ \E c \in Channels : Post(c) \/ SetIngestion(c) \/ StartFill(c)
           \/ Start \/ LoadChannels \/ FillNext \/ FillEnds \/ Listen \/ Reload
           \/ \E x \in Message : FloodWait(x) \/ IngestRaises(x) \/ DecidePost(x) \/ GrowOld(x)
           \/ UNCHANGED vars
  <2>1. /\ stuck' = stuck /\ queued' = queued /\ row' = row
        /\ phase' \in {"reconciled", "filling", "listening"} =>
               phase \in {"reconciled", "filling", "listening"}
    BY <1>4 DEF Post, SetIngestion, StartFill, Start, LoadChannels, FillNext, FillEnds, Listen,
                Reload, FloodWait, IngestRaises, DecidePost, GrowOld, rows, vars
  <2>2. QED BY <1>1, <2>1
<1>5. ASSUME NEW x \in Message, Ingest(x) PROVE OrphansAreFound'
  <2>1. stuck' = stuck /\ queued \subseteq queued' /\ phase' = phase
    BY <1>5 DEF Ingest, Insert, Complete, EnqueueNormalize
  <2>2. \A y \in Message : row[y] = "complete" => row'[y] = "complete"
    BY <1>5 DEF Ingest, Insert, Complete, EnqueueNormalize, FieldTypes, Stored
  <2>3. QED BY <1>1, <2>1, <2>2
<1>6. QED BY <1>2, <1>3, <1>4, <1>5 DEF Next, BootStep

-----------------------------------------------------------------------------
(* The invariant.                                                          *)

IntakeInv == TypeOK /\ RowsFirst /\ HolesInv /\ OrphansAreFound

LEMMA InitIntakeInv == Init => IntakeInv
<1> SUFFICES ASSUME Init PROVE IntakeInv
  OBVIOUS
<1>1. RowsFirst /\ OrphansAreFound
  BY DEF Init, RowsFirst, OrphansAreFound, At
<1>2. BootInOrder /\ FillLeads /\ NoneLeft
  BY IntakeAssumption DEF Init, BootInOrder, FillInTime, FillLeads, NoneLeft, NoFill, At
<1>3. ReachedIsPosted /\ NoneBehind
  BY DEF Init, ReachedIsPosted, NoneBehind, Reached, Stored, At
<1>4. QED BY <1>1, <1>2, <1>3, InitTypes DEF IntakeInv, HolesInv

LEMMA NextIntakeInv == IntakeInv /\ [Next]_vars => IntakeInv'
<1> SUFFICES ASSUME IntakeInv, [Next]_vars PROVE IntakeInv'
  OBVIOUS
<1>1. FieldTypes /\ OnlyStored /\ DownIsIdle /\ RowsFirst /\ HolesInv
  BY TypeParts DEF IntakeInv
<1>2. FillInTime
  BY <1>1 DEF HolesInv, BootInOrder
<1>3. OrphansAreFound'
  BY <1>1, OrphansStep DEF IntakeInv
<1>4. CASE \/ \E c \in Channels : Post(c) \/ SetIngestion(c)
           \/ \E x \in Message : DecidePost(x) \/ GrowOld(x)
  <2>1. TypeOK'
    <3>1. FieldTypes' /\ OnlyStored' /\ DownIsIdle'
      BY <1>1, <1>4, OutsideTypes
    <3>2. QED BY <3>1, TypeParts, PTL
  <2>2. HolesInv'
    BY <1>1, <1>4, PostHoles, OutsideHoles
  <2>3. RowsFirst'
    <3>1. ASSUME NEW c \in Channels, Post(c), NEW y \in Message,
                 At(y, "download")' \/ At(y, "enqueue")'
          PROVE  Stored(y)'
      <4>1. task'[y] = task[y] \/ task'[y] = "insert"
        <5>1. PICK x \in Message : x = <<c, posted[c] + 1>>
          <6>1. posted[c] \in 0 .. MaxMessage /\ posted[c] < MaxMessage
            BY <1>1, <3>1 DEF Post, FieldTypes
          <6>2. posted[c] + 1 \in Ids
            BY <6>1, BoundsAreNat
          <6>3. QED BY <6>2 DEF Message
        <5>2. Goto(x, "insert") \/ task' = task
          BY <3>1, <5>1 DEF Post
        <5>3. QED BY <1>1, <5>2, GotoTypes DEF Stages
      <4>2. QED BY <1>1, <3>1, <4>1 DEF Post, RowsFirst, Stored, At
    <3>2. CASE UNCHANGED <<row, task>>
      BY <1>1, <3>2 DEF RowsFirst, Stored, At
    <3>3. QED
      BY <1>4, <3>1, <3>2 DEF SetIngestion, DecidePost, GrowOld, RowsFirst
  <2>4. QED BY <1>3, <2>1, <2>2, <2>3 DEF IntakeInv
<1>5. CASE Start \/ BootStep \/ Reload \/ Crash
  <2>1. TypeOK'
    <3>1. FieldTypes' /\ OnlyStored' /\ DownIsIdle'
      BY <1>1, <1>2, <1>5, BootTypes
    <3>2. QED BY <3>1, TypeParts, PTL
  <2>2. HolesInv'
    BY <1>1, <1>5, BootHoles, ReloadHoles, CrashHoles
  <2>3. RowsFirst'
    <3>1. CASE FillNext
      <4>1. PICK x \in Message : Goto(x, "insert")
        <5>1. /\ fill.channel \in Channels /\ fill.at + 1 \in Ids
          BY <1>1, <3>1, BoundsAreNat DEF FillNext, Between, FieldTypes, Fill
        <5>2. QED BY <3>1, <5>1 DEF FillNext, Message
      <4>2. \A y \in Message : task'[y] = task[y] \/ task'[y] = "insert"
        BY <1>1, <4>1, GotoTypes DEF Stages
      <4>3. QED BY <1>1, <3>1, <4>2 DEF FillNext, rows, RowsFirst, Stored, At
    <3>2. CASE ~FillNext
      <4>1. row' = row /\ (task' = task \/ task' = [x \in Message |-> "none"])
        BY <1>5, <3>2 DEF Start, BootStep, Reconcile, LoadChannels, FillEnds, Listen, StartFill,
                          Reload, Crash, rows
      <4>2. QED BY <1>1, <4>1 DEF RowsFirst, Stored, At
    <3>3. QED BY <3>1, <3>2
  <2>4. QED BY <1>3, <2>1, <2>2, <2>3 DEF IntakeInv
<1>6. ASSUME NEW x \in Message, Ingest(x) \/ FloodWait(x) \/ IngestRaises(x) PROVE IntakeInv'
  <2>1. FieldTypes' /\ OnlyStored' /\ DownIsIdle' /\ RowsFirst'
    BY <1>1, <1>6, TaskTypes
  <2>2. TypeOK'
    BY <2>1, TypeParts, PTL
  <2>3. HolesInv'
    BY <1>1, <1>6, TaskHoles
  <2>4. QED BY <1>3, <2>1, <2>2, <2>3 DEF IntakeInv
<1>7. CASE UNCHANGED vars
  <2>1. TypeOK'
    BY <1>7 DEF vars, rows, IntakeInv, TypeOK
  <2>2. HolesInv'
    BY <1>1, <1>7, NothingNew DEF vars, rows, Reached, Waits, Stored, At
  <2>3. RowsFirst'
    BY <1>1, <1>7 DEF vars, rows, RowsFirst, Stored, At
  <2>4. QED BY <1>3, <2>1, <2>2, <2>3 DEF IntakeInv
<1>8. QED BY <1>4, <1>5, <1>6, <1>7 DEF Next

LEMMA IntakeInvariant == Spec => []IntakeInv
<1>1. QED BY InitIntakeInv, NextIntakeInv, PTL DEF Spec

(* Every variable of the userbot stays within its type; what is queued,    *)
(* decided or old has a row.                                               *)
THEOREM IntakeTypes == Spec => []TypeOK
<1>1. QED BY IntakeInvariant, PTL DEF IntakeInv

(* A message is passed over for good only with a reason: it came between a *)
(* channel's fill and the handler, was over the fill's limit, was there    *)
(* when the reloader added its channel, or was in the hands of a task that *)
(* raised or ended with others (backfill, on_new_message).                 *)
THEOREM NoHoleUnexplained == Spec => []HolesAreExplained
<1>1. HolesInv => HolesAreExplained
  <2> SUFFICES ASSUME HolesInv, NEW x \in Message, Hole(x), x \notin excused PROVE FALSE
    BY DEF HolesAreExplained
  <2>1. x[1] \in Channels /\ x[2] \in Nat
    BY MessageParts
  <2>2. LastId(x[1]) > x[2] /\ LastId(x[1]) \in Nat
    <3>1. LastId(x[1]) \in 0 .. MaxMessage
      BY <2>1, LastIdIs
    <3>2. QED BY <3>1, BoundsAreNat DEF Hole
  <2>3. LastId(x[1]) # 0
    BY <2>1, <2>2
  <2>4. PICK y \in Message : y = <<x[1], LastId(x[1])>> /\ Stored(y)
    BY <2>1, <2>3, LastIdIs DEF Message
  <2>5. Waits(x) /\ Reached(y) /\ y[1] = x[1] /\ y[2] = LastId(x[1])
    BY <2>4 DEF Hole, Waits, Reached
  <2>6. QED BY <2>1, <2>2, <2>5 DEF HolesInv, NoneBehind
<1>2. QED BY <1>1, IntakeInvariant, PTL DEF IntakeInv

(* Once a boot has found all orphans, every row that was old then has its  *)
(* normalize job, but for those whose media were recorded before the       *)
(* process ended (reconcile_pending).                                      *)
THEOREM OrphansGetJobs == Spec => []OrphansAreFound
<1>1. QED BY IntakeInvariant, PTL DEF IntakeInv
=============================================================================
