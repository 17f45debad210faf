-------------------------- MODULE DraftCardsProofs --------------------------
(***************************************************************************)
(* Theorems about DraftCards, for any set of callbacks and any bounds.     *)
(***************************************************************************)
EXTENDS DraftCards, SequenceTheorems, TLAPS

(* What the group holds, and what each actor has in hand: a card that it   *)
(* is to edit has been sent.                                               *)
CardTypes ==
    /\ shown \in Seq(States) /\ Len(shown) <= MaxCards
    /\ stored \in 0 .. Len(shown)
    /\ task \in [Actors -> Task]
    /\ \A a \in Actors : /\ task[a].card <= Len(shown)
                         /\ task[a].at = "edit" => task[a].card # 0

RowTypes ==
    /\ state \in States
    /\ waiting \in [Kinds -> 0 .. MaxWaiting]
    /\ stops \in 0 .. MaxStops
    /\ excuses \subseteq {"silent", "lost", "overlap"}

Flags == hasMessage \in BOOLEAN /\ refused \in BOOLEAN

(* Cards are sent by the slot, one job at a time, and for a row without    *)
(* one: every card but the one whose id is stored, or about to be, is one  *)
(* whose id was lost.                                                      *)
Counts ==
    /\ At(Bot, "send") \/ At(Bot, "store") => stored = 0
    /\ At(Bot, "store") => task[Bot].card # 0
    /\ slips \in Nat
    /\ Len(shown) = IF stored # 0 \/ At(Bot, "store") THEN slips + 1 ELSE slips

CardInv == CardTypes /\ RowTypes /\ Flags /\ Counts

LEMMA Constants == /\ MaxWaiting \in Nat /\ MaxCards \in Nat /\ MaxStops \in Nat
                   /\ Bot \in Actors /\ Bot \notin Editors /\ Editors \subseteq Actors
  BY DraftCardsAssumption DEF Actors

LEMMA InvTypes == CardInv => TypeOK
<1> SUFFICES ASSUME CardInv PROVE TypeOK
  OBVIOUS
<1>1. Len(shown) \in Nat /\ DOMAIN shown = 1 .. Len(shown)
  BY LenProperties DEF CardInv, CardTypes
<1>2. \A a \in Actors : task[a].at = "edit" => task[a].card \in DOMAIN shown
  BY <1>1 DEF CardInv, CardTypes, Task
<1>3. slips \in 0 .. MaxCards
  BY <1>1, Constants DEF CardInv, CardTypes, Counts
<1>4. QED BY <1>2, <1>3 DEF CardInv, CardTypes, RowTypes, Flags, TypeOK

LEMMA InitCards == Init => CardInv
<1> SUFFICES ASSUME Init PROVE CardInv
  OBVIOUS
<1>1. Idle \in Task /\ Idle.at = "idle" /\ Idle.card = 0
  BY Constants DEF Idle, Task, Stages, Kinds, States
<1>2. shown = <<>> /\ shown \in Seq(States) /\ Len(shown) = 0
  BY EmptySeq DEF Init
<1>3. CardTypes
  BY <1>1, <1>2, Constants DEF Init, CardTypes
<1>4. RowTypes
  BY Constants DEF Init, RowTypes, States
<1>5. Flags
  BY Zenon DEF Init, Flags
<1>6. Counts
  BY <1>1, <1>2, Constants DEF Init, Counts, At
<1>7. QED BY <1>3, <1>4, <1>5, <1>6 DEF CardInv

-----------------------------------------------------------------------------
(* What the actions do to the tasks, the cards and the stored id.          *)

\* One actor has something else in hand.
Turns(a, x) == /\ task' = [task EXCEPT ![a] = x]
               /\ x \in Task

LEMMA TurnEffect ==
    ASSUME task \in [Actors -> Task], NEW a \in Actors, NEW x, Turns(a, x)
    PROVE  /\ task' \in [Actors -> Task] /\ task'[a] = x
           /\ \A b \in Actors \ {a} : task'[b] = task[b]
  BY DEF Turns

LEMMA IdleTask == Idle \in Task /\ Idle.at = "idle" /\ Idle.card = 0
  BY Constants DEF Idle, Task, Stages, Kinds, States

LEMMA FinishTurns ==
    ASSUME NEW a, Finish(a)
    PROVE  Turns(a, Idle)
  BY IdleTask DEF Finish, Turns

LEMMA DrawTurns ==
    ASSUME CardTypes, NEW a \in Actors, NEW stage \in Stages, NEW kind \in Kinds,
           NEW st \in States, Draw(a, stage, kind, st)
    PROVE  \E x \in Task : /\ Turns(a, x) /\ x.at = stage /\ x.view = st /\ x.card = stored
                           /\ excuses' \subseteq {"overlap"}
                           /\ excuses' = {} => \A b \in Actors \ {a} : task[b].at \notin Drawing
<1> DEFINE x == [at |-> stage, kind |-> kind, view |-> st, card |-> stored]
<1>1. stored \in 0 .. MaxCards
  BY LenProperties, Constants DEF CardTypes
<1>2. x \in Task /\ Turns(a, x) /\ x.at = stage /\ x.view = st /\ x.card = stored
  BY <1>1 DEF Draw, Task, Turns
<1> HIDE DEF x
<1>3. excuses' \subseteq {"overlap"}
  BY DEF Draw
<1>4. excuses' = {} => \A b \in Actors \ {a} : task[b].at \notin Drawing
  BY DEF Draw
<1>5. QED BY <1>2, <1>3, <1>4

\* An actor goes on with the same text.
LEMMA MovesTurns ==
    ASSUME CardTypes, NEW a \in Actors, NEW stage \in Stages,
           task' = [task EXCEPT ![a].at = stage]
    PROVE  \E x \in Task : /\ Turns(a, x) /\ x.at = stage /\ x.view = task[a].view
                           /\ x.card = task[a].card
<1> DEFINE x == [task[a] EXCEPT !.at = stage]
<1>1. task[a] \in Task
  BY DEF CardTypes
<1>2. x \in Task /\ x.at = stage /\ x.view = task[a].view /\ x.card = task[a].card
  BY <1>1 DEF Task
<1>3. Turns(a, x)
  BY <1>2 DEF Turns
<1> HIDE DEF x
<1>4. QED BY <1>2, <1>3

LEMMA TypesKept ==
    ASSUME CardTypes, NEW a \in Actors, NEW x, Turns(a, x),
           x.card <= Len(shown'), x.at = "edit" => x.card # 0,
           shown' \in Seq(States), Len(shown) <= Len(shown'), Len(shown') <= MaxCards,
           stored' \in 0 .. Len(shown')
    PROVE  CardTypes'
<1>1. /\ task' \in [Actors -> Task] /\ task'[a] = x
      /\ \A b \in Actors \ {a} : task'[b] = task[b]
  BY TurnEffect DEF CardTypes
<1>2. Len(shown) \in Nat /\ Len(shown') \in Nat
  BY LenProperties DEF CardTypes
<1>3. ASSUME NEW b \in Actors
      PROVE  task'[b].card <= Len(shown') /\ (task'[b].at = "edit" => task'[b].card # 0)
  <2>1. CASE b = a
    BY <1>1, <2>1
  <2>2. CASE b # a
    <3>1. task[b] \in Task
      BY DEF CardTypes
    <3>2. task[b].card \in Nat
      BY <3>1 DEF Task
    <3>3. QED BY <1>1, <1>2, <2>2, <3>2 DEF CardTypes
  <2>3. QED BY <2>1, <2>2
<1>4. QED BY <1>1, <1>3 DEF CardTypes

-----------------------------------------------------------------------------
(* The parts that no card is involved in.                                  *)

LEMMA WaitingKept ==
    ASSUME RowTypes, NEW kind \in Kinds,
           Enqueue(kind) \/ (waiting[kind] > 0 /\ waiting' = [waiting EXCEPT ![kind] = @ - 1])
    PROVE  waiting' \in [Kinds -> 0 .. MaxWaiting]
  BY Constants DEF RowTypes, Enqueue

LEMMA DrawExcuses ==
    ASSUME NEW a, NEW stage, NEW kind, NEW st, Draw(a, stage, kind, st)
    PROVE  excuses' \subseteq {"silent", "lost", "overlap"}
  BY DEF Draw

LEMMA RowTypesKept == RowTypes /\ [Next]_vars => RowTypes'
<1> SUFFICES ASSUME RowTypes, [Next]_vars PROVE RowTypes'
  OBVIOUS
<1>0. Kinds = {"draft", "publish"} /\ MaxStops \in Nat
  BY Constants DEF Kinds
<1>1. CASE Normalized
  BY <1>0, <1>1, WaitingKept DEF Normalized, RowTypes, row
<1>2. ASSUME NEW st \in {"approved", "rejected"}, WebDecides(st) PROVE RowTypes'
  <2>1. waiting' \in [Kinds -> 0 .. MaxWaiting]
    BY <1>0, <1>2, WaitingKept DEF WebDecides, RowTypes
  <2>2. QED BY <1>2, <2>1 DEF WebDecides, RowTypes, States, Excuse
<1>3. CASE DraftJob
  <2>1. waiting' \in [Kinds -> 0 .. MaxWaiting]
    BY <1>0, <1>3, WaitingKept DEF DraftJob, Take
  <2>2. QED BY <1>3, <2>1, DrawExcuses DEF DraftJob, RowTypes, row
<1>4. CASE SendCard \/ StoreCard
  BY <1>4 DEF SendCard, StoreCard, RowTypes, row
<1>5. ASSUME NEW a \in Actors, EditCard(a) PROVE RowTypes'
  BY <1>5 DEF EditCard, RowTypes, row, Excuse
<1>6. CASE PublishJob
  <2>1. waiting' \in [Kinds -> 0 .. MaxWaiting]
    BY <1>0, <1>6, WaitingKept DEF PublishJob, Take
  <2>2. QED BY <1>6, <2>1 DEF PublishJob, RowTypes, States, Excuse
<1>7. ASSUME NEW st \in {"published", "rejected", "publish_failed"}, PublishOutcome(st) PROVE RowTypes'
  BY <1>7 DEF PublishOutcome, RowTypes, States, Excuse
<1>8. CASE Reload
  <2>1. excuses' \subseteq {"silent", "lost", "overlap"}
    BY <1>8, DrawExcuses DEF Reload, RowTypes, Excuse
  <2>2. QED BY <1>8, <2>1 DEF Reload, RowTypes, States
<1>9. CASE Stop
  <2>1. UNCHANGED waiting \/ Enqueue(task[Bot].kind)
    BY <1>9 DEF Stop
  <2>2. waiting' \in [Kinds -> 0 .. MaxWaiting]
    BY <2>1, Constants DEF RowTypes, Enqueue
  <2>3. Excuse("lost") \/ UNCHANGED excuses
    BY <1>9 DEF Stop
  <2>4. excuses' \subseteq {"silent", "lost", "overlap"}
    BY <2>3 DEF Excuse, RowTypes
  <2>5. state' \in States /\ stops' \in 0 .. MaxStops
    BY <1>0, <1>9 DEF Stop, RowTypes, row
  <2>6. QED BY <2>2, <2>4, <2>5 DEF RowTypes
<1>10. ASSUME NEW e \in Editors, NEW st \in {"approved", "rejected"}, Press(e, st) PROVE RowTypes'
  BY <1>10, DrawExcuses DEF Press, RowTypes, States
<1>11. ASSUME NEW e \in Editors, AnswerPress(e) PROVE RowTypes'
  <2>1. waiting' \in [Kinds -> 0 .. MaxWaiting]
    BY <1>0, <1>11, WaitingKept DEF AnswerPress, RowTypes
  <2>2. QED BY <1>11, <2>1 DEF AnswerPress, Redraw, RowTypes, row, Excuse
<1>12. CASE UNCHANGED vars
  BY <1>12 DEF vars, row, RowTypes
<1>13. QED BY <1>1, <1>2, <1>3, <1>4, <1>5, <1>6, <1>7, <1>8, <1>9, <1>10, <1>11, <1>12, Constants
           DEF Next, DraftStep, PublishStep, Callback

LEMMA FlagsKept == Flags /\ [Next]_vars => Flags'
<1> SUFFICES ASSUME Flags, [Next]_vars PROVE Flags'
  OBVIOUS
<1>1. CASE SendCard
  BY <1>1, Zenon DEF SendCard, Flags, row
<1>2. ASSUME NEW st, PublishOutcome(st) PROVE Flags'
  <2>1. hasMessage' \in BOOLEAN
    BY <1>2 DEF PublishOutcome
  <2>2. QED BY <1>2, <2>1, Zenon DEF PublishOutcome, Flags
<1>3. ASSUME UNCHANGED <<hasMessage, refused>> PROVE Flags'
  BY <1>3, Zenon DEF Flags
<1>4. QED BY <1>1, <1>2, <1>3 DEF Next, Normalized, WebDecides, DraftStep, DraftJob, StoreCard, EditCard,
              PublishStep, PublishJob, Reload, Stop, Callback, Press, AnswerPress, vars, row

-----------------------------------------------------------------------------
(* The cards.                                                              *)

Placed == CardTypes /\ Counts

\* Someone but the slot goes on, or the slot where no card is sent.
LEMMA PlacedKept ==
    ASSUME Placed, NEW a \in Actors, NEW x, Turns(a, x), UNCHANGED <<stored, shown, slips>>,
           x.card <= Len(shown), x.at = "edit" => x.card # 0,
           a = Bot => task[Bot].at # "store" /\ x.at # "store" /\ (x.at = "send" => stored = 0)
    PROVE  Placed'
<1>1. CardTypes'
  <2>1. /\ shown' \in Seq(States) /\ Len(shown) <= Len(shown') /\ Len(shown') <= MaxCards
        /\ stored' \in 0 .. Len(shown') /\ x.card <= Len(shown')
    BY LenProperties DEF Placed, CardTypes
  <2>2. QED BY <2>1, TypesKept DEF Placed
<1>2. task'[a] = x /\ \A b \in Actors \ {a} : task'[b] = task[b]
  BY TurnEffect DEF Placed, CardTypes
<1>3. Counts'
  <2>1. CASE a = Bot
    BY <1>2, <2>1 DEF Placed, Counts, At
  <2>2. CASE a # Bot
    BY <1>2, <2>2, Constants DEF Placed, Counts, At
  <2>3. QED BY <2>1, <2>2
<1>4. QED BY <1>1, <1>3 DEF Placed

LEMMA PlacedStays ==
    ASSUME Placed, UNCHANGED <<task, stored, shown, slips>>
    PROVE  Placed'
  BY DEF Placed, CardTypes, Counts, At

LEMMA CardsNumber ==
    ASSUME Placed
    PROVE  /\ Len(shown) \in Nat /\ DOMAIN shown = 1 .. Len(shown) /\ stored \in Nat
           /\ stored <= Len(shown) /\ \A a \in Actors : task[a].card \in 0 .. Len(shown)
           /\ \A a \in Actors : task[a] \in Task
<1>1. Len(shown) \in Nat /\ DOMAIN shown = 1 .. Len(shown)
  BY LenProperties DEF Placed, CardTypes
<1>2. ASSUME NEW a \in Actors PROVE task[a].card \in 0 .. Len(shown) /\ task[a] \in Task
  <2>1. task[a] \in Task /\ task[a].card <= Len(shown)
    BY DEF Placed, CardTypes
  <2>2. QED BY <1>1, <2>1, Constants DEF Task
<1>3. QED BY <1>1, <1>2 DEF Placed, CardTypes

LEMMA DrawPlaced ==
    ASSUME Placed, NEW a \in Actors, NEW stage \in {"answer", "send", "edit"},
           NEW kind \in Kinds, NEW st \in States, Draw(a, stage, kind, st),
           UNCHANGED <<stored, shown, slips>>,
           stage = "edit" => stored # 0,
           a = Bot => task[Bot].at # "store" /\ (stage = "send" => stored = 0)
    PROVE  Placed'
<1>1. PICK x \in Task : Turns(a, x) /\ x.at = stage /\ x.card = stored
  BY DrawTurns DEF Placed, Stages, Drawing
<1>2. QED BY <1>1, CardsNumber, PlacedKept

LEMMA FinishPlaced ==
    ASSUME Placed, NEW a \in Actors, Finish(a), UNCHANGED <<stored, shown, slips>>,
           a = Bot => task[Bot].at # "store"
    PROVE  Placed'
  BY FinishTurns, IdleTask, CardsNumber, PlacedKept

LEMMA MovePlaced ==
    ASSUME Placed, NEW a \in Actors, NEW stage \in Stages \ {"send", "store"},
           task' = [task EXCEPT ![a].at = stage], UNCHANGED <<stored, shown, slips>>,
           stage = "edit" => task[a].card # 0, a = Bot => task[Bot].at # "store"
    PROVE  Placed'
<1>1. PICK x \in Task : Turns(a, x) /\ x.at = stage /\ x.card = task[a].card
  BY MovesTurns DEF Placed
<1>2. QED BY <1>1, CardsNumber, PlacedKept

\* One more card.
LEMMA CardAppended ==
    ASSUME Placed, NEW v \in States, shown' = Append(shown, v), Len(shown) < MaxCards
    PROVE  /\ shown' \in Seq(States) /\ Len(shown') = Len(shown) + 1
           /\ Len(shown') <= MaxCards /\ shown'[Len(shown) + 1] = v
           /\ stored \in 0 .. Len(shown')
<1>1. shown \in Seq(States) /\ Len(shown) \in Nat
  BY CardsNumber DEF Placed, CardTypes
<1>2. shown' \in Seq(States) /\ Len(shown') = Len(shown) + 1 /\ shown'[Len(shown) + 1] = v
  BY <1>1
<1>3. QED BY <1>1, <1>2, CardsNumber, Constants

LEMMA SendPlaced == Placed /\ SendCard => Placed'
<1> SUFFICES ASSUME Placed, SendCard PROVE Placed'
  OBVIOUS
<1>1. /\ Bot \in Actors /\ task[Bot].at = "send" /\ Len(shown) < MaxCards /\ stored = 0
      /\ stored' = stored /\ task[Bot] \in Task /\ task[Bot].view \in States
      /\ Len(shown) \in Nat
  BY Constants, CardsNumber DEF SendCard, At, row, Placed, Counts, CardTypes, Task
<1>2. CASE /\ shown' = Append(shown, task[Bot].view)
           /\ task' = [task EXCEPT ![Bot].at = "store", ![Bot].card = Len(shown) + 1]
           /\ UNCHANGED slips
  <2> DEFINE x == [task[Bot] EXCEPT !.at = "store", !.card = Len(shown) + 1]
  <2>1. x \in Task /\ x.at = "store" /\ x.card = Len(shown) + 1 /\ Turns(Bot, x)
    <3>1. Len(shown) + 1 \in 0 .. MaxCards
      BY <1>1, Constants
    <3>2. x \in Task /\ x.at = "store" /\ x.card = Len(shown) + 1
      BY <1>1, <3>1 DEF Task, Stages, Drawing
    <3>3. task' = [task EXCEPT ![Bot] = x]
      BY <1>1, <1>2 DEF Placed, CardTypes
    <3>4. QED BY <3>2, <3>3 DEF Turns
  <2> HIDE DEF x
  <2>2. /\ shown' \in Seq(States) /\ Len(shown') = Len(shown) + 1 /\ Len(shown') <= MaxCards
        /\ stored \in 0 .. Len(shown')
    BY <1>1, <1>2, CardAppended
  <2>3. CardTypes'
    BY <1>1, <2>1, <2>2, TypesKept DEF Placed
  <2>4. task'[Bot] = x
    BY <1>1, <2>1, TurnEffect DEF Placed, CardTypes
  <2>5. Counts'
    BY <1>1, <1>2, <2>1, <2>2, <2>4 DEF Placed, Counts, At
  <2>6. QED BY <2>3, <2>5 DEF Placed
<1>3. CASE Finish(Bot) /\ UNCHANGED <<shown, slips>>
  BY <1>1, <1>3, FinishPlaced
<1>4. CASE Finish(Bot) /\ shown' = Append(shown, task[Bot].view) /\ slips' = slips + 1
  <2>1. /\ shown' \in Seq(States) /\ Len(shown') = Len(shown) + 1 /\ Len(shown') <= MaxCards
        /\ stored \in 0 .. Len(shown')
    BY <1>1, <1>4, CardAppended
  <2>2. CardTypes'
    BY <1>1, <1>4, <2>1, FinishTurns, IdleTask, TypesKept DEF Placed
  <2>3. task'[Bot] = Idle
    BY <1>1, <1>4, FinishTurns, TurnEffect DEF Placed, CardTypes
  <2>4. Counts'
    BY <1>1, <1>4, <2>1, <2>3, IdleTask DEF Placed, Counts, At
  <2>5. QED BY <2>2, <2>4 DEF Placed
<1>5. QED BY <1>2, <1>3, <1>4 DEF SendCard

LEMMA StorePlaced == Placed /\ StoreCard => Placed'
<1> SUFFICES ASSUME Placed, StoreCard PROVE Placed'
  OBVIOUS
<1>1. /\ Bot \in Actors /\ task[Bot].at = "store" /\ Turns(Bot, Idle) /\ UNCHANGED shown
      /\ stored = 0 /\ task[Bot].card \in 1 .. Len(shown) /\ Len(shown) \in Nat
      /\ slips \in Nat /\ Len(shown) = slips + 1
  BY Constants, CardsNumber, FinishTurns DEF StoreCard, At, Placed, Counts
<1>2. task'[Bot] = Idle
  BY <1>1, TurnEffect DEF Placed, CardTypes
<1>3. /\ stored' \in 0 .. Len(shown')
      /\ (stored' # 0 /\ slips' = slips) \/ (stored' = 0 /\ slips' = slips + 1)
  <2>1. CASE stored' = task[Bot].card /\ UNCHANGED slips
    BY <1>1, <2>1
  <2>2. CASE slips' = slips + 1 /\ UNCHANGED stored
    BY <1>1, <2>2
  <2>3. QED BY <2>1, <2>2 DEF StoreCard
<1>4. CardTypes'
  <2>1. shown' \in Seq(States) /\ Len(shown') <= MaxCards /\ Len(shown) <= Len(shown')
    BY <1>1 DEF Placed, CardTypes
  <2>2. QED BY <1>1, <1>3, <2>1, IdleTask, TypesKept DEF Placed
<1>5. Counts'
  BY <1>1, <1>2, <1>3, IdleTask DEF Counts, At
<1>6. QED BY <1>4, <1>5 DEF Placed

LEMMA EditPlaced ==
    ASSUME Placed, NEW a \in Actors, EditCard(a)
    PROVE  Placed'
<1>1. task[a].at = "edit" /\ Finish(a) /\ UNCHANGED <<stored, slips>>
  BY DEF EditCard, At, row
<1>2. CASE UNCHANGED shown
  BY <1>1, <1>2, FinishPlaced
<1>3. CASE shown' = [shown EXCEPT ![task[a].card] = task[a].view]
  <2>1. task[a].card \in 1 .. Len(shown) /\ task[a].view \in States /\ shown \in Seq(States)
    BY <1>1, CardsNumber DEF Placed, CardTypes, Task
  <2>2. shown' \in Seq(States) /\ Len(shown') = Len(shown)
    BY <1>3, <2>1, ExceptSeq
  <2>3. Turns(a, Idle)
    BY <1>1, FinishTurns
  <2>4. CardTypes'
    BY <1>1, <2>2, <2>3, CardsNumber, IdleTask, TypesKept DEF Placed, CardTypes
  <2>5. task'[a] = Idle /\ \A b \in Actors \ {a} : task'[b] = task[b]
    BY <2>3, TurnEffect DEF Placed, CardTypes
  <2>6. Counts'
    <3>1. CASE a = Bot
      BY <1>1, <2>2, <2>5, <3>1, IdleTask DEF Placed, Counts, At
    <3>2. CASE a # Bot
      BY <1>1, <2>2, <2>5, <3>2, Constants DEF Placed, Counts, At
    <3>3. QED BY <3>1, <3>2
  <2>7. QED BY <2>4, <2>6 DEF Placed
<1>4. QED BY <1>2, <1>3 DEF EditCard

LEMMA StopPlaced == Placed /\ Stop => Placed'
<1> SUFFICES ASSUME Placed, Stop PROVE Placed'
  OBVIOUS
<1>1. /\ task' = [a \in Actors |-> Idle] /\ UNCHANGED <<stored, shown>>
      /\ slips' = IF task[Bot].at = "store" THEN slips + 1 ELSE slips
  BY DEF Stop, At, row
<1>2. \A a \in Actors : task'[a] = Idle
  BY <1>1
<1>3. CardTypes'
  BY <1>1, <1>2, IdleTask, CardsNumber DEF Placed, CardTypes
<1>4. Counts'
  BY <1>1, <1>2, IdleTask, Constants DEF Placed, Counts, At
<1>5. QED BY <1>3, <1>4 DEF Placed

-----------------------------------------------------------------------------
(* What a card tells.                                                      *)

Draws(a) == task[a].at \in Drawing

(* While nothing excuses a card that is wrong, at most one actor holds a   *)
(* text; it tells the state that the row is in, and is for the card that   *)
(* is stored, or for a new one; and if nobody does, that card tells it.    *)
Truth ==
    excuses = {} =>
        /\ \A a, b \in Actors : Draws(a) /\ Draws(b) => a = b
        /\ \A a \in Actors : Draws(a) =>
              /\ task[a].view = state
              /\ task[a].at # "store" => task[a].card = stored
              /\ task[a].at = "store" => shown[task[a].card] = state
        /\ stored # 0 /\ (\A a \in Actors : ~Draws(a)) => shown[stored] = state

TruthInv == Placed /\ RowTypes /\ Truth

LEMMA Excused == ASSUME NEW e, Excuse(e) PROVE Truth'
  BY DEF Excuse, Truth

LEMMA TruthKept ==
    ASSUME Truth, UNCHANGED <<state, stored, shown, excuses>>,
           \A a \in Actors : \/ task'[a] = task[a]
                             \/ task[a].at \notin Drawing /\ task'[a].at \notin Drawing
    PROVE  Truth'
  BY DEF Truth, Draws

\* Who makes a text makes it from the row.
LEMMA TruthDrawn ==
    ASSUME TruthInv, NEW a \in Actors, NEW stage \in {"answer", "send", "edit"},
           NEW kind \in Kinds, NEW st \in States, Draw(a, stage, kind, st),
           state' = st, UNCHANGED stored
    PROVE  Truth'
<1>1. PICK x \in Task :
          /\ Turns(a, x) /\ x.at = stage /\ x.view = st /\ x.card = stored
          /\ excuses' = {} => \A b \in Actors \ {a} : task[b].at \notin Drawing
  BY DrawTurns DEF TruthInv, Placed, Stages, Drawing
<1>2. task'[a] = x /\ \A b \in Actors \ {a} : task'[b] = task[b]
  BY <1>1, TurnEffect DEF TruthInv, Placed, CardTypes
<1>3. stage \in Drawing /\ stage # "store"
  BY DEF Drawing
<1>4. excuses' = {} => \A b \in Actors : task'[b].at \in Drawing <=> b = a
  BY <1>1, <1>2, <1>3
<1>5. QED BY <1>1, <1>2, <1>3, <1>4 DEF Truth, Draws

LEMMA SendTruth == TruthInv /\ SendCard => Truth'
<1> SUFFICES ASSUME TruthInv, SendCard, excuses' = {} PROVE Truth'
  BY DEF Truth
<1>1. /\ Bot \in Actors /\ task[Bot].at = "send" /\ Len(shown) < MaxCards /\ stored = 0
      /\ stored' = stored /\ state' = state /\ excuses = {} /\ task[Bot] \in Task
      /\ task[Bot].view \in States /\ Len(shown) \in Nat /\ task \in [Actors -> Task]
  BY Constants, CardsNumber DEF SendCard, At, row, TruthInv, Placed, Counts, CardTypes, Task
<1>2. \A b \in Actors \ {Bot} : task[b].at \notin Drawing
  BY <1>1 DEF TruthInv, Truth, Draws, Drawing
<1>3. task[Bot].view = state
  BY <1>1 DEF TruthInv, Truth, Draws, Drawing
<1>4. CASE /\ shown' = Append(shown, task[Bot].view)
           /\ task' = [task EXCEPT ![Bot].at = "store", ![Bot].card = Len(shown) + 1]
  <2>1. shown'[Len(shown) + 1] = state
    BY <1>1, <1>3, <1>4, CardAppended DEF TruthInv
  <2>2. /\ task'[Bot].at = "store" /\ task'[Bot].card = Len(shown) + 1
        /\ task'[Bot].view = task[Bot].view
        /\ \A b \in Actors \ {Bot} : task'[b] = task[b]
    BY <1>1, <1>4 DEF Task
  <2>3. \A b \in Actors : task'[b].at \in Drawing <=> b = Bot
    BY <1>2, <2>2 DEF Drawing
  <2>4. QED BY <1>1, <1>3, <2>1, <2>2, <2>3 DEF Truth, Draws
<1>5. CASE Finish(Bot)
  <2>1. task'[Bot] = Idle /\ \A b \in Actors \ {Bot} : task'[b] = task[b]
    BY <1>1, <1>5, FinishTurns, TurnEffect
  <2>2. \A b \in Actors : task'[b].at \notin Drawing
    BY <1>2, <2>1, IdleTask DEF Drawing
  <2>3. QED BY <1>1, <2>2 DEF Truth, Draws
<1>6. QED BY <1>4, <1>5 DEF SendCard

LEMMA StoreTruth == TruthInv /\ StoreCard => Truth'
<1> SUFFICES ASSUME TruthInv, StoreCard, excuses' = {} PROVE Truth'
  BY DEF Truth
<1>1. /\ Bot \in Actors /\ task[Bot].at = "store" /\ stored = 0 /\ Finish(Bot)
      /\ state' = state /\ shown' = shown /\ excuses = {}
  BY Constants DEF StoreCard, At, TruthInv, Placed, Counts
<1>2. shown[task[Bot].card] = state /\ \A b \in Actors \ {Bot} : task[b].at \notin Drawing
  BY <1>1 DEF TruthInv, Truth, Draws, Drawing
<1>3. task'[Bot] = Idle /\ \A b \in Actors \ {Bot} : task'[b] = task[b]
  BY <1>1, FinishTurns, TurnEffect DEF TruthInv, Placed, CardTypes
<1>4. \A b \in Actors : task'[b].at \notin Drawing
  BY <1>2, <1>3, IdleTask DEF Drawing
<1>5. stored' = task[Bot].card \/ stored' = 0
  BY <1>1 DEF StoreCard
<1>6. QED BY <1>1, <1>2, <1>4, <1>5 DEF Truth, Draws

LEMMA EditTruth ==
    ASSUME TruthInv, NEW a \in Actors, EditCard(a)
    PROVE  Truth'
<1> SUFFICES ASSUME excuses' = {} PROVE Truth'
  BY DEF Truth
<1>1. /\ task[a].at = "edit" /\ Finish(a) /\ stored' = stored /\ state' = state
      /\ shown' = [shown EXCEPT ![task[a].card] = task[a].view] /\ excuses = {}
  BY DEF EditCard, At, row, Excuse
<1>2. task[a].view = state /\ task[a].card = stored
      /\ \A b \in Actors \ {a} : task[b].at \notin Drawing
  BY <1>1 DEF TruthInv, Truth, Draws, Drawing
<1>3. task'[a] = Idle /\ \A b \in Actors \ {a} : task'[b] = task[b]
  BY <1>1, FinishTurns, TurnEffect DEF TruthInv, Placed, CardTypes
<1>4. \A b \in Actors : task'[b].at \notin Drawing
  BY <1>2, <1>3, IdleTask DEF Drawing
<1>5. stored # 0 => shown'[stored] = state
  <2>1. stored \in 0 .. Len(shown) /\ DOMAIN shown = 1 .. Len(shown)
    BY CardsNumber DEF TruthInv, Placed, CardTypes
  <2>2. QED BY <1>1, <1>2, <2>1, CardsNumber DEF TruthInv
<1>6. QED BY <1>1, <1>4, <1>5 DEF Truth, Draws

\* Of a callback after its commit.
LEMMA AnswerStep ==
    ASSUME TruthInv, NEW e \in Editors, AnswerPress(e)
    PROVE  Placed' /\ Truth'
<1>1. e \in Actors /\ e # Bot /\ task[e].at = "answer" /\ UNCHANGED <<state, stored, shown, slips>>
  BY Constants DEF AnswerPress, At, row
<1>2. CASE Finish(e) /\ Excuse("lost")
  BY <1>1, <1>2, FinishPlaced, Excused DEF TruthInv
<1>3. CASE task' = [task EXCEPT ![e].at = "edit"] /\ UNCHANGED excuses /\ task[e].card # 0
  <2>1. Placed'
    BY <1>1, <1>3, MovePlaced DEF TruthInv, Stages, Drawing
  <2>2. PICK x \in Task : /\ Turns(e, x) /\ x.at = "edit" /\ x.view = task[e].view
                          /\ x.card = task[e].card
    BY <1>1, <1>3, MovesTurns DEF TruthInv, Placed, Stages, Drawing
  <2>3. task'[e] = x /\ \A b \in Actors \ {e} : task'[b] = task[b]
    BY <1>1, <2>2, TurnEffect DEF TruthInv, Placed, CardTypes
  <2>4. \A b \in Actors : (task'[b].at \in Drawing <=> task[b].at \in Drawing)
    BY <1>1, <2>2, <2>3 DEF Drawing
  <2>5. Truth'
    BY <1>1, <1>3, <2>2, <2>3, <2>4 DEF TruthInv, Truth, Draws
  <2>6. QED BY <2>1, <2>5
<1>4. QED BY <1>2, <1>3 DEF AnswerPress, Redraw

LEMMA NextTruth == TruthInv /\ [Next]_vars => Placed' /\ Truth'
<1> SUFFICES ASSUME TruthInv, [Next]_vars PROVE Placed' /\ Truth'
  OBVIOUS
<1>0. /\ Bot \in Actors /\ Editors \subseteq Actors /\ Bot \notin Editors
      /\ state \in States /\ {"draft", "publish"} = Kinds /\ {"approved", "rejected"} \subseteq States
      /\ Placed /\ Truth
  BY Constants DEF TruthInv, RowTypes, Kinds, States
<1>1. CASE Normalized \/ UNCHANGED vars
  <2>1. /\ UNCHANGED <<task, stored, shown, slips>> /\ UNCHANGED <<state, stored, shown, excuses>>
        /\ \A a \in Actors : task'[a] = task[a]
    BY <1>1 DEF Normalized, vars, row
  <2>2. QED BY <1>0, <2>1, PlacedStays, TruthKept
<1>2. ASSUME NEW st, WebDecides(st) PROVE Placed' /\ Truth'
  BY <1>0, <1>2, PlacedStays, Excused DEF WebDecides
<1>3. CASE DraftJob
  <2>1. task[Bot].at = "idle" /\ UNCHANGED <<state, stored, shown, slips>>
        /\ Draw(Bot, IF stored = 0 THEN "send" ELSE "edit", "draft", state)
    BY <1>3 DEF DraftJob, Take, At, row
  <2>2. CASE stored = 0
    <3>1. Draw(Bot, "send", "draft", state)
      BY <2>1, <2>2
    <3>2. QED BY <1>0, <2>1, <2>2, <3>1, DrawPlaced, TruthDrawn
  <2>3. CASE stored # 0
    <3>1. Draw(Bot, "edit", "draft", state)
      BY <2>1, <2>3
    <3>2. QED BY <1>0, <2>1, <2>3, <3>1, DrawPlaced, TruthDrawn
  <2>4. QED BY <2>2, <2>3
<1>4. CASE SendCard \/ StoreCard
  BY <1>0, <1>4, SendPlaced, StorePlaced, SendTruth, StoreTruth
<1>5. ASSUME NEW a \in Actors, EditCard(a) PROVE Placed' /\ Truth'
  BY <1>0, <1>5, EditPlaced, EditTruth
<1>6. CASE PublishJob
  <2>1. task[Bot].at = "idle" /\ UNCHANGED <<stored, shown, slips>>
    BY <1>6 DEF PublishJob, Take, At
  <2>2. CASE UNCHANGED <<state, task, excuses>>
    <3>1. /\ UNCHANGED <<task, stored, shown, slips>> /\ UNCHANGED <<state, stored, shown, excuses>>
          /\ \A a \in Actors : task'[a] = task[a]
      BY <2>1, <2>2
    <3>2. QED BY <1>0, <3>1, PlacedStays, TruthKept
  <2>3. CASE task' = [task EXCEPT ![Bot].at = "claimed", ![Bot].kind = "publish"] /\ Excuse("silent")
    <3> DEFINE x == [task[Bot] EXCEPT !.at = "claimed", !.kind = "publish"]
    <3>1. task[Bot] \in Task /\ task \in [Actors -> Task]
      BY <1>0 DEF Placed, CardTypes
    <3>2. x \in Task /\ x.at = "claimed" /\ x.card = task[Bot].card
      BY <1>0, <3>1 DEF Task, Stages
    <3>3. Turns(Bot, x)
      BY <1>0, <2>3, <3>1, <3>2 DEF Turns
    <3> HIDE DEF x
    <3>4. Placed'
      BY <1>0, <2>1, <3>2, <3>3, CardsNumber, PlacedKept
    <3>5. QED BY <2>3, <3>4, Excused
  <2>4. QED BY <1>6, <2>2, <2>3 DEF PublishJob
<1>7. ASSUME NEW st, PublishOutcome(st) PROVE Placed' /\ Truth'
  <2>1. /\ task[Bot].at = "claimed" /\ UNCHANGED <<stored, shown, slips>> /\ Excuse("silent")
        /\ task' = [task EXCEPT ![Bot].at = "marked"] \/ Finish(Bot)
    BY <1>7 DEF PublishOutcome, At
  <2>2. Placed'
    BY <1>0, <2>1, FinishPlaced, MovePlaced DEF Stages, Drawing
  <2>3. QED BY <2>1, <2>2, Excused
<1>8. CASE Reload
  <2>1. task[Bot].at = "marked" /\ UNCHANGED <<stored, shown, slips>>
    BY <1>8 DEF Reload, At
  <2>2. CASE stored # 0 /\ Draw(Bot, "edit", "publish", state) /\ UNCHANGED state
    BY <1>0, <2>1, <2>2, DrawPlaced, TruthDrawn
  <2>3. CASE Finish(Bot) /\ UNCHANGED <<excuses, state>>
    <3>1. Placed'
      BY <1>0, <2>1, <2>3, FinishPlaced
    <3>2. task'[Bot] = Idle /\ \A b \in Actors \ {Bot} : task'[b] = task[b]
      BY <1>0, <2>3, FinishTurns, TurnEffect DEF Placed, CardTypes
    <3>3. Truth'
      <4>1. UNCHANGED <<state, stored, shown, excuses>>
        BY <2>1, <2>3
      <4>2. task[Bot].at \notin Drawing /\ task'[Bot].at \notin Drawing
        BY <2>1, <3>2, IdleTask DEF Drawing
      <4>3. QED BY <1>0, <3>2, <4>1, <4>2, TruthKept
    <3>4. QED BY <3>1, <3>3
  <2>4. CASE Finish(Bot) /\ Excuse("silent")
    BY <1>0, <2>1, <2>4, FinishPlaced, Excused
  <2>5. QED BY <1>8, <2>2, <2>3, <2>4 DEF Reload
<1>9. CASE Stop
  <2>1. UNCHANGED <<state, stored, shown>> /\ \A a \in Actors : task'[a] = Idle
    BY <1>9 DEF Stop, row
  <2>2. CASE Excuse("lost")
    BY <1>0, <1>9, <2>2, StopPlaced, Excused
  <2>3. CASE UNCHANGED excuses /\ \A a \in Actors : task[a].at \notin Drawing
    BY <1>0, <1>9, <2>1, <2>3, StopPlaced, IdleTask, TruthKept DEF Drawing
  <2>4. QED BY <1>9, <2>2, <2>3 DEF Stop
<1>10. ASSUME NEW e \in Editors, NEW st \in {"approved", "rejected"}, Press(e, st) PROVE Placed' /\ Truth'
  BY <1>0, <1>10, DrawPlaced, TruthDrawn DEF Press, Decided
<1>11. ASSUME NEW e \in Editors, AnswerPress(e) PROVE Placed' /\ Truth'
  BY <1>11, AnswerStep
<1>12. QED BY <1>0, <1>1, <1>2, <1>3, <1>4, <1>5, <1>6, <1>7, <1>8, <1>9, <1>10, <1>11
           DEF Next, DraftStep, PublishStep, Callback

LEMMA CardsInvariant == Spec => [](CardInv /\ Truth)
<1>1. Init => CardInv /\ Truth
  <2>1. Init => Truth
    BY DEF Init, Truth, Draws, Drawing, Idle
  <2>2. QED BY <2>1, InitCards
<1>2. CardInv /\ Truth /\ [Next]_vars => (CardInv /\ Truth)'
  <2>1. CardInv /\ Truth => TruthInv /\ Flags
    BY DEF CardInv, TruthInv, Placed
  <2>2. Placed' /\ RowTypes' /\ Flags' => CardInv'
    BY DEF CardInv, Placed
  <2>3. TruthInv => RowTypes
    BY DEF TruthInv
  <2>4. QED BY <2>1, <2>2, <2>3, NextTruth, RowTypesKept, FlagsKept
<1>3. QED BY <1>1, <1>2, PTL DEF Spec

(* Rows, cards and tasks are of the shapes the code takes them for: what   *)
(* an actor is about to edit is a card of the group (EditCard).            *)
THEOREM CardsTypes == Spec => []TypeOK
  BY CardsInvariant, InvTypes, PTL

(* For any number of callbacks, jobs and stops, a second card needs a      *)
(* first whose id was lost (post_draft).                                   *)
THEOREM NoSecondCard == Spec => []OneCard
<1>1. CardInv => OneCard
  BY LenProperties DEF CardInv, CardTypes, Counts, OneCard
<1>2. QED BY <1>1, CardsInvariant, PTL

(* For any number of callbacks at once, a card that nobody is at work on   *)
(* tells the state of the row, unless the row was changed by someone who   *)
(* redraws nothing, or a redraw was lost or overlapped another one         *)
(* (cb_approve, cb_reject, _edit_draft_card, post_draft).                  *)
THEOREM TheCardTellsTheRow == Spec => []CardTellsTheRow
<1>1. Truth => CardTellsTheRow
  BY DEF Truth, Draws, CardTellsTheRow
<1>2. QED BY <1>1, CardsInvariant, PTL
=============================================================================
