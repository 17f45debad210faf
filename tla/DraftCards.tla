----------------------------- MODULE DraftCards -----------------------------
(***************************************************************************)
(* The card of one post in the editors' group: the post_draft job that     *)
(* sends or redraws it (bot/draft.py, bot/cards.py), the callbacks of its  *)
(* buttons (bot/handlers/callbacks.py) and the redraw after a publication  *)
(* (bot/publisher.py). Each of them makes the text from the row as it is   *)
(* at one moment and hands it to Telegram at a later one. What publishing  *)
(* does besides is in Publisher.                                           *)
(***************************************************************************)
EXTENDS Naturals, Sequences

CONSTANTS
    Bot,            \* the slot for jobs: max_concurrent_publishes is 1
    Editors,        \* callbacks that may run at once
    MaxWaiting,     \* bound of the jobs of a kind that wait,
    MaxCards,       \* of the cards sent
    MaxStops,       \* and of the times the bot stops
    Faults          \* "telegram", "enqueue", "db": a call, an enqueue or a statement raises

ASSUME DraftCardsAssumption == /\ Bot \notin Editors
                               /\ MaxWaiting \in Nat /\ MaxCards \in Nat /\ MaxStops \in Nat
                               /\ Faults \subseteq {"telegram", "enqueue", "db"}

VARIABLES
    state,      \* of the row, which normalize has filled
    hasMessage, \* published_message_id
    stored,     \* draft_message_id, or 0
    shown,      \* for each card in the group, the state it tells
    waiting,    \* jobs in the queue, by kind
    task,       \* what the job and the callbacks are doing
    stops,
    excuses,    \* history: why the card may differ from the row,
    slips,      \* cards whose id was not stored,
    refused     \* and whether Telegram has refused one

row == <<state, hasMessage, stored>>
vars == <<row, shown, waiting, task, stops, excuses, slips, refused>>

Actors == {Bot} \cup Editors
States == {"pending", "approved", "publishing", "published", "rejected", "publish_failed"}
Kinds == {"draft", "publish"}

\* The points an actor has reached. From "answer" to "edit" it holds a text.
Drawing == {"answer", "send", "store", "edit"}
Stages == Drawing \cup {"idle", "claimed", "marked"}

Task == [at: Stages, kind: Kinds, view: States, card: 0 .. MaxCards]
Idle == [at |-> "idle", kind |-> "draft", view |-> "pending", card |-> 0]

TypeOK == /\ state \in States /\ hasMessage \in BOOLEAN
          /\ stored \in 0 .. Len(shown)
          /\ shown \in Seq(States) /\ Len(shown) <= MaxCards
          /\ waiting \in [Kinds -> 0 .. MaxWaiting]
          /\ task \in [Actors -> Task]
          /\ \A a \in Actors : task[a].at = "edit" => task[a].card \in DOMAIN shown
          /\ stops \in 0 .. MaxStops
          /\ excuses \subseteq {"silent", "lost", "overlap"}
          /\ slips \in 0 .. MaxCards /\ refused \in BOOLEAN

Init == /\ state = "pending" /\ hasMessage = FALSE /\ stored = 0
        /\ shown = <<>>
        /\ waiting = [k \in Kinds |-> 0]
        /\ task = [a \in Actors |-> Idle]
        /\ stops = 0 /\ excuses = {} /\ slips = 0 /\ refused = FALSE

At(a, stage) == task[a].at = stage

\* The text is made from the row as it then is, under the id it then has.
Draw(a, stage, kind, st) ==
    /\ task' = [task EXCEPT ![a] = [at |-> stage, kind |-> kind, view |-> st, card |-> stored]]
    /\ excuses' = {e \in {"overlap"} : \E b \in Actors \ {a} : task[b].at \in Drawing}

Finish(a) == task' = [task EXCEPT ![a] = Idle]

Excuse(e) == excuses' = excuses \cup {e}

\* Jobs are counted up to the bound: one more that waits makes no difference.
Enqueue(kind) == waiting' = [waiting EXCEPT ![kind] = IF @ < MaxWaiting THEN @ + 1 ELSE @]

Take(kind) == /\ At(Bot, "idle")
              /\ waiting[kind] > 0
              /\ waiting' = [waiting EXCEPT ![kind] = @ - 1]
-----------------------------------------------------------------------------
\* normalize ends, for the first time or again (an ARQ retry, an orphan).
Normalized == /\ Enqueue("draft")
              /\ UNCHANGED <<row, shown, task, stops, excuses, slips, refused>>

\* The decision endpoints change the row and leave the card alone. A scheduled
\* post is to the card what an approved one is.
WebDecides(st) == /\ state' = st
                  /\ IF st = "rejected" THEN UNCHANGED waiting ELSE Enqueue("publish")
                  /\ Excuse("silent")
                  /\ UNCHANGED <<hasMessage, stored, shown, task, stops, slips, refused>>

\* (mutant) a post that somebody has decided about needs no card
DraftIfPending == /\ Take("draft")
                  /\ IF state = "pending" THEN Draw(Bot, IF stored = 0 THEN "send" ELSE "edit", "draft", state)
                     ELSE UNCHANGED <<task, excuses>>
                  /\ UNCHANGED <<row, shown, stops, slips, refused>>

DraftJob == /\ Take("draft")
            /\ Draw(Bot, IF stored = 0 THEN "send" ELSE "edit", "draft", state)
            /\ UNCHANGED <<row, shown, stops, slips, refused>>

\* send_message, which may raise although the message was delivered.
SendCard ==
    /\ At(Bot, "send") /\ Len(shown) < MaxCards
    /\ \/ /\ shown' = Append(shown, task[Bot].view)
          /\ task' = [task EXCEPT ![Bot].at = "store", ![Bot].card = Len(shown) + 1]
          /\ UNCHANGED <<slips, refused>>
       \/ /\ "telegram" \in Faults
          /\ Finish(Bot)
          /\ refused' = TRUE
          /\ \/ UNCHANGED <<shown, slips>>
             \/ shown' = Append(shown, task[Bot].view) /\ slips' = slips + 1
    /\ UNCHANGED <<row, waiting, stops, excuses>>

\* (mutant) the second session is not committed
StoreNothing == /\ At(Bot, "store")
                /\ Finish(Bot)
                /\ UNCHANGED <<row, shown, waiting, stops, excuses, slips, refused>>

StoreCard == /\ At(Bot, "store")
             /\ Finish(Bot)
             /\ \/ stored' = task[Bot].card /\ UNCHANGED slips
                \/ "db" \in Faults /\ slips' = slips + 1 /\ UNCHANGED stored
             /\ UNCHANGED <<state, hasMessage, shown, waiting, stops, excuses, refused>>

\* edit_message_text by whoever holds a text; TelegramAPIError is logged.
EditCard(a) == /\ At(a, "edit")
               /\ Finish(a)
               /\ \/ /\ shown' = [shown EXCEPT ![task[a].card] = task[a].view]
                     /\ UNCHANGED excuses
                  \/ "telegram" \in Faults /\ Excuse("lost") /\ UNCHANGED shown
               /\ UNCHANGED <<row, waiting, stops, slips, refused>>
-----------------------------------------------------------------------------
\* (mutant) the text is made before the row changes
DecidedText(st) == state

\* build_draft_payload after the commit
Decided(st) == st

\* cb_approve and cb_reject up to the commit and the text. The press may be
\* older than the card's last redraw, and of a card whose id was not stored.
Press(e, st) == /\ At(e, "idle") /\ shown # <<>>
                /\ state' = st
                /\ Draw(e, "answer", "publish", Decided(st))
                /\ UNCHANGED <<hasMessage, stored, shown, waiting, stops, slips, refused>>

\* (mutant) a post without a card is not looked for
RedrawAnyway(e) == task' = [task EXCEPT ![e].at = "edit"] /\ UNCHANGED excuses

\* What is left to do for a callback once it need not enqueue anything.
Redraw(e) == IF task[e].card = 0 THEN Finish(e) /\ Excuse("lost")
             ELSE task' = [task EXCEPT ![e].at = "edit"] /\ UNCHANGED excuses

\* callback.answer and, for an approval, enqueue_publish: where one of them raises
\* the callback ends.
AnswerPress(e) ==
    /\ At(e, "answer")
    /\ \/ /\ IF task[e].view = "rejected" THEN UNCHANGED waiting ELSE Enqueue("publish")
          /\ Redraw(e)
       \/ /\ "telegram" \in Faults \/ ("enqueue" \in Faults /\ task[e].view # "rejected")
          /\ Finish(e) /\ Excuse("lost") /\ UNCHANGED waiting
    /\ UNCHANGED <<row, shown, stops, slips, refused>>
-----------------------------------------------------------------------------
SkipStates == {"rejected", "published", "publishing"}

\* The claim of a publish job, or its return where there is nothing to do.
PublishJob ==
    /\ Take("publish")
    /\ IF hasMessage \/ state \in SkipStates THEN UNCHANGED <<state, task, excuses>>
       ELSE /\ state' = "publishing"
            /\ task' = [task EXCEPT ![Bot].at = "claimed", ![Bot].kind = "publish"]
            /\ Excuse("silent")
    /\ UNCHANGED <<hasMessage, stored, shown, stops, slips, refused>>

\* The post was sent, is a duplicate, or the job raised: no card is redrawn for
\* the last two.
PublishOutcome(st) ==
    /\ At(Bot, "claimed")
    /\ st = "publish_failed" => Faults \cap {"telegram", "db"} # {}
    /\ state' = st
    /\ hasMessage' = (st = "published")
    /\ IF st = "published" THEN task' = [task EXCEPT ![Bot].at = "marked"] ELSE Finish(Bot)
    /\ Excuse("silent")
    /\ UNCHANGED <<stored, shown, waiting, stops, slips, refused>>

\* The row is read again for _edit_draft_card, or the job fails after all.
Reload ==
    /\ At(Bot, "marked")
    /\ \/ /\ IF stored # 0 THEN Draw(Bot, "edit", "publish", state)
             ELSE Finish(Bot) /\ UNCHANGED excuses
          /\ UNCHANGED state
       \/ "db" \in Faults /\ state' = "publish_failed" /\ Finish(Bot) /\ Excuse("silent")
    /\ UNCHANGED <<hasMessage, stored, shown, waiting, stops, slips, refused>>

\* The bot stops and starts again; ARQ runs the job it had in hand once more,
\* a press is not repeated.
Stop == /\ stops < MaxStops
        /\ stops' = stops + 1
        /\ task' = [a \in Actors |-> Idle]
        /\ IF At(Bot, "idle") THEN UNCHANGED waiting ELSE Enqueue(task[Bot].kind)
        /\ slips' = IF At(Bot, "store") THEN slips + 1 ELSE slips
        /\ IF \E a \in Actors : task[a].at \in Drawing THEN Excuse("lost") ELSE UNCHANGED excuses
        /\ UNCHANGED <<row, shown, refused>>

Callback(e) == \/ \E st \in {"approved", "rejected"} : Press(e, st)
               \/ AnswerPress(e) \/ EditCard(e)

DraftStep == DraftJob \/ SendCard \/ StoreCard \/ EditCard(Bot)

PublishStep == \/ PublishJob \/ Reload
               \/ \E st \in {"published", "rejected", "publish_failed"} : PublishOutcome(st)

Next == \/ Normalized \/ DraftStep \/ PublishStep \/ Stop
        \/ \E st \in {"approved", "rejected"} : WebDecides(st)
        \/ \E e \in Editors : Callback(e)

\* The slot goes on with what it has in hand, and takes a draft job in its turn.
Spec == /\ Init /\ [][Next]_vars
        /\ SF_vars(DraftStep) /\ WF_vars(PublishStep)
-----------------------------------------------------------------------------
(* A second card needs a first whose id was lost (post_draft stores the id  *)
(* after it has sent the card).                                             *)
OneCard == Len(shown) <= slips + 1

(* Once nobody is at work on the card it tells the state the row is in,     *)
(* unless the row was changed by someone who redraws nothing, the redraw    *)
(* was refused or lost, or it was in flight together with another one       *)
(* (cb_approve, cb_reject, _edit_draft_card, post_draft).                   *)
CardTellsTheRow ==
    (\A a \in Actors : task[a].at \notin Drawing) /\ stored # 0 /\ excuses = {}
        => shown[stored] = state

(* A normalized post of a queue channel gets its card in whatever state it   *)
(* is by then, through stops, unless Telegram refuses the card (post_draft). *)
DraftAppears == waiting["draft"] > 0 ~> shown # <<>> \/ refused
=============================================================================
