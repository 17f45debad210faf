--------------------------- MODULE OncePerWindow ---------------------------
(***************************************************************************)
(* What the reservation of content promises, and all an editor needs to    *)
(* know of it: at any time at most one sender is trying to send a content, *)
(* and nobody starts while an acknowledged send of the same content is     *)
(* still within the window. A try may end without an answer at any time.   *)
(***************************************************************************)
EXTENDS Naturals

CONSTANTS Senders, Contents, Window

VARIABLES
    senders,    \* who is trying to send each content
    acks,       \* the time of the last acknowledged send, 0 if there is none
    clock

vars == <<senders, acks, clock>>

Init == /\ senders = [c \in Contents |-> {}]
        /\ acks = [c \in Contents |-> 0]
        /\ clock = 1

Start(s, c) == /\ senders[c] = {}
               /\ acks[c] = 0 \/ clock - acks[c] > Window
               /\ senders' = [senders EXCEPT ![c] = {s}]
               /\ UNCHANGED <<acks, clock>>

\* The window is counted from the start of the try, at most a tick ago.
Acknowledge(c, started) ==
    /\ senders[c] # {}
    /\ started <= clock /\ clock <= started + 1
    /\ senders' = [senders EXCEPT ![c] = {}]
    /\ acks' = [acks EXCEPT ![c] = started]
    /\ UNCHANGED clock

\* One try fails, or a crash ends several.
GiveUp(C) == /\ senders' = [c \in Contents |-> IF c \in C THEN {} ELSE senders[c]]
             /\ UNCHANGED <<acks, clock>>

Advance == clock' = clock + 1 /\ UNCHANGED <<senders, acks>>

Next == \/ \E c \in Contents : \/ \E s \in Senders : Start(s, c)
                               \/ \E started \in {clock - 1, clock} : Acknowledge(c, started)
        \/ \E C \in SUBSET Contents : GiveUp(C)
        \/ Advance

Spec == Init /\ [][Next]_vars
=============================================================================
