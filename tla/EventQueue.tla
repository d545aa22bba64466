----------------------------- MODULE EventQueue -----------------------------
(***************************************************************************)
(* What the driver's event queue promises its callbacks: events leave in   *)
(* the order they came, each once; one that finds the queue full is        *)
(* counted and gone; the queue ends with the driver.                       *)
(***************************************************************************)
EXTENDS Naturals, Sequences

CONSTANT Limit    \* how many events may wait

VARIABLES
    waiting,      \* the events that wait, by number, oldest first
    handed,       \* those that left
    refused,      \* how many found the queue full
    open          \* the driver is loaded

vars == <<waiting, handed, refused, open>>

Init == open = TRUE /\ waiting = <<>> /\ handed = <<>> /\ refused = 0

\* Events are numbered in the order in which they are let in.
Put ==
    /\ Len(waiting) < Limit
    /\ waiting' = Append(waiting, Len(handed) + Len(waiting) + 1)
    /\ UNCHANGED <<handed, refused, open>>

Refuse ==
    /\ Len(waiting) = Limit
    /\ refused' = refused + 1
    /\ UNCHANGED <<waiting, handed, open>>

Take ==
    /\ waiting # <<>>
    /\ waiting' = Tail(waiting)
    /\ handed' = Append(handed, Head(waiting))
    /\ UNCHANGED <<refused, open>>

\* The driver goes, and its next load begins anew.
Unload ==
    /\ open = TRUE /\ open' = FALSE
    /\ waiting' = <<>> /\ handed' = <<>> /\ refused' = 0

Load ==
    /\ open = FALSE /\ open' = TRUE
    /\ UNCHANGED <<waiting, handed, refused>>

Next == (open = TRUE /\ (Put \/ Refuse \/ Take)) \/ Unload \/ Load

Spec == Init /\ [][Next]_vars
=============================================================================
