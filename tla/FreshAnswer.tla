---------------------------- MODULE FreshAnswer ----------------------------
(***************************************************************************)
(* What the runs shared by the callers of one key promise: one run at a    *)
(* time, and every caller is answered by a run that started after it asked *)
(* (the comment of keyed-trailing-flight.ts).  A run may serve any of the  *)
(* callers that wait when it starts, and no one else.                      *)
(***************************************************************************)
CONSTANT Callers

VARIABLES
    waiting,     \* callers that have asked and that no run serves yet
    serving,     \* callers the run under way will answer; {} when there is none
    answered     \* callers that have their answer

freshVars == <<waiting, serving, answered>>

FreshInit == waiting = {} /\ serving = {} /\ answered = {}

Asks(c) == c \notin waiting \cup serving \cup answered

Wait(c) ==
    /\ Asks(c)
    /\ waiting' = waiting \cup {c}
    /\ UNCHANGED <<serving, answered>>

RunAtOnce(c) ==
    /\ Asks(c)
    /\ serving = {}
    /\ serving' = {c}
    /\ UNCHANGED <<waiting, answered>>

\* The run under way ends, and another may start for some of those who wait.
Answer(next) ==
    /\ serving # {}
    /\ next \subseteq waiting
    /\ answered' = answered \cup serving
    /\ serving' = next
    /\ waiting' = waiting \ next

FreshNext ==
    \/ \E c \in Callers : Wait(c) \/ RunAtOnce(c)
    \/ \E next \in SUBSET waiting : Answer(next)

FreshSpec == FreshInit /\ [][FreshNext]_freshVars
=============================================================================
