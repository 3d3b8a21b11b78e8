--------------------------- MODULE TrailingFlight --------------------------
(***************************************************************************)
(* One lane of KeyedTrailingFlight (keyed-trailing-flight.ts); lanes of    *)
(* different keys share nothing.  A run is under way from the call of      *)
(* start() until the finally block of execute, which is a microtask of its *)
(* own: between the two the work is over, but its lane still stands.       *)
(***************************************************************************)
CONSTANT Callers

VARIABLES
    lane,        \* "none", "running" or "over" (settled, finally not run yet)
    inFlight,    \* the callers that hold the promise of the run under way
    queued,      \* the callers that share lane.queued, {} when it is null
    replied      \* the callers whose promise is settled

flightVars == <<lane, inFlight, queued, replied>>

FlightTypeOK ==
    /\ lane \in {"none", "running", "over"}
    /\ inFlight \subseteq Callers /\ queued \subseteq Callers /\ replied \subseteq Callers

FlightInit == lane = "none" /\ inFlight = {} /\ queued = {} /\ replied = {}

\* run without a lane: start() is called at once.
RunFirst(c) ==
    /\ c \notin inFlight \cup queued \cup replied
    /\ lane = "none"
    /\ lane' = "running"
    /\ inFlight' = {c}
    /\ UNCHANGED <<queued, replied>>

\* Mutant of RunQueued: the caller joins the run under way, as KeyedSingleFlight does.
RunJoins(c) ==
    /\ c \notin inFlight \cup queued \cup replied
    /\ lane # "none"
    /\ inFlight' = inFlight \cup {c}
    /\ UNCHANGED <<lane, queued, replied>>

\* run with a lane: the follow-up run is queued, or shared if there is one.
RunQueued(c) ==
    /\ c \notin inFlight \cup queued \cup replied
    /\ lane # "none"
    /\ queued' = queued \cup {c}
    /\ UNCHANGED <<lane, inFlight, replied>>

\* The work resolves or rejects.
WorkSettles ==
    /\ lane = "running"
    /\ lane' = "over"
    /\ UNCHANGED <<inFlight, queued, replied>>

\* The finally block: the queued run starts, or the lane goes; then the callers of
\* the run that is over learn its result.
AdvanceLane ==
    /\ lane = "over"
    /\ lane' = IF queued = {} THEN "none" ELSE "running"
    /\ replied' = replied \cup inFlight
    /\ inFlight' = queued
    /\ queued' = {}

FlightNext ==
    \/ \E c \in Callers : RunFirst(c) \/ RunQueued(c)
    \/ WorkSettles \/ AdvanceLane

FlightSpec == FlightInit /\ [][FlightNext]_flightVars

----------------------------------------------------------------------------
Fresh == INSTANCE FreshAnswer WITH
    waiting <- queued, serving <- inFlight, answered <- replied

\* Every caller is answered by a run that started after it asked, also one that
\* asks between the end of the work and the end of its lane; one run at a time.
AnswersAreFresh == Fresh!FreshSpec
=============================================================================
