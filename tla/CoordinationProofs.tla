------------------------ MODULE CoordinationProofs -------------------------
(***************************************************************************)
(* What is proved of the coordination components together.  A lane of      *)
(* KeyedTrailingFlight implements FreshAnswer for every set of callers:    *)
(* its invariant says what a lane stands for, namely that there is one     *)
(* exactly while a run has callers to answer, and that nobody is queued    *)
(* without one.  And the composition of the five components that TLC       *)
(* checks is a behaviour of each of them, so that what is proved of a      *)
(* component holds of the composition.                                     *)
(***************************************************************************)
EXTENDS MCCoordination, EnvironmentDeletionProofs, RecurringSchedulerProofs,
        WorkspaceSharingProofs, EnvironmentMoveProofs, TLAPS

LaneInv == /\ lane = "none" <=> inFlight = {}
           /\ lane = "none" => queued = {}

LEMMA LaneInvInit == FlightInit => LaneInv
BY DEF FlightInit, LaneInv

LEMMA LaneInvNext == LaneInv /\ [FlightNext]_flightVars => LaneInv'
<1> SUFFICES ASSUME LaneInv, [FlightNext]_flightVars PROVE LaneInv'
  OBVIOUS
<1>1. ASSUME NEW c \in Callers, RunFirst(c) PROVE LaneInv'
  BY <1>1 DEF RunFirst, LaneInv
<1>2. ASSUME NEW c \in Callers, RunQueued(c) PROVE LaneInv'
  BY <1>2 DEF RunQueued, LaneInv
<1>3. CASE WorkSettles
  BY <1>3 DEF WorkSettles, LaneInv
<1>4. CASE AdvanceLane
  BY <1>4 DEF AdvanceLane, LaneInv
<1>5. CASE UNCHANGED flightVars
  BY <1>5 DEF flightVars, LaneInv
<1> QED
  BY <1>1, <1>2, <1>3, <1>4, <1>5 DEF FlightNext

\* Every step of a lane is a step of FreshAnswer or none: the first caller of an
\* idle lane runs at once, later ones wait, and the end of a run answers its
\* callers and takes all who wait into the next one.
LEMMA LaneStep ==
    LaneInv /\ [FlightNext]_flightVars => [Fresh!FreshNext]_(Fresh!freshVars)
<1> SUFFICES ASSUME LaneInv, [FlightNext]_flightVars
             PROVE [Fresh!FreshNext]_(Fresh!freshVars)
  OBVIOUS
<1>1. ASSUME NEW c \in Callers, RunFirst(c) PROVE Fresh!RunAtOnce(c)
  BY <1>1 DEF RunFirst, LaneInv, Fresh!RunAtOnce, Fresh!Asks
<1>2. ASSUME NEW c \in Callers, RunQueued(c) PROVE Fresh!Wait(c)
  BY <1>2 DEF RunQueued, Fresh!Wait, Fresh!Asks
<1>3. CASE WorkSettles
  BY <1>3 DEF WorkSettles, Fresh!freshVars
<1>4. CASE AdvanceLane
  <2>1. Fresh!Answer(queued)
    BY <1>4 DEF AdvanceLane, LaneInv, Fresh!Answer
  <2> QED
    BY <2>1 DEF Fresh!FreshNext
<1>5. CASE UNCHANGED flightVars
  BY <1>5 DEF flightVars, Fresh!freshVars
<1> QED
  BY <1>1, <1>2, <1>3, <1>4, <1>5 DEF FlightNext, Fresh!FreshNext

\* AnswersAreFresh: a caller of KeyedTrailingFlight.run is answered by a run that
\* started after it asked, for every set of callers and every interleaving of
\* their calls with the end of the work and of its lane.
THEOREM LaneImplementsFreshAnswer == FlightSpec => AnswersAreFresh
<1>1. FlightInit => Fresh!FreshInit
  BY DEF FlightInit, Fresh!FreshInit
<1> QED
  BY <1>1, LaneInvInit, LaneInvNext, LaneStep, PTL
     DEF FlightSpec, AnswersAreFresh, Fresh!FreshSpec

\* The lane of KeyedTrailingFlight keeps its types: what runs, waits, was asked
\* and was answered are sets and counters of the declared kinds.
THEOREM FlightTyped == FlightSpec => []FlightTypeOK
<1>1. FlightInit => FlightTypeOK
  BY DEF FlightInit, FlightTypeOK
<1>2. FlightTypeOK /\ [FlightNext]_flightVars => FlightTypeOK'
  BY DEF FlightTypeOK, FlightNext, flightVars, RunFirst, RunQueued, WorkSettles, AdvanceLane
<1> QED
  BY <1>1, <1>2, PTL DEF FlightSpec

----------------------------------------------------------------------------
(* The composition.                                                        *)

LEMMA EachSteps ==
    ASSUME [Next]_vars
    PROVE  /\ [DeletionNext]_deletionVars /\ [SchedulerNext]_schedulerVars
           /\ [SharingNext]_sharingVars /\ [MoveNext]_moveVars /\ [FlightNext]_flightVars
BY DEF Next, vars

\* A behaviour of the composition is one of every component: what is proved of a
\* component holds in the run that exercises all of them.
THEOREM ComponentsCompose ==
    Spec => DeletionSpec /\ SchedulerSpec /\ SharingSpec /\ MoveSpec /\ FlightSpec
<1>1. Init => DeletionInit /\ SchedulerInit /\ SharingInit /\ MoveInit /\ FlightInit
  BY DEF Init
<1>2. [Next]_vars => /\ [DeletionNext]_deletionVars /\ [SchedulerNext]_schedulerVars
                     /\ [SharingNext]_sharingVars /\ [MoveNext]_moveVars
                     /\ [FlightNext]_flightVars
  BY EachSteps
<1> QED
  BY <1>1, <1>2, PTL DEF Spec, DeletionSpec, SchedulerSpec, SharingSpec, MoveSpec, FlightSpec

\* TypeOK of the composition, from the type theorems of its components.
THEOREM CoordinationTyped == Spec => []TypeOK
<1>1. /\ DeletionTypeOK /\ SchedulerTypeOK /\ SharingTypeOK /\ MoveTypeOK /\ FlightTypeOK
      => TypeOK
  BY DEF TypeOK
<1> QED
  BY <1>1, ComponentsCompose, DeletionTyped, SchedulerTyped, SharingTyped, MoveTyped,
     FlightTyped, PTL
=============================================================================
