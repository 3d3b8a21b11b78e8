--------------------------- MODULE MCCoordination --------------------------
(***************************************************************************)
(* Five coordination components of the backend for TLC.  They share no     *)
(* state, so a behaviour exercises one of them, chosen at the start, while *)
(* the others stay in their initial state: the state spaces add up instead *)
(* of multiplying.                                                         *)
(***************************************************************************)
EXTENDS EnvironmentDeletion, RecurringScheduler, WorkspaceSharing, EnvironmentMove,
        TrailingFlight, TLC

CONSTANTS e1, e2, g1, g2

VARIABLE focus       \* the component this behaviour exercises

\* A local environment and a container one.
LocalAndContainer ==
    (e1 :> {"worktree", "branch", "state-dirs"}) @@ (e2 :> {"container", "volumes", "state-dirs"})

\* A run that writes and one that reads.
WriterAndReader == (g1 :> <<"write">>) @@ (g2 :> <<"read">>)

\* Bound: the last of the MaxFaults faults is kept for behaviours in which only
\* one environment has been deleted.
FaultsShared == faults' = MaxFaults => \E e \in Envs : record'[e] = "live"

Init ==
    /\ focus \in {"deletion", "scheduler", "sharing", "move", "flight"}
    /\ DeletionInit /\ backend = 1
    /\ SchedulerInit /\ SharingInit /\ MoveInit /\ FlightInit

Next ==
    /\ UNCHANGED focus
    /\ \/ /\ focus = "deletion" /\ DeletionNext /\ FaultsShared
          /\ UNCHANGED <<schedulerVars, sharingVars, moveVars, flightVars>>
       \/ /\ focus = "scheduler" /\ SchedulerNext
          /\ UNCHANGED <<deletionVars, sharingVars, moveVars, flightVars>>
       \/ /\ focus = "sharing" /\ SharingNext
          /\ UNCHANGED <<deletionVars, schedulerVars, moveVars, flightVars>>
       \/ /\ focus = "move" /\ MoveNext
          /\ UNCHANGED <<deletionVars, schedulerVars, sharingVars, flightVars>>
       \/ /\ focus = "flight" /\ FlightNext
          /\ UNCHANGED <<deletionVars, schedulerVars, sharingVars, moveVars>>

vars == <<focus, deletionVars, schedulerVars, sharingVars, moveVars, flightVars>>

Spec == Init /\ [][Next]_vars

\* The type invariants of the five components.
TypeOK == DeletionTypeOK /\ SchedulerTypeOK /\ SharingTypeOK /\ MoveTypeOK /\ FlightTypeOK
=============================================================================
