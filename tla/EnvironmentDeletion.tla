------------------------ MODULE EnvironmentDeletion ------------------------
(***************************************************************************)
(* Deleting an environment and finishing what the delete could not         *)
(* (environment-delete.ts, environment-cleanup.ts,                         *)
(* environment-cleanup-ledger.ts, environment-cleanup-reconciler.ts and    *)
(* the lifecycle queue of environment-operations.ts).                      *)
(*                                                                         *)
(* A delete runs on the lifecycle queue of its environment.  It writes the *)
(* tombstone, records in the durable ledger what the host owes, stops      *)
(* whatever runs, attempts one cleanup step after the other, and removes   *)
(* the record whether or not they succeeded.  The reconciler retries what  *)
(* the ledger still names, on the same queues, one pass at a time.  A step *)
(* that fails may have done its work or not.  The process may stop between *)
(* any two of these steps; the next start deletes again what carries a     *)
(* tombstone and starts a pass.                                            *)
(*                                                                         *)
(* Worktree paths embed a prefix of the environment's id                   *)
(* (environmentBranchBase), so no two environments of a model share one.   *)
(* Time is abstract: an entry that was attempted is not due, and becomes   *)
(* due when its backoff has passed.                                        *)
(***************************************************************************)
EXTENDS Integers, Sequences

CONSTANTS
    Envs,            \* environments
    Owns,            \* Owns[e]: the cleanup steps that apply to e
    Unmerged,        \* environments whose branch the policy keeps
    Backends,        \* backend versions
    MaxAttempts,     \* MAX_ENVIRONMENT_CLEANUP_ATTEMPTS
    MaxFaults,       \* bound: failing steps, writes and passes
    MaxStarts        \* bound: restarts

Steps == {"container", "volumes", "network", "worktree", "branch", "state-dirs"}

ASSUME DeletionAssumption ==
    /\ Owns \in [Envs -> SUBSET Steps]
    /\ \A e \in Envs : "state-dirs" \in Owns[e]
    /\ Unmerged \subseteq Envs
    /\ MaxAttempts \in Nat \ {0}
    /\ MaxFaults \in Nat
    /\ MaxStarts \in Nat

VARIABLES
    record,          \* the environment's record: "live", "deleting" (with its
                     \* tombstone) or "gone"
    host,            \* host[e]: what is left of e on the host
    ledger,          \* ledger[e]: the entry of e: pending, attempts, versions
    due,             \* entries whose backoff has passed
    backend,         \* the running version
    accepting,       \* lifecycle admission is open
    deleting,        \* the delete guard (beginDelete)
    queue,           \* queue[e]: the lifecycle queue, the running task first
    todo,            \* todo[e]: what the running task of e still does, {} before it starts
    pass,            \* the reconcile pass: "idle", "listed", "loop", "waiting"
    entries,         \* the entries the pass has not looked at
    deferred,        \* the entries the pass leaves for a later one
    rerun,           \* another pass was asked for during this one
    timer,           \* the entries the retry timer was armed for, {} if unarmed
    stalled,         \* entries left without a retry because a store failed
    faults,          \* faults that have happened
    starts           \* restarts that have happened

durable == <<record, host, ledger, due>>
passVars == <<pass, entries, deferred, rerun, timer, stalled>>
deletionVars == <<durable, passVars, backend, accepting, deleting, queue, todo,
                  faults, starts>>

NoEntry == [pending |-> {}, attempts |-> 0, versions |-> {}]
Entered(e) == ledger[e].pending # {}

\* Mutant of Exhausted: one attempt too many.
ExhaustedLate(e) == ledger[e].attempts > MaxAttempts

Exhausted(e) == ledger[e].attempts >= MaxAttempts

\* The order in which a task takes its steps: ENVIRONMENT_CLEANUP_STEPS, and in
\* deleteEnvironment what stands before, between and after them.  Stopping agents,
\* terminals and servers (after the ledger) and removing the records that belong
\* to the environment (before its own) are no steps of their own: the model sees
\* of them that they can throw.
Position(s) == CASE s = "tombstone" -> 1
                 [] s = "ledger" -> 2
                 [] s = "container" -> 3
                 [] s = "volumes" -> 4
                 [] s = "network" -> 5
                 [] s = "worktree" -> 6
                 [] s = "branch" -> 7
                 [] s = "remove" -> 8
                 [] s = "state-dirs" -> 9
                 [] s = "end" -> 10

\* deleteEnvironment from the tombstone to the last statement of the teardown.
DeletePlan(e) == Owns[e] \cup {"tombstone", "ledger", "remove", "end"}

DeletionTypeOK ==
    /\ record \in [Envs -> {"live", "deleting", "gone"}]
    /\ host \in [Envs -> SUBSET Steps]
    /\ ledger \in [Envs -> [pending : SUBSET Steps, attempts : 0..MaxAttempts,
                            versions : SUBSET Backends]]
    /\ due \subseteq Envs
    /\ backend \in Backends
    /\ accepting \in BOOLEAN /\ rerun \in BOOLEAN
    /\ deleting \subseteq Envs
    /\ \A e \in Envs : queue[e] \in Seq({"delete", "reconcile"}) /\ Len(queue[e]) <= 2
    /\ todo \in [Envs -> SUBSET (Steps \cup {"tombstone", "ledger", "remove", "end"})]
    /\ pass \in {"idle", "listed", "loop", "waiting"}
    /\ entries \subseteq Envs /\ deferred \subseteq Envs
    /\ timer \subseteq Envs /\ stalled \subseteq Envs
    /\ faults \in 0..MaxFaults /\ starts \in 0..MaxStarts

DeletionInit ==
    /\ record = [e \in Envs |-> "live"]
    /\ host = Owns
    /\ ledger = [e \in Envs |-> NoEntry]
    /\ due = {}
    /\ backend \in Backends
    /\ accepting = TRUE
    /\ deleting = {}
    /\ queue = [e \in Envs |-> <<>>]
    /\ todo = [e \in Envs |-> {}]
    /\ pass = "idle"
    /\ entries = {} /\ deferred = {} /\ timer = {} /\ stalled = {}
    /\ rerun = FALSE
    /\ faults = 0 /\ starts = 0

Fault == faults < MaxFaults /\ faults' = faults + 1

----------------------------------------------------------------------------
(* The ledger.                                                             *)

\* record: a delete that is tried again keeps what the earlier one owed.
Recorded(e) == [ledger[e] EXCEPT !.pending = @ \cup Owns[e]]

\* complete: the entry is dropped once nothing is pending.
Completed(e, s) ==
    IF ledger[e].pending \subseteq {s} THEN NoEntry
    ELSE [ledger[e] EXCEPT !.pending = @ \ {s}]

\* noteAttempt.
Attempted(e) ==
    [ledger[e] EXCEPT !.attempts = @ + 1, !.versions = @ \cup {backend}]

\* rearmForVersion.
Rearmable(e) == Exhausted(e) /\ backend \notin ledger[e].versions
Rearmed(e) == [ledger[e] EXCEPT !.attempts = 0, !.versions = @ \cup {backend}]

----------------------------------------------------------------------------
(* The lifecycle queue and the scheduler of the passes.                    *)

Running(e, kind) == queue[e] # <<>> /\ Head(queue[e]) = kind
Doing(e, s) == s \in todo[e] /\ \A t \in todo[e] : Position(s) <= Position(t)

\* The running task of e settles and its successor may start.
Settle(e) ==
    /\ queue' = [queue EXCEPT ![e] = Tail(@)]
    /\ todo' = [todo EXCEPT ![e] = {}]

\* A pass begins.
List ==
    /\ pass' = "listed"
    /\ entries' = {e \in Envs : Entered(e)}
    /\ stalled' = {}

\* scheduleEnvironmentCleanupReconcile; list() reads the ledger at once.  The pass
\* of a request that comes after shutdown has its retries refused: it is left out.
Schedule ==
    IF ~accepting THEN UNCHANGED passVars
    ELSE IF pass # "idle"
    THEN rerun' = TRUE /\ UNCHANGED <<pass, entries, deferred, timer, stalled>>
    ELSE /\ List
         /\ deferred' = {} /\ timer' = {}
         /\ UNCHANGED rerun

----------------------------------------------------------------------------
(* Deleting.                                                               *)

\* deleteEnvironmentTask: refused at shutdown and while a delete holds the guard.
RequestDelete(e) ==
    /\ accepting
    /\ record[e] # "gone"
    /\ e \notin deleting
    /\ deleting' = deleting \cup {e}
    /\ queue' = [queue EXCEPT ![e] = Append(@, "delete")]
    /\ UNCHANGED <<durable, passVars, backend, accepting, todo, faults, starts>>

\* The queue reaches the delete; deleteEnvironment starts unless shutdown has begun.
StartDelete(e) ==
    /\ Running(e, "delete") /\ todo[e] = {}
    /\ accepting
    /\ todo' = [todo EXCEPT ![e] = DeletePlan(e)]
    /\ UNCHANGED <<durable, passVars, backend, accepting, deleting, queue, faults, starts>>

Advance(e, s) == todo' = [todo EXCEPT ![e] = @ \ {s}]

Tombstone(e) ==
    /\ Doing(e, "tombstone")
    /\ record' = [record EXCEPT ![e] = "deleting"]
    /\ Advance(e, "tombstone")
    /\ UNCHANGED <<host, ledger, due, passVars, backend, accepting, deleting, queue,
                   faults, starts>>

\* buildEnvironmentCleanupEntry and record: the delete counts as an attempt.
RecordEntry(e) ==
    /\ Doing(e, "ledger")
    /\ ledger' = [ledger EXCEPT ![e] = Recorded(e)]
    /\ due' = due \ {e}
    /\ Advance(e, "ledger")
    /\ UNCHANGED <<record, host, passVars, backend, accepting, deleting,
                   queue, faults, starts>>

RemoveRecord(e) ==
    /\ Doing(e, "remove")
    /\ record' = [record EXCEPT ![e] = "gone"]
    /\ Advance(e, "remove")
    /\ UNCHANGED <<host, ledger, due, passVars, backend, accepting, deleting, queue,
                   faults, starts>>

\* Mutant of FinishDelete: only a delete that left nothing behind asks for a pass.
FinishDeleteQuietly(e) ==
    /\ Running(e, "delete") /\ Doing(e, "end")
    /\ deleting' = deleting \ {e}
    /\ Settle(e)
    /\ IF Entered(e) THEN UNCHANGED passVars ELSE Schedule
    /\ UNCHANGED <<durable, backend, accepting, faults, starts>>

\* The delete succeeded: endDelete, and a pass for what any delete left pending.
FinishDelete(e) ==
    /\ Running(e, "delete") /\ Doing(e, "end")
    /\ deleting' = deleting \ {e}
    /\ Settle(e)
    /\ Schedule
    /\ UNCHANGED <<durable, backend, accepting, faults, starts>>

\* The catch of deleteEnvironment and the finally of deleteEnvironmentTask.  No
\* pass is asked for.  The reason it writes on the record is not modelled.
StopDelete(e) ==
    /\ stalled' = IF record[e] = "gone" THEN stalled \cup {e} ELSE stalled
    /\ deleting' = deleting \ {e}
    /\ Settle(e)
    /\ UNCHANGED <<record, ledger, due, pass, entries, deferred, rerun, timer, backend,
                   accepting, starts>>

\* A statement of the teardown that is not a cleanup step throws.  One that stands
\* before the first cleanup step leaves what the deadline of that step leaves.
DeleteFails(e) ==
    /\ Running(e, "delete")
    /\ \E s \in todo[e] \ Steps : Doing(e, s)
    /\ Fault
    /\ StopDelete(e)
    /\ UNCHANGED host

\* The queue reaches a delete after shutdown began.
DeleteAtShutdown(e) ==
    /\ Running(e, "delete") /\ todo[e] = {}
    /\ ~accepting
    /\ StopDelete(e)
    /\ UNCHANGED <<host, faults>>

----------------------------------------------------------------------------
(* One cleanup step (runEnvironmentCleanupStep), of a delete or of a retry. *)

\* volumes and network are refused while the ledger still names the container.
Refused(e, s) == s \in {"volumes", "network"} /\ "container" \in ledger[e].pending

\* A branch that is checked out, or that has work of its own, is kept.
KeepsBranch(e, s) == s = "branch" /\ ("worktree" \in host[e] \/ e \in Unmerged)

\* Mutant of StepOver: the branch is judged whatever became of the worktree.
StepOverAnyway(e, s, done) == todo' = [todo EXCEPT ![e] = @ \ {s}]

\* The step s is over.  While the worktree may still have it checked out the
\* branch cannot be judged: it waits for the next pass.
StepOver(e, s, done) ==
    todo' = [todo EXCEPT ![e] = @ \ (IF s = "worktree" /\ ~done THEN {s, "branch"} ELSE {s})]

Removed(e, s) == [host EXCEPT ![e] = @ \ {s}]

StepSucceeds(e, s) ==
    /\ Doing(e, s) /\ s \in Steps
    /\ ~Refused(e, s)
    /\ host' = IF KeepsBranch(e, s) THEN host ELSE Removed(e, s)
    /\ ledger' = [ledger EXCEPT ![e] = Completed(e, s)]
    /\ StepOver(e, s, TRUE)
    /\ UNCHANGED <<record, due, passVars, backend, accepting, deleting,
                   queue, faults, starts>>

StepRefused(e, s) ==
    /\ Doing(e, s) /\ s \in Steps
    /\ Refused(e, s)
    /\ StepOver(e, s, FALSE)
    /\ UNCHANGED <<durable, passVars, backend, accepting, deleting, queue, faults, starts>>

\* Mutant of StepFails: a failed step is struck off the ledger.
StepFailsStruckOff(e, s) ==
    /\ Doing(e, s) /\ s \in Steps
    /\ ~Refused(e, s)
    /\ Fault
    /\ host' \in {host, IF KeepsBranch(e, s) THEN host ELSE Removed(e, s)}
    /\ ledger' = [ledger EXCEPT ![e] = Completed(e, s)]
    /\ StepOver(e, s, FALSE)
    /\ UNCHANGED <<record, due, passVars, backend, accepting,
                   deleting, queue, starts>>

\* A command fails before or after it did its work: the step stays pending.
StepFails(e, s) ==
    /\ Doing(e, s) /\ s \in Steps
    /\ ~Refused(e, s)
    /\ Fault
    /\ host' \in {host, IF KeepsBranch(e, s) THEN host ELSE Removed(e, s)}
    /\ StepOver(e, s, FALSE)
    /\ UNCHANGED <<record, ledger, due, passVars, backend, accepting,
                   deleting, queue, starts>>

\* The step does its work, but the ledger cannot be written.
CompletionUnrecorded(e, s) ==
    /\ Doing(e, s) /\ s \in Steps
    /\ ~Refused(e, s) /\ ~KeepsBranch(e, s)
    /\ Fault
    /\ host' = Removed(e, s)
    /\ StepOver(e, s, TRUE)
    /\ UNCHANGED <<record, ledger, due, passVars, backend, accepting,
                   deleting, queue, starts>>

\* The deadline of the container or the worktree stage of a delete: the command
\* is killed, having done its work or not, the stage's other steps do not run,
\* and the delete fails.
Deadline(e, s) ==
    /\ Running(e, "delete") /\ Doing(e, s)
    /\ s \in Steps \ {"state-dirs"}
    /\ Fault
    /\ host' \in {host, IF Refused(e, s) \/ KeepsBranch(e, s) THEN host ELSE Removed(e, s)}
    /\ StopDelete(e)

----------------------------------------------------------------------------
(* Reconciling (reconcileEnvironmentCleanup).                              *)

\* loadEnvironments: an entry whose record is there is left to its delete.
ReadLive ==
    /\ pass = "listed"
    /\ pass' = "loop"
    /\ entries' = {e \in entries : record[e] = "gone"}
    /\ UNCHANGED <<durable, deferred, rerun, timer, stalled, backend, accepting, deleting,
                   queue, todo, faults, starts>>

\* An exhausted entry that this version never attempted gets another cycle.
Rearm(e) ==
    /\ pass = "loop" /\ e \in entries
    /\ Entered(e) /\ Rearmable(e)
    /\ ledger' = [ledger EXCEPT ![e] = Rearmed(e)]
    /\ UNCHANGED <<record, host, due, passVars, backend, accepting,
                   deleting, queue, todo, faults, starts>>

SkipExhausted(e) ==
    /\ pass = "loop" /\ e \in entries
    /\ Entered(e) /\ Exhausted(e) /\ ~Rearmable(e)
    /\ entries' = entries \ {e}
    /\ UNCHANGED <<durable, pass, deferred, rerun, timer, stalled, backend, accepting,
                   deleting, queue, todo, faults, starts>>

Defer(e) ==
    /\ pass = "loop" /\ e \in entries
    /\ Entered(e) /\ ~Exhausted(e) /\ e \notin due
    /\ entries' = entries \ {e}
    /\ deferred' = deferred \cup {e}
    /\ UNCHANGED <<durable, pass, rerun, timer, stalled, backend, accepting, deleting,
                   queue, todo, faults, starts>>

\* The retry is queued behind whatever the environment's queue still runs; the
\* pass waits for it.  Its listed copy may be of an entry that is finished by now.
QueueRetry(e) ==
    /\ pass = "loop" /\ e \in entries
    /\ accepting
    /\ ~Entered(e) \/ (~Exhausted(e) /\ e \in due)
    /\ entries' = entries \ {e}
    /\ pass' = "waiting"
    /\ queue' = [queue EXCEPT ![e] = Append(@, "reconcile")]
    /\ UNCHANGED <<durable, deferred, rerun, timer, stalled, backend, accepting, deleting,
                   todo, faults, starts>>

\* Admission closes at shutdown: the entry stays for the next start.
RetryNotAdmitted(e) ==
    /\ pass = "loop" /\ e \in entries
    /\ ~accepting
    /\ ~Entered(e) \/ (~Exhausted(e) /\ e \in due)
    /\ entries' = entries \ {e}
    /\ UNCHANGED <<durable, pass, deferred, rerun, timer, stalled, backend, accepting,
                   deleting, queue, todo, faults, starts>>

\* The retry reads the entry again, counts the attempt and takes its steps.
StartRetry(e) ==
    /\ Running(e, "reconcile") /\ todo[e] = {}
    /\ Entered(e)
    /\ ledger' = [ledger EXCEPT ![e] = Attempted(e)]
    /\ due' = due \ {e}
    /\ todo' = [todo EXCEPT ![e] = ledger[e].pending \cup {"end"}]
    /\ UNCHANGED <<record, host, passVars, backend, accepting, deleting,
                   queue, faults, starts>>

\* The retry is over, or found no entry; the pass that waits for it goes on, and
\* defers what the retry left.
FinishRetry(e) ==
    /\ Running(e, "reconcile") /\ pass = "waiting"
    /\ Doing(e, "end") \/ (todo[e] = {} /\ ~Entered(e))
    /\ Settle(e)
    /\ pass' = "loop"
    /\ deferred' = IF Entered(e) /\ ~Exhausted(e) THEN deferred \cup {e} ELSE deferred
    /\ UNCHANGED <<durable, entries, rerun, timer, stalled, backend, accepting, deleting,
                   faults, starts>>

\* The end of a pass: another one that was asked for meanwhile, or the timer.
EndPass ==
    /\ pass = "loop" /\ entries = {}
    /\ rerun' = FALSE
    /\ deferred' = {}
    /\ IF rerun
       THEN List /\ timer' = {}
       ELSE /\ pass' = "idle" /\ entries' = {}
            /\ timer' = IF accepting THEN deferred ELSE {}
            /\ UNCHANGED stalled
    /\ UNCHANGED <<durable, backend, accepting, deleting, queue, todo, faults, starts>>

\* A store that cannot be read or written stops the pass; no timer is armed.
PassThrows ==
    /\ pass \in {"listed", "loop"}
    /\ Fault
    /\ rerun' = FALSE
    /\ deferred' = {}
    /\ IF rerun
       THEN List
       ELSE /\ pass' = "idle" /\ entries' = {}
            /\ stalled' = {e \in Envs : Entered(e)}
    /\ UNCHANGED <<durable, timer, backend, accepting, deleting, queue, todo, starts>>

RetryTimerFires ==
    /\ timer \cap due # {}
    /\ accepting
    /\ Schedule
    /\ UNCHANGED <<durable, backend, accepting, deleting, queue, todo, faults, starts>>

\* The backoff of an entry passes.
BackoffPasses(e) ==
    /\ Entered(e) /\ e \notin due
    /\ due' = due \cup {e}
    /\ UNCHANGED <<record, host, ledger, passVars, backend, accepting,
                   deleting, queue, todo, faults, starts>>

----------------------------------------------------------------------------
(* The process.                                                            *)

\* cancelScheduledEnvironmentCleanup and the closed admission; tasks that were
\* admitted go on.
BeginShutdown ==
    /\ accepting
    /\ starts < MaxStarts
    /\ accepting' = FALSE
    /\ rerun' = FALSE /\ timer' = {}
    /\ UNCHANGED <<durable, pass, entries, deferred, stalled, backend, deleting, queue,
                   todo, faults, starts>>

\* The process stops, at any moment, and a new one starts: every environment with
\* a tombstone is deleted again, and a pass is started.
Restart ==
    /\ starts < MaxStarts
    /\ starts' = starts + 1
    /\ backend' \in Backends
    /\ accepting' = TRUE
    /\ deleting' = {e \in Envs : record[e] = "deleting"}
    /\ queue' = [e \in Envs |-> IF record[e] = "deleting" THEN <<"delete">> ELSE <<>>]
    /\ todo' = [e \in Envs |-> {}]
    /\ List
    /\ deferred' = {} /\ rerun' = FALSE /\ timer' = {}
    /\ UNCHANGED <<durable, faults>>

EnvStep(e) ==
    \/ RequestDelete(e) \/ StartDelete(e) \/ Tombstone(e) \/ RecordEntry(e)
    \/ RemoveRecord(e) \/ FinishDelete(e)
    \/ DeleteFails(e) \/ DeleteAtShutdown(e)
    \/ Rearm(e) \/ SkipExhausted(e) \/ Defer(e) \/ QueueRetry(e) \/ RetryNotAdmitted(e)
    \/ StartRetry(e) \/ FinishRetry(e) \/ BackoffPasses(e)
    \/ \E s \in {t \in Steps : Doing(e, t)} :
           \/ StepSucceeds(e, s) \/ StepRefused(e, s) \/ StepFails(e, s)
           \/ CompletionUnrecorded(e, s) \/ Deadline(e, s)

DeletionNext ==
    \/ \E e \in Envs : EnvStep(e)
    \/ ReadLive \/ EndPass \/ PassThrows \/ RetryTimerFires \/ BeginShutdown \/ Restart

DeletionSpec == DeletionInit /\ [][DeletionNext]_deletionVars

----------------------------------------------------------------------------
(* Properties.                                                             *)

\* Once the record of a deleted environment is gone, the ledger names every
\* resource of it that is left on the host, whichever steps failed, were cut
\* short or were interrupted by a stop of the process; the only exception is a
\* branch the policy keeps for the work on it.
NothingForgotten ==
    \A e \in Envs : record[e] = "gone" =>
        \A s \in host[e] :
            s \in ledger[e].pending \/ (s = "branch" /\ e \in Unmerged)

\* While the backend runs, an entry that may still be retried is in the hands of
\* a delete, of a pass that will see it, or of the timer.  The exceptions are the
\* ones where the code asks for no pass: one that threw, and a delete that threw
\* after it removed the record (stalled).
RetryScheduled ==
    \A e \in Envs :
        accepting /\ record[e] = "gone" /\ Entered(e) /\ ~Exhausted(e) =>
            \/ e \in deleting \/ e \in stalled \/ e \in timer
            \/ /\ pass # "idle"
               /\ rerun \/ e \in entries \cup deferred \/ queue[e] # <<>>

Promise == INSTANCE DeletionPromise WITH
    status <- record, present <- host,
    owed <- [e \in Envs |-> ledger[e].pending]

\* The ledger, the delete and the reconciler keep the promise of DeletionPromise:
\* nothing of a live environment is touched, containers go before the volumes and
\* networks they use and worktrees before their branches, a debt is struck off
\* only when it is settled, and a record goes only when all the rest is owed.
KeepsPromise == Promise!PromiseSpec
=============================================================================
