------------------------ MODULE RecurringScheduler -------------------------
(***************************************************************************)
(* The process-local scheduler of keyed recurring work                     *)
(* (apps/backend/src/core/recurring-scheduler.ts).                         *)
(*                                                                         *)
(* Time is abstract.  A key is "due", due "later" or "idle"; a later key   *)
(* becomes due when time passes.  The one timer is armed for the earliest  *)
(* of a set of keys, so it may fire once one of them is due.  Among due    *)
(* keys of one class the code takes the earliest; the model takes any.     *)
(*                                                                         *)
(* A pump is a PumpBegin step, one PumpStart step per run it starts and a  *)
(* PumpEnd step; nothing else happens in between.  What a run asks of the  *)
(* scheduler in its first, synchronous stretch is taken as asked right     *)
(* after the pump, which is when the pump it queues would run.             *)
(***************************************************************************)
EXTENDS Integers, FiniteSets

CONSTANTS
    Keys,            \* keys that owners register
    Classes,         \* priority classes
    MaxKeys, ReservedKeys, MaxConcurrent, ReservedConcurrency,
    MaxCritical, MaxPending, PassLimit    \* RecurringSchedulerLimits

\* recurringPriorityRank.
Rank == [critical |-> 0, interactive |-> 1, recovery |-> 2, progress |-> 3,
         discovery |-> 4, maintenance |-> 5]

\* The limits the constructor can leave in place.
ASSUME SchedulerAssumption ==
    /\ IsFiniteSet(Keys)
    /\ Classes \subseteq DOMAIN Rank
    /\ MaxKeys \in Nat \ {0} /\ ReservedKeys \in 0..(MaxKeys - 1)
    /\ MaxConcurrent \in Nat \ {0} /\ ReservedConcurrency \in 0..(MaxConcurrent - 1)
    /\ MaxCritical \in Nat \ {0} /\ MaxPending \in Nat \ {0}
    /\ PassLimit \in Nat \ {0}

VARIABLES
    job,             \* job[k]: the registered entry of k, or NoJob
    runs,            \* runs[k]: the operations of k that have not settled
    orphan,          \* orphans: the run of a removed key, or NoRun
    running,         \* the counter of non-critical runs
    runningCritical, \* the counter of critical runs
    pumpQueued,      \* a pump is queued as a microtask
    pumping,         \* a pump is under way
    alarm,           \* the keys the timer was armed for, {} when it is not armed
    disposed,
    unseen           \* history: keys invalidated since their last run started

schedulerVars == <<job, runs, orphan, running, runningCritical, pumpQueued, pumping,
                   alarm, disposed, unseen>>

\* A run is identified by a number that no other unsettled run of its key has.
RunIds == 1..2
NoRun == 0
Runs == [id : RunIds, class : Classes, stale : BOOLEAN]

NoJob == [class |-> "none"]
Jobs == [class : Classes, due : {"due", "later", "idle"}, paused : BOOLEAN,
         run : RunIds \cup {NoRun}, dirty : BOOLEAN, reconcile : BOOLEAN,
         passed : 0..(PassLimit + 1)]

Registered == {k \in Keys : job[k] # NoJob}
RunOf(k) == CHOOSE r \in runs[k] : r.id = job[k].run
FreshRun(k) == job[k].run # NoRun /\ ~RunOf(k).stale

SchedulerTypeOK ==
    /\ job \in [Keys -> Jobs \cup {NoJob}]
    /\ runs \in [Keys -> SUBSET Runs]
    /\ orphan \in [Keys -> RunIds \cup {NoRun}]
    /\ running \in Nat /\ runningCritical \in Nat
    /\ pumpQueued \in BOOLEAN /\ pumping \in BOOLEAN /\ disposed \in BOOLEAN
    /\ alarm \subseteq Keys /\ unseen \subseteq Keys

SchedulerInit ==
    /\ job = [k \in Keys |-> NoJob]
    /\ runs = [k \in Keys |-> {}]
    /\ orphan = [k \in Keys |-> NoRun]
    /\ running = 0 /\ runningCritical = 0
    /\ pumpQueued = FALSE /\ pumping = FALSE /\ disposed = FALSE
    /\ alarm = {} /\ unseen = {}

IsWaiting(k) == k \in Registered /\ ~job[k].paused /\ job[k].run = NoRun /\ job[k].due = "due"
Critical(k) == job[k].class = "critical"

schedulePump == pumpQueued' = TRUE

\* fence: every unsettled run of k that is not stale is aborted.
Fenced(k) == [runs EXCEPT ![k] = {[r EXCEPT !.stale = TRUE] : r \in @}]

----------------------------------------------------------------------------
(* Owners.                                                                 *)

\* A request of an owner for a key that is registered.
Known(k) == ~pumping /\ ~disposed /\ k \in Registered

\* Mutant of Register: the removed key's run is not adopted.
RegisterAfresh(k, class, due) ==
    /\ ~pumping /\ ~disposed /\ k \notin Registered
    /\ job' = [job EXCEPT ![k] =
           [class |-> class, due |-> due, paused |-> FALSE, run |-> NoRun,
            dirty |-> FALSE, reconcile |-> FALSE, passed |-> 0]]
    /\ schedulePump
    /\ UNCHANGED <<runs, orphan, running, runningCritical, pumping, alarm, disposed, unseen>>

\* register of an unknown key.  It adopts a run of the removed key that is still
\* under way.
Register(k, class, due) ==
    /\ ~pumping /\ ~disposed /\ k \notin Registered
    /\ LET usable == IF class \in {"critical", "recovery"} THEN MaxKeys
                     ELSE MaxKeys - ReservedKeys
       IN Cardinality(Registered) < usable
    /\ job' = [job EXCEPT ![k] =
           [class |-> class, due |-> due, paused |-> FALSE, run |-> orphan[k],
            dirty |-> FALSE, reconcile |-> FALSE, passed |-> 0]]
    /\ orphan' = [orphan EXCEPT ![k] = NoRun]
    /\ schedulePump
    /\ UNCHANGED <<runs, running, runningCritical, pumping, alarm, disposed, unseen>>

\* register with a higher generation: the old one's run is fenced, and holds the
\* key until it settles.
Replace(k, class, due) ==
    /\ Known(k)
    /\ runs' = Fenced(k)
    /\ job' = [job EXCEPT ![k] =
           [class |-> class, due |-> due, paused |-> FALSE, run |-> @.run,
            dirty |-> FALSE, reconcile |-> FALSE, passed |-> 0]]
    /\ unseen' = unseen \ {k}
    /\ schedulePump
    /\ UNCHANGED <<orphan, running, runningCritical, pumping, alarm, disposed>>

\* register with the same generation, or update: the class changes in place.  A
\* shorter interval may pull the due time of a key that is not running.
Update(k, class, due) ==
    /\ Known(k)
    /\ \/ due = job[k].due
       \/ job[k].run = NoRun /\ job[k].due # "due" /\ due # "idle"
    /\ job' = [job EXCEPT ![k].class = class, ![k].due = due]
    /\ schedulePump
    /\ UNCHANGED <<runs, orphan, running, runningCritical, pumping, alarm, disposed, unseen>>

\* Mutant of InvalidateRunning: coalesced into the run under way, as requestSooner is.
InvalidateJoinsRun(k) ==
    /\ Known(k)
    /\ FreshRun(k)
    /\ unseen' = unseen \cup {k}
    /\ UNCHANGED <<job, runs, orphan, running, runningCritical, pumpQueued, pumping, alarm,
                   disposed>>

\* request while a run of this generation is under way: requestSooner is dropped,
\* invalidate leaves the single dirty mark.
InvalidateRunning(k) ==
    /\ Known(k)
    /\ FreshRun(k)
    /\ job' = [job EXCEPT ![k].dirty = TRUE]
    /\ unseen' = unseen \cup {k}
    /\ UNCHANGED <<runs, orphan, running, runningCritical, pumpQueued, pumping, alarm,
                   disposed>>

Pending(class) == {k \in Registered : job[k].class = class /\ IsWaiting(k)}

\* The class has as many waiting keys as it may have, and the request would add one.
PendingFull(k, target) ==
    /\ target = "due" /\ ~IsWaiting(k) /\ ~Critical(k)
    /\ Cardinality(Pending(job[k].class)) >= MaxPending

Unseen(k, dirty) == unseen' = IF dirty THEN unseen \cup {k} ELSE unseen

\* request otherwise, for a time the key is already due by: nothing is postponed.
RequestCoalesced(k, target, dirty) ==
    /\ Known(k)
    /\ ~FreshRun(k)
    /\ job[k].due = "due" \/ (job[k].due = "later" /\ target = "later")
    /\ job' = [job EXCEPT ![k].dirty = @ \/ dirty]
    /\ Unseen(k, dirty)
    /\ UNCHANGED <<runs, orphan, running, runningCritical, pumpQueued, pumping, alarm,
                   disposed>>

\* request for an earlier time.
RequestScheduled(k, target, dirty) ==
    /\ Known(k)
    /\ ~FreshRun(k)
    /\ job[k].due # "due"
    /\ ~PendingFull(k, target)
    /\ job' = [job EXCEPT ![k].due = target, ![k].dirty = @ \/ dirty]
    /\ Unseen(k, dirty)
    /\ schedulePump
    /\ UNCHANGED <<runs, orphan, running, runningCritical, pumping, alarm, disposed>>

RequestRefused(k, target) ==
    /\ Known(k)
    /\ ~FreshRun(k)
    /\ job[k].due # "due"
    /\ PendingFull(k, target)
    /\ job' = [job EXCEPT ![k].reconcile = TRUE]
    /\ UNCHANGED <<runs, orphan, running, runningCritical, pumpQueued, pumping, alarm,
                   disposed, unseen>>

PauseOrResume(k) ==
    /\ Known(k)
    /\ job' = [job EXCEPT ![k].paused = ~@]
    /\ schedulePump
    /\ UNCHANGED <<runs, orphan, running, runningCritical, pumping, alarm, disposed, unseen>>

\* remove: the run under way keeps its slot until it settles.
RemoveKey(k) ==
    /\ ~pumping /\ k \in Registered
    /\ runs' = Fenced(k)
    /\ orphan' = [orphan EXCEPT ![k] = job[k].run]
    /\ job' = [job EXCEPT ![k] = NoJob]
    /\ unseen' = unseen \ {k}
    /\ schedulePump
    /\ UNCHANGED <<running, runningCritical, pumping, alarm, disposed>>

\* wake and compensateSuspension: keys that fell due while the host slept.
HostResumes(slept) ==
    /\ ~pumping /\ ~disposed
    /\ slept \subseteq {k \in Registered : job[k].due = "later"}
    /\ job' = [k \in Keys |-> IF k \in slept THEN [job[k] EXCEPT !.due = "due"] ELSE job[k]]
    /\ schedulePump
    /\ UNCHANGED <<runs, orphan, running, runningCritical, pumping, alarm, disposed, unseen>>

\* dispose: every run is aborted and the keys are forgotten.
Dispose ==
    /\ ~pumping /\ ~disposed
    /\ disposed' = TRUE
    /\ alarm' = {}
    /\ runs' = [k \in Keys |-> {[r EXCEPT !.stale = TRUE] : r \in runs[k]}]
    /\ job' = [k \in Keys |-> NoJob]
    /\ unseen' = {}
    /\ UNCHANGED <<orphan, running, runningCritical, pumpQueued, pumping>>

----------------------------------------------------------------------------
(* The pump.                                                               *)

PumpBegin ==
    /\ pumpQueued /\ ~pumping
    /\ pumpQueued' = FALSE
    /\ pumping' = ~disposed
    /\ UNCHANGED <<job, runs, orphan, running, runningCritical, alarm, disposed, unseen>>

\* The keys pick considers; the last slots are kept for interactive and recovery.
Eligible(critical) ==
    {k \in Registered :
        /\ Critical(k) = critical
        /\ IsWaiting(k)
        /\ critical \/ job[k].class \in {"interactive", "recovery"}
            \/ running < MaxConcurrent - ReservedConcurrency}

\* The critical pool is filled first.
Candidates ==
    IF runningCritical < MaxCritical /\ Eligible(TRUE) # {} THEN Eligible(TRUE)
    ELSE IF running < MaxConcurrent THEN Eligible(FALSE) ELSE {}

Starving(S) == {k \in S : job[k].passed >= PassLimit}

\* pick: a key passed over too often, else one of the most urgent class.
Picks(k) ==
    LET S == Candidates
    IN /\ k \in S
       /\ IF Starving(S) # {} THEN k \in Starving(S)
          ELSE \A o \in S : Rank[job[k].class] <= Rank[job[o].class]

FreeId(k) == CHOOSE i \in RunIds : \A r \in runs[k] : r.id # i

\* start: bypassed counts the times a waiting key was passed over; the model
\* stops counting above the limit.
PumpStart(k) ==
    /\ pumping
    /\ Picks(k)
    /\ job' = [o \in Keys |->
           IF o = k
           THEN [job[k] EXCEPT !.run = FreeId(k), !.dirty = FALSE, !.reconcile = FALSE,
                               !.passed = 0]
           ELSE IF o \in Candidates /\ job[o].passed <= PassLimit
           THEN [job[o] EXCEPT !.passed = @ + 1]
           ELSE job[o]]
    /\ runs' = [runs EXCEPT ![k] =
           @ \cup {[id |-> FreeId(k), class |-> job[k].class, stale |-> FALSE]}]
    /\ IF Critical(k)
       THEN runningCritical' = runningCritical + 1 /\ UNCHANGED running
       ELSE running' = running + 1 /\ UNCHANGED runningCritical
    /\ unseen' = unseen \ {k}
    /\ UNCHANGED <<orphan, pumpQueued, pumping, alarm, disposed>>

\* Mutant of PumpEnd: a timer that is armed already is left as it is.
PumpEndKeepsTimer ==
    /\ pumping
    /\ Candidates = {}
    /\ pumping' = FALSE
    /\ alarm' = IF alarm # {} THEN alarm ELSE {k \in Registered :
           ~job[k].paused /\ job[k].run = NoRun /\ job[k].due = "later"}
    /\ UNCHANGED <<job, runs, orphan, running, runningCritical, pumpQueued, disposed, unseen>>

\* Nothing more can start; armTimer covers the keys that are due later.
PumpEnd ==
    /\ pumping
    /\ Candidates = {}
    /\ pumping' = FALSE
    /\ alarm' = {k \in Registered :
           ~job[k].paused /\ job[k].run = NoRun /\ job[k].due = "later"}
    /\ UNCHANGED <<job, runs, orphan, running, runningCritical, pumpQueued, disposed, unseen>>

TimePasses(k) ==
    /\ ~pumping
    /\ k \in Registered /\ job[k].due = "later"
    /\ job' = [job EXCEPT ![k].due = "due"]
    /\ UNCHANGED <<runs, orphan, running, runningCritical, pumpQueued, pumping, alarm,
                   disposed, unseen>>

\* The timer's callback, once the earliest of its keys is due or has gone.
TimerFires ==
    /\ ~pumping /\ ~disposed
    /\ \E k \in alarm : k \in Registered => job[k].due = "due"
    /\ alarm' = {}
    /\ schedulePump
    /\ UNCHANGED <<job, runs, orphan, running, runningCritical, pumping, disposed, unseen>>

----------------------------------------------------------------------------
(* settle: the run's operation is over, with the delay it asks for.        *)

Freed(r) ==
    IF r.class = "critical"
    THEN runningCritical' = runningCritical - 1 /\ UNCHANGED running
    ELSE running' = running - 1 /\ UNCHANGED runningCritical

SettleStale(k, r) ==
    /\ ~pumping
    /\ r \in runs[k] /\ r.stale
    /\ runs' = [runs EXCEPT ![k] = @ \ {r}]
    /\ Freed(r)
    /\ orphan' = [orphan EXCEPT ![k] = IF @ = r.id THEN NoRun ELSE @]
    /\ job' = [job EXCEPT ![k] =
           IF k \in Registered /\ @.run = r.id THEN [@ EXCEPT !.run = NoRun] ELSE @]
    /\ pumpQueued' = (pumpQueued \/ ~disposed)
    /\ UNCHANGED <<pumping, alarm, disposed, unseen>>

SettleCurrent(k, r, next) ==
    /\ ~pumping
    /\ r \in runs[k] /\ ~r.stale
    /\ runs' = [runs EXCEPT ![k] = @ \ {r}]
    /\ Freed(r)
    /\ job' = [job EXCEPT ![k] =
           [@ EXCEPT !.run = NoRun, !.due = IF job[k].dirty THEN "due" ELSE next]]
    /\ schedulePump
    /\ UNCHANGED <<orphan, pumping, alarm, disposed, unseen>>

KeyStep(k) ==
    \/ \E class \in Classes, due \in {"due", "later"} :
           Register(k, class, due) \/ Replace(k, class, due)
    \/ \E class \in Classes, due \in {"due", "later", "idle"} : Update(k, class, due)
    \/ InvalidateRunning(k)
    \/ \E target \in {"due", "later"}, dirty \in BOOLEAN :
           /\ dirty => target = "due"
           /\ RequestCoalesced(k, target, dirty) \/ RequestScheduled(k, target, dirty)
    \/ RequestRefused(k, "due")
    \/ PauseOrResume(k) \/ RemoveKey(k)
    \/ PumpStart(k) \/ TimePasses(k)
    \/ \E r \in runs[k] : \/ SettleStale(k, r)
                          \/ \E next \in {"due", "later", "idle"} : SettleCurrent(k, r, next)

SchedulerNext ==
    \/ \E k \in Keys : KeyStep(k)
    \/ \E slept \in SUBSET Keys : HostResumes(slept)
    \/ Dispose \/ PumpBegin \/ PumpEnd \/ TimerFires

SchedulerSpec == SchedulerInit /\ [][SchedulerNext]_schedulerVars

----------------------------------------------------------------------------
(* Properties.                                                             *)

RunsOf(S) == UNION {{<<k, r>> : r \in {q \in runs[k] : q.class \in S}} : k \in Keys}

\* A key has one operation under way at most, across removal, registration of the
\* same key again, replacement and class changes; the counters pick compares with
\* the limits count exactly these operations; and the classes without a claim to
\* the reserved slots never occupy them.
RunsAccounted ==
    /\ \A k \in Keys : Cardinality(runs[k]) <= 1
    /\ runningCritical = Cardinality(RunsOf({"critical"}))
    /\ running = Cardinality(RunsOf(Classes \ {"critical"}))
    /\ runningCritical <= MaxCritical /\ running <= MaxConcurrent
    /\ Cardinality(RunsOf(Classes \ {"critical", "interactive", "recovery"}))
           <= MaxConcurrent - ReservedConcurrency

\* No wake-up is lost: unless a pump is queued or under way, a key that could be
\* started is one the timer was armed for, and so is every key that will be due.
NoLostWake ==
    ~disposed /\ ~pumpQueued /\ ~pumping =>
        /\ Candidates \subseteq alarm
        /\ {k \in Registered : ~job[k].paused /\ job[k].run = NoRun /\ job[k].due = "later"}
               \subseteq alarm

\* invalidate: something the key reads has changed, and a run that starts after
\* the change follows.  Until it starts, the key is marked dirty, and is due as
\* soon as no run of it is under way.
InvalidationAnswered ==
    \A k \in unseen : /\ job[k].dirty
                      /\ job[k].run = NoRun => job[k].due = "due"
=============================================================================
