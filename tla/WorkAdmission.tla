--------------------------- MODULE WorkAdmission ---------------------------
(***************************************************************************)
(* Bounded, fair admission pools for expensive physical work               *)
(* (apps/backend/src/core/work-admission.ts).                              *)
(*                                                                         *)
(* A caller is one asynchronous flow.  It acquires pools one at a time, in *)
(* nested run() calls, and passes the leases it holds as `holding'.  It    *)
(* therefore owns at most one slot of a pool: a second acquisition of the  *)
(* same pool is handed the first one's slot.                               *)
(*                                                                         *)
(* The drain loop is one DrainGrant step per iteration and a DrainEnd      *)
(* step.  The backend is single threaded, so every other action waits for  *)
(* draining = NoPool: no caller observes a pool in the middle of its loop. *)
(***************************************************************************)
EXTENDS Integers, FiniteSets, Sequences

CONSTANTS
    Pools,           \* the admission pools
    Callers,         \* asynchronous flows that ask for slots
    Targets,         \* worktrees, containers, repositories
    Ranks,           \* ranks of the non-critical priority classes
    Order,           \* ADMISSION_POOL_ORDER
    MaxConcurrent, MaxPerTarget, MaxWaiting, StarvationLimit,
    MaxNested,       \* bound: leases a caller nests
    NoPool, NoTarget

ASSUME PoolAssumption ==
    /\ IsFiniteSet(Callers)
    /\ Ranks \subseteq Nat
    /\ Order \in [Pools -> Nat]
    /\ \A p, q \in Pools : Order[p] = Order[q] => p = q
    /\ NoPool \notin Pools
    /\ NoTarget \notin Targets

\* The constructor replaces a limit below one by the pool's default.
ASSUME LimitAssumption ==
    /\ MaxConcurrent \in Nat \ {0}
    /\ MaxPerTarget \in Nat \ {0}
    /\ MaxWaiting \in Nat
    /\ StarvationLimit \in Nat \ {0}
    /\ MaxNested \in Nat

VARIABLES
    active,          \* this.active of each pool
    activeByTarget,  \* this.activeByTarget of each pool
    closed,          \* pools that close() was called on
    slot,            \* slot[c][p]: the target c holds a granted lease for
    nest,            \* the pools of c's unreleased leases, innermost last
    waitsIn,         \* the pool whose waiters c is among, or NoPool
    request,         \* the waiting request of c: its target and rank
    bypassed,        \* Waiter.bypassed of c
    ahead,           \* the waiters of c's pool with a smaller seq than c
    outcome,         \* how the last acquisition of c settled
    draining         \* the pool whose drain loop is running

vars == <<active, activeByTarget, closed, slot, nest, waitsIn, request,
          bypassed, ahead, outcome, draining>>

Outcomes == {"none", "granted", "handedOff", "order", "unavailable",
             "cancelled", "capacity"}

Requests == [target : Targets, rank : Ranks]

NoRequest == [target |-> NoTarget, rank |-> 0]

Waiters(p) == {c \in Callers : waitsIn[c] = p}

Holders(p) == {c \in Callers : slot[c][p] # NoTarget}

HoldersOf(p, t) == {c \in Callers : slot[c][p] = t}

-----------------------------------------------------------------------------
(* Mutant of canGrant: the limits are off by one. *)
canGrantOneMore(p, t) == /\ active[p] <= MaxConcurrent
                         /\ activeByTarget[p][t] < MaxPerTarget

canGrant(p, t) == /\ active[p] < MaxConcurrent
                  /\ activeByTarget[p][t] < MaxPerTarget

(* Mutant of checkOrder: only the same pool is looked for. *)
checkOrderSamePoolOnly(c, p) == IF slot[c][p] # NoTarget THEN "hand-off" ELSE "ok"

(* holding lists the leases in the order they were acquired, so a lease of *)
(* the pool itself is met before one of a later pool.                      *)
checkOrder(c, p) ==
    IF slot[c][p] # NoTarget THEN "hand-off"
    ELSE IF \E q \in Pools : slot[c][q] # NoTarget /\ Order[q] > Order[p]
         THEN "order" ELSE "ok"

(* The waiters of p that could be given a slot now. *)
Eligible(p) == {c \in Waiters(p) : canGrant(p, request[c].target)}

Starving(p) == {c \in Eligible(p) : bypassed[c] >= StarvationLimit}

(* Mutant of IsNext: the starving waiters get no precedence. *)
IsNextByClassOnly(c, p) ==
    /\ c \in Eligible(p)
    /\ \A d \in Eligible(p) :
          /\ request[c].rank <= request[d].rank
          /\ request[c].rank = request[d].rank => d \notin ahead[c]

(* The oldest starving waiter, else the oldest of the most urgent class. *)
IsNext(c, p) ==
    IF Starving(p) # {}
    THEN /\ c \in Starving(p)
         /\ ahead[c] \cap Starving(p) = {}
    ELSE /\ c \in Eligible(p)
         /\ \A d \in Eligible(p) :
               /\ request[c].rank <= request[d].rank
               /\ request[c].rank = request[d].rank => d \notin ahead[c]

(* grant: the counters of the pool and the lease the caller receives. *)
grant(c, p, t) ==
    /\ active' = [active EXCEPT ![p] = @ + 1]
    /\ activeByTarget' = [activeByTarget EXCEPT ![p][t] = @ + 1]
    /\ slot' = [slot EXCEPT ![c][p] = t]
    /\ nest' = [nest EXCEPT ![c] = Append(@, p)]
    /\ outcome' = [outcome EXCEPT ![c] = "granted"]

(* The waiters in C leave the queue. *)
Leave(C) ==
    /\ waitsIn' = [c \in Callers |-> IF c \in C THEN NoPool ELSE waitsIn[c]]
    /\ request' = [c \in Callers |-> IF c \in C THEN NoRequest ELSE request[c]]
    /\ ahead' = [c \in Callers |-> IF c \in C THEN {} ELSE ahead[c] \ C]

-----------------------------------------------------------------------------
Init ==
    /\ active = [p \in Pools |-> 0]
    /\ activeByTarget = [p \in Pools |-> [t \in Targets |-> 0]]
    /\ closed = {}
    /\ slot = [c \in Callers |-> [p \in Pools |-> NoTarget]]
    /\ nest = [c \in Callers |-> <<>>]
    /\ waitsIn = [c \in Callers |-> NoPool]
    /\ request = [c \in Callers |-> NoRequest]
    /\ bypassed = [c \in Callers |-> 0]
    /\ ahead = [c \in Callers |-> {}]
    /\ outcome = [c \in Callers |-> "none"]
    /\ draining = NoPool

(* A caller awaits its acquisition, so it starts no other one meanwhile. *)
Ready(c) == draining = NoPool /\ waitsIn[c] = NoPool

queue == <<waitsIn, request, bypassed, ahead>>
counts == <<active, activeByTarget, slot>>

AcquireHandOff(c, p) ==
    /\ Ready(c)
    /\ checkOrder(c, p) = "hand-off"
    /\ Len(nest[c]) < MaxNested
    /\ nest' = [nest EXCEPT ![c] = Append(@, p)]
    /\ outcome' = [outcome EXCEPT ![c] = "handedOff"]
    /\ UNCHANGED <<counts, closed, queue, draining>>

(* Why acquire turns c away from p, in the order of the early returns. *)
Refusal(c, p, t, critical, aborted) ==
    CASE checkOrder(c, p) = "order" -> "order"
      [] checkOrder(c, p) = "ok" /\ p \in closed -> "unavailable"
      [] checkOrder(c, p) = "ok" /\ p \notin closed /\ critical -> "order"
      [] checkOrder(c, p) = "ok" /\ p \notin closed /\ ~critical /\ aborted -> "cancelled"
      [] checkOrder(c, p) = "ok" /\ p \notin closed /\ ~critical /\ ~aborted
            /\ ~(Waiters(p) = {} /\ canGrant(p, t))
            /\ Cardinality(Waiters(p)) >= MaxWaiting -> "capacity"
      [] OTHER -> "none"

AcquireRefused(c, p, t, critical, aborted) ==
    /\ Ready(c)
    /\ Refusal(c, p, t, critical, aborted) # "none"
    /\ outcome' = [outcome EXCEPT ![c] = Refusal(c, p, t, critical, aborted)]
    /\ UNCHANGED <<counts, closed, nest, queue, draining>>

(* Mutant of Admissible: acquire forgets that the pool was closed. *)
AdmissibleWhenClosed(c, p) == Ready(c) /\ checkOrder(c, p) = "ok"

(* Past every early return of acquire. *)
Admissible(c, p) ==
    /\ Ready(c)
    /\ checkOrder(c, p) = "ok"
    /\ p \notin closed

AcquireNow(c, p, t) ==
    /\ Admissible(c, p)
    /\ Waiters(p) = {}
    /\ canGrant(p, t)
    /\ grant(c, p, t)
    /\ UNCHANGED <<closed, queue, draining>>

AcquireWait(c, p, t, rank) ==
    /\ Admissible(c, p)
    /\ ~(Waiters(p) = {} /\ canGrant(p, t))
    /\ Cardinality(Waiters(p)) < MaxWaiting
    /\ waitsIn' = [waitsIn EXCEPT ![c] = p]
    /\ request' = [request EXCEPT ![c] = [target |-> t, rank |-> rank]]
    /\ bypassed' = [bypassed EXCEPT ![c] = 0]
    /\ ahead' = [ahead EXCEPT ![c] = Waiters(p)]
    /\ outcome' = [outcome EXCEPT ![c] = "none"]
    /\ draining' = p
    /\ UNCHANGED <<counts, closed, nest>>

(* The signal of a waiting request fires. *)
Abort(c) ==
    /\ draining = NoPool
    /\ waitsIn[c] # NoPool
    /\ Leave({c})
    /\ bypassed' = [bypassed EXCEPT ![c] = 0]
    /\ outcome' = [outcome EXCEPT ![c] = "cancelled"]
    /\ draining' = waitsIn[c]
    /\ UNCHANGED <<counts, closed, nest>>

(* run() releases a lease when its work settled, so after the leases       *)
(* nested in that work: always the innermost one.                          *)
Innermost(c, p) == Len(nest[c]) > 0 /\ nest[c][Len(nest[c])] = p

Pop(c) == nest' = [nest EXCEPT ![c] = SubSeq(@, 1, Len(@) - 1)]

HandedOff(c, p) == \E i \in 1..(Len(nest[c]) - 1) : nest[c][i] = p

(* Mutant of Release: the freed slot is not offered to the waiters. *)
ReleaseWithoutDrain(c, p) ==
    /\ Ready(c) /\ Innermost(c, p) /\ ~HandedOff(c, p) /\ Pop(c)
    /\ active' = [active EXCEPT ![p] = @ - 1]
    /\ activeByTarget' = [activeByTarget EXCEPT ![p][slot[c][p]] = @ - 1]
    /\ slot' = [slot EXCEPT ![c][p] = NoTarget]
    /\ UNCHANGED <<closed, queue, outcome, draining>>

(* Mutant of Release: a hand-off lease returns its parent's slot as well. *)
ReleaseEveryLease(c, p) ==
    /\ Ready(c) /\ Innermost(c, p) /\ Pop(c)
    /\ active' = [active EXCEPT ![p] = @ - 1]
    /\ activeByTarget' = [activeByTarget EXCEPT ![p] = [t \in Targets |->
                             IF t = slot[c][p] THEN @[t] - 1 ELSE @[t]]]
    /\ slot' = [slot EXCEPT ![c][p] = NoTarget]
    /\ draining' = p
    /\ UNCHANGED <<closed, queue, outcome>>

(* The release callback of a granted lease: it returns the slot and drains. *)
Release(c, p) ==
    /\ Ready(c)
    /\ Innermost(c, p)
    /\ ~HandedOff(c, p)
    /\ Pop(c)
    /\ active' = [active EXCEPT ![p] = @ - 1]
    /\ activeByTarget' = [activeByTarget EXCEPT ![p][slot[c][p]] = @ - 1]
    /\ slot' = [slot EXCEPT ![c][p] = NoTarget]
    /\ draining' = p
    /\ UNCHANGED <<closed, queue, outcome>>

(* A hand-off lease owns no slot: its release callback does nothing. *)
ReleaseHandOff(c, p) ==
    /\ Ready(c)
    /\ Innermost(c, p)
    /\ HandedOff(c, p)
    /\ Pop(c)
    /\ UNCHANGED <<counts, closed, queue, outcome, draining>>

close(p) ==
    /\ draining = NoPool
    /\ p \notin closed
    /\ closed' = closed \cup {p}
    /\ Leave(Waiters(p))
    /\ bypassed' = [c \in Callers |-> IF c \in Waiters(p) THEN 0 ELSE bypassed[c]]
    /\ outcome' = [c \in Callers |-> IF c \in Waiters(p) THEN "unavailable" ELSE outcome[c]]
    /\ UNCHANGED <<counts, nest, draining>>

(* One iteration of the drain loop. *)
DrainGrant(c, p) ==
    /\ draining = p
    /\ IsNext(c, p)
    /\ bypassed' = [d \in Callers |->
                       IF d = c THEN 0
                       ELSE IF d \in Eligible(p) THEN bypassed[d] + 1
                       ELSE bypassed[d]]
    /\ Leave({c})
    /\ grant(c, p, request[c].target)
    /\ UNCHANGED <<closed, draining>>

DrainEnd(p) ==
    /\ draining = p
    /\ Eligible(p) = {}
    /\ draining' = NoPool
    /\ UNCHANGED <<counts, closed, nest, queue, outcome>>

Acquire(c, p) ==
    \/ AcquireHandOff(c, p)
    \/ \E t \in Targets, critical, aborted \in BOOLEAN :
           AcquireRefused(c, p, t, critical, aborted)
    \/ \E t \in Targets : AcquireNow(c, p, t)
    \/ \E t \in Targets, rank \in Ranks : AcquireWait(c, p, t, rank)

Settle(c, p) == Release(c, p) \/ ReleaseHandOff(c, p)

Drain(p) == DrainEnd(p) \/ \E c \in Callers : DrainGrant(c, p)

Next ==
    \/ \E c \in Callers, p \in Pools : Acquire(c, p) \/ Settle(c, p)
    \/ \E c \in Callers : Abort(c)
    \/ \E p \in Pools : close(p) \/ Drain(p)

Spec == Init /\ [][Next]_vars

(* The work of every lease settles, whatever it nests: a lease that is     *)
(* innermost again and again is released.  A started drain loop runs to    *)
(* its end.  Nothing makes a caller acquire, abort or close.               *)
SettleAt(c, depth) == Len(nest[c]) = depth /\ \E p \in Pools : Settle(c, p)

Fairness ==
    /\ \A c \in Callers, depth \in 1..(MaxNested + Cardinality(Pools)) : SF_vars(SettleAt(c, depth))
    /\ \A p \in Pools : WF_vars(Drain(p))

FairSpec == Spec /\ Fairness

-----------------------------------------------------------------------------
(* Every variable keeps its type: no counter goes below zero. *)
TypeOK ==
    /\ active \in [Pools -> Nat]
    /\ activeByTarget \in [Pools -> [Targets -> Nat]]
    /\ closed \subseteq Pools
    /\ slot \in [Callers -> [Pools -> Targets \cup {NoTarget}]]
    /\ nest \in [Callers -> Seq(Pools)]
    /\ waitsIn \in [Callers -> Pools \cup {NoPool}]
    /\ request \in [Callers -> Requests \cup {NoRequest}]
    /\ bypassed \in [Callers -> Nat]
    /\ ahead \in [Callers -> SUBSET Callers]
    /\ outcome \in [Callers -> Outcomes]
    /\ draining \in Pools \cup {NoPool}

(* The counters are exactly the unreleased granted leases, and they never  *)
(* exceed the limits: no interleaving of grants, aborts, releases and      *)
(* close() leaks a slot or counts one twice.                               *)
SlotsBounded ==
    \A p \in Pools :
        /\ Cardinality(Holders(p)) <= MaxConcurrent
        /\ \A t \in Targets : Cardinality(HoldersOf(p, t)) <= MaxPerTarget

(* Work conservation: outside a drain loop, no waiter could be granted.    *)
(* Every path that frees a slot or adds a waiter must therefore drain.     *)
NoIdleSlot ==
    draining = NoPool => \A p \in Pools : Eligible(p) = {}

(* However many more urgent requests arrive, an eligible waiter is passed  *)
(* over at most StarvationLimit times, plus once for each waiter that was  *)
(* queued before it and is starving as well.                               *)
StarvationBound ==
    \A c \in Callers :
        waitsIn[c] # NoPool => bypassed[c] <= StarvationLimit + MaxWaiting - 1

(* A closed pool has no waiter left to hang: close() rejected all of them  *)
(* and acquire lets no new one in.                                         *)
ClosedHasNoWaiter == \A p \in closed : Waiters(p) = {}

(* A caller waits only for a pool later in the order than all it holds.    *)
WaitsInOrder ==
    \A c \in Callers, q \in Pools :
        (waitsIn[c] # NoPool /\ slot[c][q] # NoTarget) => Order[q] < Order[waitsIn[c]]

(* Nobody waits for ever: with nested pools saturated, with aborts, closes *)
(* and an endless stream of more urgent requests, every wait ends.         *)
EveryWaitEnds == \A c \in Callers : (waitsIn[c] # NoPool) ~> (waitsIn[c] = NoPool)
=============================================================================
