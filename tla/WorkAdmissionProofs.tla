------------------------ MODULE WorkAdmissionProofs ------------------------
(***************************************************************************)
(* Proofs about WorkAdmission for every set of pools, callers and targets  *)
(* and every value of the limits.                                          *)
(***************************************************************************)
EXTENDS WorkAdmission, FiniteSetTheorems, TLAPS

(* The counters of a pool are the numbers of its unreleased leases. *)
Accounting ==
    \A p \in Pools :
        /\ active[p] = Cardinality(Holders(p))
        /\ active[p] <= MaxConcurrent
        /\ \A t \in Targets :
              /\ activeByTarget[p][t] = Cardinality(HoldersOf(p, t))
              /\ activeByTarget[p][t] <= MaxPerTarget

(* An unreleased lease is backed by a slot of its pool. *)
NestBacked ==
    \A c \in Callers : \A i \in 1..Len(nest[c]) : slot[c][nest[c][i]] # NoTarget

(* A waiter has a request and no slot of the pool it waits for. *)
WaitersAsk ==
    \A c \in Callers : waitsIn[c] # NoPool =>
        /\ request[c] \in Requests
        /\ slot[c][waitsIn[c]] = NoTarget

(* Only the pool being drained has a waiter that could be granted. *)
OnlyDrainingIdle == \A p \in Pools : p # draining => Eligible(p) = {}

(* ahead is the order of arrival of the waiters of a pool. *)
QueueOrder ==
    \A c \in Callers :
        /\ waitsIn[c] # NoPool => ahead[c] \subseteq Waiters(waitsIn[c]) \ {c}
        /\ \A d \in Callers :
              (waitsIn[c] # NoPool /\ waitsIn[d] = waitsIn[c] /\ c # d)
                 => (c \in ahead[d] \/ d \in ahead[c])

QueueBounded == \A p \in Pools : Cardinality(Waiters(p)) <= MaxWaiting

(* Once starving, a waiter is passed over only by waiters ahead of it. *)
BypassBudget ==
    \A c \in Callers : waitsIn[c] # NoPool =>
        \/ bypassed[c] <= StarvationLimit
        \/ bypassed[c] + Cardinality(ahead[c]) <= StarvationLimit + MaxWaiting - 1

IInv ==
    /\ TypeOK
    /\ Accounting
    /\ NestBacked
    /\ WaitersAsk
    /\ OnlyDrainingIdle
    /\ QueueOrder
    /\ QueueBounded
    /\ BypassBudget
    /\ ClosedHasNoWaiter
    /\ WaitsInOrder

-----------------------------------------------------------------------------
(* Every set of callers is finite, and so is its cardinality a number. *)
LEMMA CallerSetsFinite ==
    ASSUME NEW S \in SUBSET Callers
    PROVE  IsFiniteSet(S) /\ Cardinality(S) \in Nat
BY FS_Subset, FS_CardinalityType, PoolAssumption

(* grant() keeps the counters equal to the leases and within the limits. *)
LEMMA GrantAccounts ==
    ASSUME TypeOK, Accounting,
           NEW c \in Callers, NEW p \in Pools, NEW t \in Targets,
           slot[c][p] = NoTarget, canGrant(p, t), grant(c, p, t)
    PROVE  Accounting'
<1>1. ASSUME NEW q \in Pools
      PROVE  /\ active'[q] = Cardinality(Holders(q)')
             /\ active'[q] <= MaxConcurrent
  <2>1. active[q] = Cardinality(Holders(q)) /\ active[q] <= MaxConcurrent
    BY DEF Accounting
  <2>2. IsFiniteSet(Holders(q)) /\ active[q] \in Nat
    BY CallerSetsFinite DEF Holders, TypeOK
  <2>3. CASE q = p
    <3>1. Holders(q)' = Holders(q) \cup {c} /\ c \notin Holders(q)
      BY <2>3, PoolAssumption DEF TypeOK, Holders, grant
    <3>2. Cardinality(Holders(q)') = Cardinality(Holders(q)) + 1
      BY <2>2, <3>1, FS_AddElement
    <3>3. active'[q] = active[q] + 1 /\ active[q] < MaxConcurrent
      BY <2>3 DEF TypeOK, grant, canGrant
    <3> QED BY <2>1, <2>2, <3>2, <3>3, LimitAssumption
  <2>4. CASE q # p
    <3>1. Holders(q)' = Holders(q) /\ active'[q] = active[q]
      BY <2>4 DEF TypeOK, Holders, grant
    <3> QED BY <2>1, <3>1
  <2> QED BY <2>3, <2>4
<1>2. ASSUME NEW q \in Pools, NEW u \in Targets
      PROVE  /\ activeByTarget'[q][u] = Cardinality(HoldersOf(q, u)')
             /\ activeByTarget'[q][u] <= MaxPerTarget
  <2>1. /\ activeByTarget[q][u] = Cardinality(HoldersOf(q, u))
        /\ activeByTarget[q][u] <= MaxPerTarget
    BY DEF Accounting
  <2>2. IsFiniteSet(HoldersOf(q, u)) /\ activeByTarget[q][u] \in Nat
    BY CallerSetsFinite DEF HoldersOf, TypeOK
  <2>3. CASE q = p /\ u = t
    <3>1. HoldersOf(q, u)' = HoldersOf(q, u) \cup {c} /\ c \notin HoldersOf(q, u)
      BY <2>3, PoolAssumption DEF TypeOK, HoldersOf, grant
    <3>2. Cardinality(HoldersOf(q, u)') = Cardinality(HoldersOf(q, u)) + 1
      BY <2>2, <3>1, FS_AddElement
    <3>3. activeByTarget'[q][u] = activeByTarget[q][u] + 1
      BY <2>3 DEF TypeOK, grant
    <3>4. activeByTarget[q][u] < MaxPerTarget
      BY <2>3 DEF canGrant
    <3> QED BY <2>1, <2>2, <3>2, <3>3, <3>4, LimitAssumption
  <2>4. CASE ~(q = p /\ u = t)
    <3>1. HoldersOf(q, u)' = HoldersOf(q, u)
      BY <2>4, PoolAssumption DEF TypeOK, HoldersOf, grant
    <3>2. activeByTarget'[q][u] = activeByTarget[q][u]
      BY <2>4 DEF TypeOK, grant
    <3> QED BY <2>1, <3>1, <3>2
  <2> QED BY <2>3, <2>4
<1> QED BY <1>1, <1>2 DEF Accounting

(* The release callback returns exactly the slot of its lease. *)
LEMMA ReleaseAccounts ==
    ASSUME TypeOK, Accounting, NestBacked,
           NEW c \in Callers, NEW p \in Pools, Release(c, p)
    PROVE  /\ Accounting'
           /\ slot[c][p] \in Targets
           /\ active' \in [Pools -> Nat]
           /\ activeByTarget' \in [Pools -> [Targets -> Nat]]
<1> DEFINE t == slot[c][p]
<1>1. t \in Targets
  <2>1. nest[c] \in Seq(Pools) /\ Len(nest[c]) > 0 /\ nest[c][Len(nest[c])] = p
    BY DEF TypeOK, Release, Innermost
  <2>2. Len(nest[c]) \in 1..Len(nest[c])
    BY <2>1
  <2>3. slot[c][nest[c][Len(nest[c])]] # NoTarget
    BY <2>2 DEF NestBacked
  <2>4. slot[c][p] # NoTarget
    BY <2>1, <2>3
  <2> QED BY <2>4 DEF TypeOK
<1>2. ASSUME NEW q \in Pools
      PROVE  /\ active'[q] = Cardinality(Holders(q)')
             /\ active'[q] <= MaxConcurrent
             /\ active'[q] \in Nat
  <2>1. active[q] = Cardinality(Holders(q)) /\ active[q] <= MaxConcurrent
    BY DEF Accounting
  <2>2. IsFiniteSet(Holders(q)) /\ active[q] \in Nat
    BY CallerSetsFinite DEF Holders, TypeOK
  <2>3. CASE q = p
    <3>1. Holders(q)' = Holders(q) \ {c} /\ c \in Holders(q)
      BY <1>1, <2>3, PoolAssumption DEF TypeOK, Holders, Release
    <3>2. /\ Cardinality(Holders(q)') = Cardinality(Holders(q)) - 1
          /\ Cardinality(Holders(q)') \in Nat
      BY <2>2, <3>1, FS_RemoveElement, FS_CardinalityType
    <3>3. active'[q] = active[q] - 1
      BY <2>3 DEF TypeOK, Release
    <3> QED BY <2>1, <2>2, <3>2, <3>3, LimitAssumption
  <2>4. CASE q # p
    <3>1. Holders(q)' = Holders(q) /\ active'[q] = active[q]
      BY <2>4 DEF TypeOK, Holders, Release
    <3> QED BY <2>1, <2>2, <3>1
  <2> QED BY <2>3, <2>4
<1>3. ASSUME NEW q \in Pools, NEW u \in Targets
      PROVE  /\ activeByTarget'[q][u] = Cardinality(HoldersOf(q, u)')
             /\ activeByTarget'[q][u] <= MaxPerTarget
             /\ activeByTarget'[q][u] \in Nat
  <2>1. /\ activeByTarget[q][u] = Cardinality(HoldersOf(q, u))
        /\ activeByTarget[q][u] <= MaxPerTarget
    BY DEF Accounting
  <2>2. IsFiniteSet(HoldersOf(q, u)) /\ activeByTarget[q][u] \in Nat
    BY CallerSetsFinite DEF HoldersOf, TypeOK
  <2>3. CASE q = p /\ u = t
    <3>1. HoldersOf(q, u)' = HoldersOf(q, u) \ {c} /\ c \in HoldersOf(q, u)
      BY <1>1, <2>3, PoolAssumption DEF TypeOK, HoldersOf, Release
    <3>2. /\ Cardinality(HoldersOf(q, u)') = Cardinality(HoldersOf(q, u)) - 1
          /\ Cardinality(HoldersOf(q, u)') \in Nat
      BY <2>2, <3>1, FS_RemoveElement, FS_CardinalityType
    <3>3. activeByTarget'[q][u] = activeByTarget[q][u] - 1
      BY <2>3 DEF TypeOK, Release
    <3> QED BY <2>1, <2>2, <3>2, <3>3, LimitAssumption
  <2>4. CASE ~(q = p /\ u = t)
    <3>1. HoldersOf(q, u)' = HoldersOf(q, u)
      BY <2>4, PoolAssumption DEF TypeOK, HoldersOf, Release
    <3>2. activeByTarget'[q][u] = activeByTarget[q][u]
      BY <1>1, <2>4 DEF TypeOK, Release
    <3> QED BY <2>1, <2>2, <3>1, <3>2
  <2> QED BY <2>3, <2>4
<1>4. active' \in [Pools -> Nat]
  BY <1>2 DEF TypeOK, Release
<1>5. activeByTarget' \in [Pools -> [Targets -> Nat]]
  <2>1. activeByTarget' = [q \in Pools |-> [u \in Targets |-> activeByTarget'[q][u]]]
    BY <1>1 DEF TypeOK, Release
  <2> QED BY <1>3, <2>1
<1> QED BY <1>1, <1>2, <1>3, <1>4, <1>5 DEF Accounting

(* Waiters that leave keep the order and the bound of those that stay. *)
LEMMA LeaveKeepsQueue ==
    ASSUME TypeOK, QueueOrder, QueueBounded, NEW C \in SUBSET Callers, Leave(C)
    PROVE  /\ QueueOrder' /\ QueueBounded'
           /\ waitsIn' \in [Callers -> Pools \cup {NoPool}]
           /\ request' \in [Callers -> Requests \cup {NoRequest}]
           /\ ahead' \in [Callers -> SUBSET Callers]
           /\ \A c \in Callers : waitsIn'[c] # NoPool =>
                 /\ c \notin C /\ waitsIn'[c] = waitsIn[c]
                 /\ request'[c] = request[c] /\ ahead'[c] = ahead[c] \ C
<1>1. \A c \in Callers : waitsIn'[c] # NoPool =>
                 /\ c \notin C /\ waitsIn'[c] = waitsIn[c]
                 /\ request'[c] = request[c] /\ ahead'[c] = ahead[c] \ C
  BY DEF Leave, TypeOK
<1>2. /\ waitsIn' \in [Callers -> Pools \cup {NoPool}]
      /\ request' \in [Callers -> Requests \cup {NoRequest}]
      /\ ahead' \in [Callers -> SUBSET Callers]
  BY DEF Leave, TypeOK
<1>3. QueueOrder'
  <2> SUFFICES ASSUME NEW c \in Callers
               PROVE  /\ waitsIn'[c] # NoPool => ahead'[c] \subseteq Waiters(waitsIn[c])' \ {c}
                      /\ \A d \in Callers :
                           (waitsIn'[c] # NoPool /\ waitsIn'[d] = waitsIn'[c] /\ c # d)
                             => (c \in ahead'[d] \/ d \in ahead'[c])
    BY DEF QueueOrder, Waiters
  <2>1. ASSUME waitsIn'[c] # NoPool
        PROVE  ahead'[c] \subseteq Waiters(waitsIn[c])' \ {c}
    <3>1. ahead[c] \subseteq {d \in Callers : waitsIn[d] = waitsIn[c]} \ {c}
      BY <1>1, <2>1 DEF QueueOrder, Waiters
    <3>2. \A d \in ahead[c] \ C : waitsIn'[d] = waitsIn[d]
      BY <3>1 DEF Leave
    <3> QED BY <1>1, <2>1, <3>1, <3>2 DEF Waiters
  <2>2. ASSUME NEW d \in Callers, waitsIn'[c] # NoPool, waitsIn'[d] = waitsIn'[c], c # d
        PROVE  c \in ahead'[d] \/ d \in ahead'[c]
    BY <1>1, <2>2 DEF QueueOrder
  <2> QED BY <2>1, <2>2
<1>4. QueueBounded'
  <2> SUFFICES ASSUME NEW p \in Pools PROVE Cardinality(Waiters(p)') <= MaxWaiting
    BY DEF QueueBounded
  <2>1. Waiters(p)' \subseteq Waiters(p) /\ Waiters(p) \in SUBSET Callers
    BY <1>1, PoolAssumption DEF Waiters
  <2>2. /\ Cardinality(Waiters(p)') <= Cardinality(Waiters(p))
        /\ Cardinality(Waiters(p)') \in Nat /\ Cardinality(Waiters(p)) \in Nat
    BY <2>1, CallerSetsFinite, FS_Subset
  <2> QED BY <2>2, LimitAssumption DEF QueueBounded
<1> QED BY <1>1, <1>2, <1>3, <1>4

(* The bypass budget survives any step that only removes waiters. *)
LEMMA LeaveKeepsBudget ==
    ASSUME TypeOK, BypassBudget, NEW C \in SUBSET Callers, Leave(C),
           \A c \in Callers : c \notin C => bypassed'[c] = bypassed[c]
    PROVE  BypassBudget'
<1> SUFFICES ASSUME NEW c \in Callers, waitsIn'[c] # NoPool
             PROVE  \/ bypassed'[c] <= StarvationLimit
                    \/ bypassed'[c] + Cardinality(ahead'[c]) <= StarvationLimit + MaxWaiting - 1
  BY DEF BypassBudget
<1>1. /\ c \notin C /\ waitsIn[c] # NoPool /\ bypassed'[c] = bypassed[c]
      /\ ahead'[c] = ahead[c] \ C /\ ahead[c] \in SUBSET Callers
  BY DEF Leave, TypeOK
<1>2. /\ Cardinality(ahead'[c]) <= Cardinality(ahead[c])
      /\ Cardinality(ahead'[c]) \in Nat /\ Cardinality(ahead[c]) \in Nat
  <2>1. ahead[c] \ C \in SUBSET ahead[c] /\ ahead[c] \ C \in SUBSET Callers
    BY <1>1
  <2> QED BY <1>1, <2>1, CallerSetsFinite, FS_Subset
<1>3. \/ bypassed[c] <= StarvationLimit
      \/ bypassed[c] + Cardinality(ahead[c]) <= StarvationLimit + MaxWaiting - 1
  BY <1>1 DEF BypassBudget
<1>4. bypassed[c] \in Nat
  BY DEF TypeOK
<1> QED BY <1>1, <1>2, <1>3, <1>4, LimitAssumption

-----------------------------------------------------------------------------
LEMMA InitEstablishes == Init => IInv
<1> SUFFICES ASSUME Init PROVE IInv
  OBVIOUS
<1> USE PoolAssumption, LimitAssumption
<1>1. TypeOK
  BY DEF Init, TypeOK, Requests, NoRequest, Outcomes
<1>2. Accounting
  <2>1. ASSUME NEW p \in Pools PROVE Holders(p) = {}
    BY DEF Init, Holders
  <2>2. ASSUME NEW p \in Pools, NEW t \in Targets PROVE HoldersOf(p, t) = {}
    BY DEF Init, HoldersOf
  <2>3. ASSUME NEW p \in Pools
        PROVE  active[p] = Cardinality(Holders(p)) /\ active[p] <= MaxConcurrent
    <3>1. active[p] = 0
      BY DEF Init
    <3> QED BY <2>1, <3>1, FS_EmptySet
  <2>4. ASSUME NEW p \in Pools, NEW t \in Targets
        PROVE  /\ activeByTarget[p][t] = Cardinality(HoldersOf(p, t))
               /\ activeByTarget[p][t] <= MaxPerTarget
    <3>1. activeByTarget[p][t] = 0 /\ 0 <= MaxPerTarget
      BY DEF Init
    <3>2. Cardinality(HoldersOf(p, t)) = 0
      BY <2>2, FS_EmptySet
    <3> QED BY <3>1, <3>2
  <2> QED BY <2>3, <2>4 DEF Accounting
<1>3. \A c \in Callers : waitsIn[c] = NoPool
  BY DEF Init
<1>4. \A p \in Pools : Waiters(p) = {}
  BY <1>3 DEF Waiters
<1>5. NestBacked
  BY DEF Init, NestBacked
<1>6. WaitersAsk /\ WaitsInOrder /\ BypassBudget
  BY <1>3 DEF WaitersAsk, WaitsInOrder, BypassBudget
<1>7. OnlyDrainingIdle
  BY <1>4 DEF OnlyDrainingIdle, Eligible
<1>8. QueueOrder
  BY <1>3 DEF QueueOrder
<1>9. QueueBounded /\ ClosedHasNoWaiter
  <2>1. ASSUME NEW p \in Pools PROVE Cardinality(Waiters(p)) <= MaxWaiting
    BY <1>4, FS_EmptySet
  <2> QED BY <1>4, <2>1 DEF QueueBounded, ClosedHasNoWaiter, Init
<1> QED BY <1>1, <1>2, <1>5, <1>6, <1>7, <1>8, <1>9 DEF IInv

(* A lease added to the nesting of c is backed by the slot it was given. *)
LEMMA PushBacked ==
    ASSUME TypeOK, NestBacked, NEW c \in Callers, NEW p \in Pools,
           nest' = [nest EXCEPT ![c] = Append(@, p)],
           slot'[c][p] # NoTarget,
           \A d \in Callers, q \in Pools : slot[d][q] # NoTarget => slot'[d][q] # NoTarget
    PROVE  nest' \in [Callers -> Seq(Pools)] /\ NestBacked'
<1>1. nest[c] \in Seq(Pools) /\ Append(nest[c], p) \in Seq(Pools)
  BY DEF TypeOK
<1>2. nest' \in [Callers -> Seq(Pools)]
  BY <1>1 DEF TypeOK
<1>3. ASSUME NEW d \in Callers, NEW i \in 1..Len(nest'[d])
      PROVE  slot'[d][nest'[d][i]] # NoTarget
  <2>1. CASE d = c
    <3>1. nest'[d] = Append(nest[c], p)
      BY <2>1 DEF TypeOK
    <3>2. \A j \in 1..(Len(nest[c]) + 1) :
            Append(nest[c], p)[j] = IF j = Len(nest[c]) + 1 THEN p ELSE nest[c][j]
      BY <1>1
    <3>3. i = Len(nest[c]) + 1 \/ (i \in 1..Len(nest[c]) /\ nest[c][i] \in Pools)
      BY <1>1, <3>1
    <3>4. i \in 1..(Len(nest[c]) + 1)
      BY <1>1, <3>3
    <3>5. nest'[d][i] = IF i = Len(nest[c]) + 1 THEN p ELSE nest[c][i]
      BY <3>1, <3>2, <3>4
    <3> QED BY <2>1, <3>3, <3>5 DEF NestBacked
  <2>2. CASE d # c
    <3>1. nest'[d] = nest[d] /\ nest[d] \in Seq(Pools)
      BY <2>2 DEF TypeOK
    <3>2. i \in 1..Len(nest[d])
      BY <3>1
    <3>3. nest[d][i] \in Pools
      BY <3>1, <3>2
    <3> QED BY <3>1, <3>2, <3>3 DEF NestBacked
  <2> QED BY <2>1, <2>2
<1> QED BY <1>2, <1>3 DEF NestBacked

(* Removing the innermost lease of c leaves the others backed. *)
LEMMA PopBacked ==
    ASSUME TypeOK, NEW c \in Callers, Pop(c), Len(nest[c]) > 0,
           \A i \in 1..(Len(nest[c]) - 1) : slot'[c][nest[c][i]] # NoTarget,
           \A d \in Callers \ {c} : \A i \in 1..Len(nest[d]) : slot'[d][nest[d][i]] # NoTarget
    PROVE  nest' \in [Callers -> Seq(Pools)] /\ NestBacked'
<1>1. nest[c] \in Seq(Pools)
  BY DEF TypeOK
<1>2. /\ SubSeq(nest[c], 1, Len(nest[c]) - 1) \in Seq(Pools)
      /\ Len(SubSeq(nest[c], 1, Len(nest[c]) - 1)) = Len(nest[c]) - 1
      /\ \A i \in 1..(Len(nest[c]) - 1) : SubSeq(nest[c], 1, Len(nest[c]) - 1)[i] = nest[c][i]
  BY <1>1
<1>3. nest' \in [Callers -> Seq(Pools)]
  BY <1>2 DEF TypeOK, Pop
<1>4. ASSUME NEW d \in Callers, NEW i \in 1..Len(nest'[d])
      PROVE  slot'[d][nest'[d][i]] # NoTarget
  <2>1. CASE d = c
    <3>1. nest'[d] = SubSeq(nest[c], 1, Len(nest[c]) - 1)
      BY <2>1 DEF TypeOK, Pop
    <3>2. i \in 1..(Len(nest[c]) - 1)
      BY <1>2, <3>1
    <3>3. nest'[d][i] = nest[c][i]
      BY <1>2, <3>1, <3>2
    <3> QED BY <2>1, <3>2, <3>3
  <2>2. CASE d # c
    BY <2>2 DEF TypeOK, Pop
  <2> QED BY <2>1, <2>2
<1> QED BY <1>3, <1>4 DEF NestBacked

(* The parts of the invariant that say nothing of nesting and outcomes. *)
PoolInv ==
    /\ Accounting /\ WaitersAsk /\ OnlyDrainingIdle /\ QueueOrder
    /\ QueueBounded /\ BypassBudget /\ ClosedHasNoWaiter /\ WaitsInOrder

LEMMA PoolInvFrame ==
    ASSUME PoolInv,
           UNCHANGED <<active, activeByTarget, closed, slot, waitsIn, request, bypassed,
                       ahead, draining>>
    PROVE  PoolInv'
<1>1. Accounting'
  BY DEF PoolInv, Accounting, Holders, HoldersOf
<1>2. WaitersAsk' /\ QueueOrder' /\ WaitsInOrder'
  BY DEF PoolInv, WaitersAsk, QueueOrder, Waiters, WaitsInOrder
<1>3. QueueBounded' /\ ClosedHasNoWaiter'
  BY DEF PoolInv, QueueBounded, Waiters, ClosedHasNoWaiter
<1>4. BypassBudget'
  BY DEF PoolInv, BypassBudget
<1>5. OnlyDrainingIdle'
  BY DEF PoolInv, OnlyDrainingIdle, Eligible, Waiters, canGrant
<1> QED BY <1>1, <1>2, <1>3, <1>4, <1>5 DEF PoolInv

(* A hand-off lease comes and goes without touching the pool. *)
LEMMA NestingStep ==
    ASSUME IInv, NEW c \in Callers, NEW p \in Pools,
           AcquireHandOff(c, p) \/ ReleaseHandOff(c, p)
    PROVE  IInv'
<1>1. UNCHANGED <<active, activeByTarget, slot, closed, waitsIn, request, bypassed, ahead, draining>>
  BY DEF AcquireHandOff, ReleaseHandOff, counts, queue
<1>2. outcome' \in [Callers -> Outcomes]
  BY DEF AcquireHandOff, ReleaseHandOff, IInv, TypeOK, Outcomes
<1>3. nest' \in [Callers -> Seq(Pools)] /\ NestBacked'
  <2>1. CASE AcquireHandOff(c, p)
    <3>1. nest' = [nest EXCEPT ![c] = Append(@, p)] /\ slot'[c][p] # NoTarget
      BY <1>1, <2>1 DEF AcquireHandOff, checkOrder
    <3> QED BY <1>1, <3>1, PushBacked DEF IInv
  <2>2. CASE ReleaseHandOff(c, p)
    <3>1. Pop(c) /\ Len(nest[c]) > 0
      BY <2>2 DEF ReleaseHandOff, Innermost
    <3>2. \A i \in 1..(Len(nest[c]) - 1) : i \in 1..Len(nest[c])
      BY DEF IInv, TypeOK
    <3> QED BY <1>1, <3>1, <3>2, PopBacked DEF IInv, NestBacked
  <2> QED BY <2>1, <2>2
<1>4. TypeOK'
  BY <1>1, <1>2, <1>3 DEF IInv, TypeOK
<1> QED BY <1>1, <1>3, <1>4, PoolInvFrame DEF IInv, PoolInv

(* An acquisition turned away changes nothing but its outcome. *)
LEMMA RefusedStep ==
    ASSUME IInv, NEW c \in Callers, NEW p \in Pools, NEW t \in Targets,
           NEW critical \in BOOLEAN, NEW aborted \in BOOLEAN,
           AcquireRefused(c, p, t, critical, aborted)
    PROVE  IInv'
<1>1. UNCHANGED <<active, activeByTarget, slot, nest, closed, waitsIn, request, bypassed,
                  ahead, draining>>
  BY DEF AcquireRefused, counts, queue
<1>2. Refusal(c, p, t, critical, aborted) \in Outcomes
  BY DEF Refusal, Outcomes
<1>3. TypeOK'
  BY <1>1, <1>2 DEF AcquireRefused, IInv, TypeOK
<1>4. NestBacked'
  BY <1>1 DEF IInv, NestBacked
<1> QED BY <1>1, <1>3, <1>4, PoolInvFrame DEF IInv, PoolInv

(* The immediate grant of acquire. *)
LEMMA AcquireNowStep ==
    ASSUME IInv, NEW c \in Callers, NEW p \in Pools, NEW t \in Targets,
           AcquireNow(c, p, t)
    PROVE  IInv'
<1>1. /\ UNCHANGED <<closed, waitsIn, request, bypassed, ahead, draining>>
      /\ grant(c, p, t) /\ canGrant(p, t) /\ Waiters(p) = {}
  BY DEF AcquireNow, queue
<1>2. slot[c][p] = NoTarget /\ waitsIn[c] = NoPool
  BY DEF AcquireNow, Admissible, checkOrder, Ready
<1>3. Accounting'
  BY <1>1, <1>2, GrantAccounts DEF IInv
<1>4. \A d \in Callers, q \in Pools :
          slot'[d][q] = IF d = c /\ q = p THEN t ELSE slot[d][q]
  BY <1>1 DEF IInv, TypeOK, grant
<1>5. nest' \in [Callers -> Seq(Pools)] /\ NestBacked'
  <2>1. slot'[c][p] # NoTarget
    BY <1>4, PoolAssumption
  <2>2. \A d \in Callers, q \in Pools : slot[d][q] # NoTarget => slot'[d][q] # NoTarget
    BY <1>4, <2>1
  <2> QED BY <1>1, <2>1, <2>2, PushBacked DEF IInv, grant
<1>6. TypeOK'
  BY <1>1, <1>5 DEF IInv, TypeOK, grant, Outcomes
<1>7. WaitersAsk'
  BY <1>1, <1>2, <1>4 DEF IInv, TypeOK, WaitersAsk
<1>8. OnlyDrainingIdle'
  <2> SUFFICES ASSUME NEW q \in Pools, q # draining PROVE Eligible(q)' = {}
    BY <1>1 DEF OnlyDrainingIdle
  <2>1. CASE q = p
    BY <1>1, <2>1 DEF Eligible, Waiters
  <2>2. CASE q # p
    <3>1. active'[q] = active[q] /\ activeByTarget'[q] = activeByTarget[q]
      BY <1>1, <2>2 DEF IInv, TypeOK, grant
    <3>2. Eligible(q) = {}
      BY DEF IInv, OnlyDrainingIdle
    <3> QED BY <1>1, <3>1, <3>2 DEF Eligible, Waiters, canGrant
  <2> QED BY <2>1, <2>2
<1>9. QueueOrder' /\ BypassBudget'
  BY <1>1 DEF IInv, QueueOrder, Waiters, BypassBudget
<1>10. QueueBounded' /\ ClosedHasNoWaiter'
  BY <1>1 DEF IInv, QueueBounded, ClosedHasNoWaiter, Waiters
<1>11. WaitsInOrder'
  BY <1>1, <1>2, <1>4 DEF IInv, WaitsInOrder
<1> QED BY <1>3, <1>5, <1>6, <1>7, <1>8, <1>9, <1>10, <1>11 DEF IInv

(* A request that joins the queue. *)
LEMMA AcquireWaitStep ==
    ASSUME IInv, NEW c \in Callers, NEW p \in Pools, NEW t \in Targets, NEW rank \in Ranks,
           AcquireWait(c, p, t, rank)
    PROVE  IInv'
<1>1. UNCHANGED <<active, activeByTarget, slot, nest, closed>> /\ draining' = p
  BY DEF AcquireWait, counts
<1>2. /\ draining = NoPool /\ waitsIn[c] = NoPool /\ p \notin closed
      /\ slot[c][p] = NoTarget
      /\ \A q \in Pools : slot[c][q] # NoTarget => ~(Order[q] > Order[p])
      /\ Cardinality(Waiters(p)) < MaxWaiting
  BY DEF AcquireWait, Admissible, checkOrder, Ready
<1>3. /\ \A d \in Callers : waitsIn'[d] = IF d = c THEN p ELSE waitsIn[d]
      /\ \A d \in Callers : ahead'[d] = IF d = c THEN Waiters(p) ELSE ahead[d]
      /\ \A d \in Callers : request'[d] = IF d = c THEN [target |-> t, rank |-> rank] ELSE request[d]
      /\ \A d \in Callers : bypassed'[d] = IF d = c THEN 0 ELSE bypassed[d]
  BY DEF AcquireWait, IInv, TypeOK
<1>4. Waiters(p) \in SUBSET Callers /\ c \notin Waiters(p)
  BY <1>2, PoolAssumption DEF Waiters
<1>5. TypeOK'
  BY <1>1, <1>4 DEF AcquireWait, IInv, TypeOK, Requests, Outcomes
<1>6. Accounting'
  BY <1>1 DEF IInv, Accounting, Holders, HoldersOf
<1>7. NestBacked'
  BY <1>1 DEF IInv, NestBacked
<1>8. WaitersAsk'
  BY <1>1, <1>2, <1>3 DEF IInv, WaitersAsk, Requests
<1>9. ASSUME NEW q \in Pools
      PROVE  Waiters(q)' = IF q = p THEN Waiters(p) \cup {c} ELSE Waiters(q)
  BY <1>2, <1>3, PoolAssumption DEF Waiters
<1>10. OnlyDrainingIdle'
  <2> SUFFICES ASSUME NEW q \in Pools, q # p PROVE Eligible(q)' = {}
    BY <1>1 DEF OnlyDrainingIdle
  <2>1. Eligible(q) = {}
    BY <1>2, PoolAssumption DEF IInv, OnlyDrainingIdle
  <2> QED BY <1>1, <1>3, <2>1 DEF Eligible, Waiters, canGrant
<1>11. QueueOrder'
  <2>1. ASSUME NEW d \in Callers, waitsIn'[d] # NoPool
        PROVE  ahead'[d] \subseteq Waiters(waitsIn[d])' \ {d}
    <3>1. CASE d = c
      BY <1>2, <1>3, <1>4, <3>1 DEF Waiters
    <3>2. CASE d # c
      <4>1. ahead'[d] = ahead[d] /\ waitsIn'[d] = waitsIn[d]
        BY <1>3, <3>2
      <4>2. ahead[d] \subseteq Waiters(waitsIn[d]) \ {d}
        BY <2>1, <4>1 DEF IInv, QueueOrder
      <4>3. \A e \in ahead[d] : e \in Callers /\ waitsIn'[e] = waitsIn[d]
        BY <1>2, <1>3, <2>1, <4>1, <4>2 DEF Waiters
      <4> QED BY <4>1, <4>2, <4>3 DEF Waiters
    <3> QED BY <3>1, <3>2
  <2>2. ASSUME NEW d \in Callers, NEW e \in Callers,
               waitsIn'[d] # NoPool, waitsIn'[e] = waitsIn'[d], d # e
        PROVE  d \in ahead'[e] \/ e \in ahead'[d]
    <3>1. CASE d = c
      BY <1>3, <2>2, <3>1 DEF Waiters
    <3>2. CASE e = c
      BY <1>3, <2>2, <3>2 DEF Waiters
    <3>3. CASE d # c /\ e # c
      BY <1>3, <2>2, <3>3 DEF IInv, QueueOrder
    <3> QED BY <3>1, <3>2, <3>3
  <2> QED BY <2>1, <2>2 DEF QueueOrder, Waiters
<1>12. QueueBounded'
  <2> SUFFICES ASSUME NEW q \in Pools PROVE Cardinality(Waiters(q)') <= MaxWaiting
    BY DEF QueueBounded
  <2>1. CASE q = p
    <3>1. Waiters(q)' = Waiters(p) \cup {c}
      BY <1>9, <2>1
    <3>2. Cardinality(Waiters(p) \cup {c}) = Cardinality(Waiters(p)) + 1
      BY <1>4, CallerSetsFinite, FS_AddElement
    <3>3. Cardinality(Waiters(p)) \in Nat
      BY <1>4, CallerSetsFinite
    <3> QED BY <1>2, <3>1, <3>2, <3>3, LimitAssumption
  <2>2. CASE q # p
    <3>1. Waiters(q)' = Waiters(q)
      BY <1>9, <2>2
    <3> QED BY <3>1 DEF IInv, QueueBounded
  <2> QED BY <2>1, <2>2
<1>13. BypassBudget'
  BY <1>3, LimitAssumption DEF IInv, BypassBudget
<1>14. ClosedHasNoWaiter'
  <2> SUFFICES ASSUME NEW q \in closed PROVE Waiters(q)' = {}
    BY <1>1 DEF ClosedHasNoWaiter
  <2>1. q \in Pools /\ q # p /\ Waiters(q) = {}
    BY <1>2 DEF IInv, TypeOK, ClosedHasNoWaiter
  <2> QED BY <1>9, <2>1
<1>15. WaitsInOrder'
  <2> SUFFICES ASSUME NEW d \in Callers, NEW q \in Pools, waitsIn'[d] # NoPool, slot[d][q] # NoTarget
               PROVE  Order[q] < Order[waitsIn'[d]]
    BY <1>1 DEF WaitsInOrder
  <2>1. CASE d = c
    <3>1. waitsIn'[d] = p /\ q # p /\ ~(Order[q] > Order[p])
      BY <1>2, <1>3, <2>1
    <3>2. Order[q] # Order[p] /\ Order[q] \in Nat /\ Order[p] \in Nat
      BY <3>1, PoolAssumption
    <3> QED BY <3>1, <3>2
  <2>2. CASE d # c
    BY <1>3, <2>2 DEF IInv, WaitsInOrder
  <2> QED BY <2>1, <2>2
<1> QED BY <1>5, <1>6, <1>7, <1>8, <1>10, <1>11, <1>12, <1>13, <1>14, <1>15 DEF IInv

(* A waiting request that is aborted. *)
LEMMA AbortStep ==
    ASSUME IInv, NEW c \in Callers, Abort(c)
    PROVE  IInv'
<1>1. /\ UNCHANGED <<active, activeByTarget, slot, nest, closed>>
      /\ draining = NoPool /\ draining' = waitsIn[c] /\ waitsIn[c] # NoPool
      /\ Leave({c}) /\ {c} \in SUBSET Callers
  BY DEF Abort, counts
<1>2. /\ QueueOrder' /\ QueueBounded'
      /\ waitsIn' \in [Callers -> Pools \cup {NoPool}]
      /\ request' \in [Callers -> Requests \cup {NoRequest}]
      /\ ahead' \in [Callers -> SUBSET Callers]
      /\ \A d \in Callers : waitsIn'[d] # NoPool =>
            /\ d \notin {c} /\ waitsIn'[d] = waitsIn[d]
            /\ request'[d] = request[d] /\ ahead'[d] = ahead[d] \ {c}
  BY <1>1, LeaveKeepsQueue DEF IInv
<1>3. TypeOK'
  BY <1>1, <1>2 DEF Abort, IInv, TypeOK, Outcomes
<1>4. BypassBudget'
  <2>1. \A d \in Callers : d \notin {c} => bypassed'[d] = bypassed[d]
    BY DEF Abort, IInv, TypeOK
  <2> QED BY <1>1, <2>1, LeaveKeepsBudget DEF IInv
<1>5. Accounting'
  BY <1>1 DEF IInv, Accounting, Holders, HoldersOf
<1>6. NestBacked'
  BY <1>1 DEF IInv, NestBacked
<1>7. WaitersAsk' /\ WaitsInOrder'
  BY <1>1, <1>2 DEF IInv, WaitersAsk, WaitsInOrder
<1>8. OnlyDrainingIdle'
  <2> SUFFICES ASSUME NEW q \in Pools PROVE Eligible(q)' = {}
    BY DEF OnlyDrainingIdle
  <2>1. Eligible(q) = {}
    BY <1>1, PoolAssumption DEF IInv, OnlyDrainingIdle
  <2> QED BY <1>1, <1>2, <2>1, PoolAssumption DEF Eligible, Waiters, canGrant
<1>9. ClosedHasNoWaiter'
  <2> SUFFICES ASSUME NEW q \in closed PROVE Waiters(q)' = {}
    BY <1>1 DEF ClosedHasNoWaiter
  <2>1. q \in Pools /\ Waiters(q) = {}
    BY DEF IInv, TypeOK, ClosedHasNoWaiter
  <2> QED BY <1>2, <2>1, PoolAssumption DEF Waiters
<1> QED BY <1>2, <1>3, <1>4, <1>5, <1>6, <1>7, <1>8, <1>9 DEF IInv

(* close() rejects the waiters of its pool. *)
LEMMA CloseStep ==
    ASSUME IInv, NEW p \in Pools, close(p)
    PROVE  IInv'
<1> DEFINE C == Waiters(p)
<1>1. /\ UNCHANGED <<active, activeByTarget, slot, nest, draining>>
      /\ closed' = closed \cup {p} /\ Leave(C)
  BY DEF close, counts
<1>2. C \in SUBSET Callers
  BY DEF Waiters
<1>3. /\ QueueOrder' /\ QueueBounded'
      /\ waitsIn' \in [Callers -> Pools \cup {NoPool}]
      /\ request' \in [Callers -> Requests \cup {NoRequest}]
      /\ ahead' \in [Callers -> SUBSET Callers]
      /\ \A d \in Callers : waitsIn'[d] # NoPool =>
            /\ d \notin C /\ waitsIn'[d] = waitsIn[d]
            /\ request'[d] = request[d] /\ ahead'[d] = ahead[d] \ C
  BY <1>1, <1>2, LeaveKeepsQueue DEF IInv
<1>4. TypeOK'
  BY <1>1, <1>3 DEF close, IInv, TypeOK, Outcomes
<1>5. BypassBudget'
  <2>1. \A d \in Callers : d \notin C => bypassed'[d] = bypassed[d]
    BY DEF close
  <2> QED BY <1>1, <1>2, <2>1, LeaveKeepsBudget DEF IInv
<1>6. Accounting'
  BY <1>1 DEF IInv, Accounting, Holders, HoldersOf
<1>7. NestBacked'
  BY <1>1 DEF IInv, NestBacked
<1>8. WaitersAsk' /\ WaitsInOrder'
  BY <1>1, <1>3 DEF IInv, WaitersAsk, WaitsInOrder
<1>9. ASSUME NEW q \in Pools PROVE Waiters(q)' \subseteq Waiters(q) \ C
  BY <1>3, PoolAssumption DEF Waiters
<1>10. OnlyDrainingIdle'
  <2> SUFFICES ASSUME NEW q \in Pools, q # draining PROVE Eligible(q)' = {}
    BY <1>1 DEF OnlyDrainingIdle
  <2>1. Eligible(q) = {}
    BY DEF IInv, OnlyDrainingIdle
  <2> QED BY <1>1, <1>3, <2>1, PoolAssumption DEF Eligible, Waiters, canGrant
<1>11. ClosedHasNoWaiter'
  <2> SUFFICES ASSUME NEW q \in closed \cup {p} PROVE Waiters(q)' = {}
    BY <1>1 DEF ClosedHasNoWaiter
  <2>1. q \in Pools /\ (q = p \/ Waiters(q) = {})
    BY DEF IInv, TypeOK, ClosedHasNoWaiter
  <2> QED BY <1>9, <2>1
<1> QED BY <1>3, <1>4, <1>5, <1>6, <1>7, <1>8, <1>10, <1>11 DEF IInv

(* A granted lease is released. *)
LEMMA ReleaseStep ==
    ASSUME IInv, NEW c \in Callers, NEW p \in Pools, Release(c, p)
    PROVE  IInv'
<1>1. /\ UNCHANGED <<closed, waitsIn, request, bypassed, ahead, outcome>>
      /\ draining = NoPool /\ draining' = p /\ waitsIn[c] = NoPool
      /\ Pop(c) /\ Innermost(c, p) /\ ~HandedOff(c, p)
  BY DEF Release, queue, Ready
<1>2. /\ Accounting' /\ slot[c][p] \in Targets
      /\ active' \in [Pools -> Nat]
      /\ activeByTarget' \in [Pools -> [Targets -> Nat]]
  BY ReleaseAccounts DEF IInv
<1>3. \A d \in Callers, q \in Pools :
          slot'[d][q] = IF d = c /\ q = p THEN NoTarget ELSE slot[d][q]
  BY DEF Release, IInv, TypeOK
<1>4. nest' \in [Callers -> Seq(Pools)] /\ NestBacked'
  <2>1. Len(nest[c]) > 0 /\ nest[c] \in Seq(Pools)
    BY <1>1 DEF Innermost, IInv, TypeOK
  <2>2. ASSUME NEW i \in 1..(Len(nest[c]) - 1) PROVE slot'[c][nest[c][i]] # NoTarget
    <3>1. i \in 1..Len(nest[c])
      BY <2>1
    <3>2. nest[c][i] \in Pools /\ slot[c][nest[c][i]] # NoTarget
      BY <2>1, <3>1 DEF IInv, NestBacked
    <3>3. nest[c][i] # p
      BY <1>1 DEF HandedOff
    <3> QED BY <1>3, <3>2, <3>3
  <2>3. ASSUME NEW d \in Callers \ {c}, NEW i \in 1..Len(nest[d])
        PROVE  slot'[d][nest[d][i]] # NoTarget
    <3>1. nest[d] \in Seq(Pools)
      BY DEF IInv, TypeOK
    <3>2. nest[d][i] \in Pools /\ slot[d][nest[d][i]] # NoTarget
      BY <3>1 DEF IInv, NestBacked
    <3> QED BY <1>3, <3>2
  <2> QED BY <1>1, <2>1, <2>2, <2>3, PopBacked DEF IInv
<1>5. TypeOK'
  <2>1. slot' \in [Callers -> [Pools -> Targets \cup {NoTarget}]]
    BY DEF Release, IInv, TypeOK
  <2> QED BY <1>1, <1>2, <1>4, <2>1 DEF IInv, TypeOK
<1>6. WaitersAsk' /\ WaitsInOrder'
  BY <1>1, <1>3 DEF IInv, TypeOK, WaitersAsk, WaitsInOrder
<1>7. OnlyDrainingIdle'
  <2> SUFFICES ASSUME NEW q \in Pools, q # p PROVE Eligible(q)' = {}
    BY <1>1 DEF OnlyDrainingIdle
  <2>1. active'[q] = active[q] /\ activeByTarget'[q] = activeByTarget[q]
    BY DEF Release, IInv, TypeOK
  <2>2. Eligible(q) = {}
    BY <1>1, PoolAssumption DEF IInv, OnlyDrainingIdle
  <2> QED BY <1>1, <2>1, <2>2 DEF Eligible, Waiters, canGrant
<1>8. QueueOrder' /\ BypassBudget'
  BY <1>1 DEF IInv, QueueOrder, Waiters, BypassBudget
<1>9. QueueBounded' /\ ClosedHasNoWaiter'
  BY <1>1 DEF IInv, QueueBounded, ClosedHasNoWaiter, Waiters
<1> QED BY <1>2, <1>4, <1>5, <1>6, <1>7, <1>8, <1>9 DEF IInv

(* One iteration of the drain loop.  A starving waiter passed over here is *)
(* passed over by one that is ahead of it, and that one leaves.            *)
LEMMA DrainGrantStep ==
    ASSUME IInv, NEW c \in Callers, NEW p \in Pools, DrainGrant(c, p)
    PROVE  IInv'
<1> DEFINE t == request[c].target
<1>1. /\ UNCHANGED <<closed, draining>> /\ draining = p
      /\ Leave({c}) /\ {c} \in SUBSET Callers /\ grant(c, p, t)
  BY DEF DrainGrant
<1>2. c \in Eligible(p)
  BY DEF DrainGrant, IsNext, Starving
<1>3. waitsIn[c] = p /\ canGrant(p, t)
  BY <1>2 DEF Eligible, Waiters
<1>4. t \in Targets /\ slot[c][p] = NoTarget
  BY <1>3, PoolAssumption DEF IInv, WaitersAsk, Requests
<1>5. /\ QueueOrder' /\ QueueBounded'
      /\ waitsIn' \in [Callers -> Pools \cup {NoPool}]
      /\ request' \in [Callers -> Requests \cup {NoRequest}]
      /\ ahead' \in [Callers -> SUBSET Callers]
      /\ \A d \in Callers : waitsIn'[d] # NoPool =>
            /\ d \notin {c} /\ waitsIn'[d] = waitsIn[d]
            /\ request'[d] = request[d] /\ ahead'[d] = ahead[d] \ {c}
  BY <1>1, LeaveKeepsQueue DEF IInv
<1>6. Accounting'
  BY <1>1, <1>3, <1>4, GrantAccounts DEF IInv
<1>7. \A d \in Callers, q \in Pools :
          slot'[d][q] = IF d = c /\ q = p THEN t ELSE slot[d][q]
  BY <1>1 DEF IInv, TypeOK, grant
<1>8. nest' \in [Callers -> Seq(Pools)] /\ NestBacked'
  <2>1. slot'[c][p] # NoTarget
    BY <1>4, <1>7, PoolAssumption
  <2>2. \A d \in Callers, q \in Pools : slot[d][q] # NoTarget => slot'[d][q] # NoTarget
    BY <1>7, <2>1
  <2> QED BY <1>1, <2>1, <2>2, PushBacked DEF IInv, grant
<1>9. bypassed' \in [Callers -> Nat]
  BY DEF DrainGrant, IInv, TypeOK
<1>10. TypeOK'
  BY <1>1, <1>4, <1>5, <1>8, <1>9 DEF IInv, TypeOK, grant, Outcomes
<1>11. WaitersAsk' /\ WaitsInOrder'
  BY <1>5, <1>7 DEF IInv, WaitersAsk, WaitsInOrder
<1>12. OnlyDrainingIdle'
  <2> SUFFICES ASSUME NEW q \in Pools, q # p PROVE Eligible(q)' = {}
    BY <1>1 DEF OnlyDrainingIdle
  <2>1. active'[q] = active[q] /\ activeByTarget'[q] = activeByTarget[q]
    BY <1>1 DEF IInv, TypeOK, grant
  <2>2. Eligible(q) = {}
    BY <1>1 DEF IInv, OnlyDrainingIdle
  <2> QED BY <1>5, <2>1, <2>2, PoolAssumption DEF Eligible, Waiters, canGrant
<1>13. ClosedHasNoWaiter'
  <2> SUFFICES ASSUME NEW q \in closed PROVE Waiters(q)' = {}
    BY <1>1 DEF ClosedHasNoWaiter
  <2>1. q \in Pools /\ Waiters(q) = {}
    BY DEF IInv, TypeOK, ClosedHasNoWaiter
  <2> QED BY <1>5, <2>1, PoolAssumption DEF Waiters
<1>14. BypassBudget'
  <2> SUFFICES ASSUME NEW d \in Callers, waitsIn'[d] # NoPool
               PROVE  \/ bypassed'[d] <= StarvationLimit
                      \/ bypassed'[d] + Cardinality(ahead'[d]) <= StarvationLimit + MaxWaiting - 1
    BY DEF BypassBudget
  <2>1. /\ d # c /\ waitsIn[d] = waitsIn'[d] /\ waitsIn[d] \in Pools
        /\ ahead'[d] = ahead[d] \ {c} /\ ahead[d] \in SUBSET Callers
    BY <1>5 DEF IInv, TypeOK
  <2>2. /\ Cardinality(ahead'[d]) \in Nat /\ Cardinality(ahead[d]) \in Nat
        /\ Cardinality(ahead'[d]) = IF c \in ahead[d] THEN Cardinality(ahead[d]) - 1
                                                     ELSE Cardinality(ahead[d])
    <3>1. IsFiniteSet(ahead[d]) /\ Cardinality(ahead[d]) \in Nat
      BY <2>1, CallerSetsFinite
    <3>2. ahead'[d] \in SUBSET Callers
      BY <2>1
    <3>3. Cardinality(ahead'[d]) \in Nat
      BY <3>2, CallerSetsFinite
    <3> QED BY <2>1, <3>1, <3>3, FS_RemoveElement
  <2>3. /\ bypassed[d] \in Nat
        /\ \/ bypassed[d] <= StarvationLimit
           \/ bypassed[d] + Cardinality(ahead[d]) <= StarvationLimit + MaxWaiting - 1
    BY <2>1 DEF IInv, TypeOK, BypassBudget
  <2>4. CASE d \notin Eligible(p)
    <3>1. bypassed'[d] = bypassed[d]
      BY <2>1, <2>4 DEF DrainGrant
    <3> QED BY <2>2, <2>3, <3>1, LimitAssumption
  <2>5. CASE d \in Eligible(p) /\ bypassed[d] < StarvationLimit
    <3>1. bypassed'[d] = bypassed[d] + 1
      BY <2>1, <2>5 DEF DrainGrant
    <3> QED BY <2>3, <2>5, <3>1, LimitAssumption
  <2>6. CASE d \in Eligible(p) /\ bypassed[d] >= StarvationLimit
    <3>1. bypassed'[d] = bypassed[d] + 1
      BY <2>1, <2>6 DEF DrainGrant
    <3>2. d \in Starving(p)
      BY <2>6 DEF Starving
    <3>3. d \notin ahead[c]
      BY <3>2 DEF DrainGrant, IsNext
    <3>4. waitsIn[d] = p
      BY <2>6 DEF Eligible, Waiters
    <3>5. c \in ahead[d]
      BY <1>3, <2>1, <3>3, <3>4 DEF IInv, QueueOrder
    <3>6. Cardinality(ahead[d]) + 1 <= MaxWaiting
      <4>1. /\ ahead[d] \cup {d} \in SUBSET Waiters(p) /\ d \notin ahead[d]
            /\ Waiters(p) \in SUBSET Callers
        BY <2>1, <3>4 DEF IInv, QueueOrder, Waiters
      <4>2. /\ IsFiniteSet(Waiters(p)) /\ IsFiniteSet(ahead[d])
            /\ Cardinality(Waiters(p)) \in Nat
        BY <2>1, <4>1, CallerSetsFinite
      <4>3. Cardinality(ahead[d] \cup {d}) = Cardinality(ahead[d]) + 1
        BY <4>1, <4>2, FS_AddElement
      <4>4. Cardinality(ahead[d] \cup {d}) <= Cardinality(Waiters(p))
        BY <4>1, <4>2, FS_Subset
      <4>5. Cardinality(Waiters(p)) <= MaxWaiting
        BY DEF IInv, QueueBounded
      <4> QED BY <2>2, <4>2, <4>3, <4>4, <4>5, LimitAssumption
    <3>7. Cardinality(ahead'[d]) = Cardinality(ahead[d]) - 1
      BY <2>2, <3>5
    <3> QED BY <2>2, <2>3, <2>6, <3>1, <3>6, <3>7, LimitAssumption
  <2> QED BY <2>3, <2>4, <2>5, <2>6, LimitAssumption
<1> QED BY <1>5, <1>6, <1>8, <1>10, <1>11, <1>12, <1>13, <1>14 DEF IInv

(* The drain loop ends when no waiter of its pool can be granted. *)
LEMMA DrainEndStep ==
    ASSUME IInv, NEW p \in Pools, DrainEnd(p)
    PROVE  IInv'
<1>1. /\ UNCHANGED <<active, activeByTarget, slot, nest, closed, waitsIn, request, bypassed,
                     ahead, outcome>>
      /\ draining = p /\ draining' = NoPool /\ Eligible(p) = {}
  BY DEF DrainEnd, counts, queue
<1>2. TypeOK'
  BY <1>1 DEF IInv, TypeOK
<1>3. Accounting'
  BY <1>1 DEF IInv, Accounting, Holders, HoldersOf
<1>4. NestBacked' /\ WaitersAsk' /\ WaitsInOrder'
  BY <1>1 DEF IInv, NestBacked, WaitersAsk, WaitsInOrder
<1>5. QueueOrder' /\ BypassBudget'
  BY <1>1 DEF IInv, QueueOrder, Waiters, BypassBudget
<1>6. QueueBounded' /\ ClosedHasNoWaiter'
  BY <1>1 DEF IInv, QueueBounded, ClosedHasNoWaiter, Waiters
<1>7. OnlyDrainingIdle'
  BY <1>1 DEF IInv, OnlyDrainingIdle, Eligible, Waiters, canGrant
<1> QED BY <1>2, <1>3, <1>4, <1>5, <1>6, <1>7 DEF IInv

-----------------------------------------------------------------------------
(* The inductive invariant holds in every reachable state of the pools. *)
THEOREM InductiveInvariant == Spec => []IInv
<1>1. IInv /\ [Next]_vars => IInv'
  <2> SUFFICES ASSUME IInv, [Next]_vars PROVE IInv'
    OBVIOUS
  <2>1. CASE UNCHANGED vars
    <3>1. TypeOK' /\ NestBacked'
      BY <2>1 DEF vars, IInv, TypeOK, NestBacked
    <3> QED BY <2>1, <3>1, PoolInvFrame DEF vars, IInv, PoolInv
  <2>2. ASSUME NEW c \in Callers, NEW p \in Pools, Acquire(c, p) PROVE IInv'
    BY <2>2, NestingStep, RefusedStep, AcquireNowStep, AcquireWaitStep DEF Acquire
  <2>3. ASSUME NEW c \in Callers, NEW p \in Pools, Settle(c, p) PROVE IInv'
    BY <2>3, NestingStep, ReleaseStep DEF Settle
  <2>4. ASSUME NEW c \in Callers, Abort(c) PROVE IInv'
    BY <2>4, AbortStep
  <2>5. ASSUME NEW p \in Pools, close(p) \/ Drain(p) PROVE IInv'
    BY <2>5, CloseStep, DrainEndStep, DrainGrantStep DEF Drain
  <2> QED BY <2>1, <2>2, <2>3, <2>4, <2>5 DEF Next
<1> QED BY InitEstablishes, <1>1, PTL DEF Spec

(* Every reachable state has the declared types. *)
THEOREM TypeCorrect == Spec => []TypeOK
<1>1. IInv => TypeOK
  BY DEF IInv
<1> QED BY <1>1, InductiveInvariant, PTL

(* No interleaving exceeds maxConcurrent or maxPerTarget. *)
THEOREM SlotsAlwaysBounded == Spec => []SlotsBounded
<1>1. IInv => SlotsBounded
  BY DEF IInv, Accounting, SlotsBounded
<1> QED BY <1>1, InductiveInvariant, PTL

(* No slot idles beside an eligible waiter once a drain loop has ended. *)
THEOREM NeverIdleSlot == Spec => []NoIdleSlot
<1>1. IInv => NoIdleSlot
  BY PoolAssumption DEF IInv, OnlyDrainingIdle, NoIdleSlot
<1> QED BY <1>1, InductiveInvariant, PTL

(* No waiter is passed over more than starvationLimit + maxWaiting - 1 times. *)
THEOREM StarvationAlwaysBounded == Spec => []StarvationBound
<1>1. IInv => StarvationBound
  <2> SUFFICES ASSUME IInv, NEW c \in Callers, waitsIn[c] # NoPool
               PROVE  bypassed[c] <= StarvationLimit + MaxWaiting - 1
    BY DEF StarvationBound
  <2>1. waitsIn[c] \in Pools /\ ahead[c] \in SUBSET Callers /\ bypassed[c] \in Nat
    BY DEF IInv, TypeOK
  <2>2. Cardinality(ahead[c]) \in Nat
    BY <2>1, CallerSetsFinite
  <2>3. 1 <= MaxWaiting
    <3>1. c \in Waiters(waitsIn[c]) /\ Waiters(waitsIn[c]) \in SUBSET Callers
      BY DEF Waiters
    <3>2. IsFiniteSet(Waiters(waitsIn[c])) /\ Cardinality(Waiters(waitsIn[c])) \in Nat
      BY <3>1, CallerSetsFinite
    <3>3. Cardinality(Waiters(waitsIn[c])) # 0
      BY <3>1, <3>2, FS_EmptySet
    <3> QED BY <2>1, <3>2, <3>3, LimitAssumption DEF IInv, QueueBounded
  <2> QED BY <2>1, <2>2, <2>3, LimitAssumption DEF IInv, BypassBudget
<1> QED BY <1>1, InductiveInvariant, PTL

(* close() strands no waiter, and acquire lets none in afterwards. *)
THEOREM ClosedNeverStrands == Spec => []ClosedHasNoWaiter
<1>1. IInv => ClosedHasNoWaiter
  BY DEF IInv
<1> QED BY <1>1, InductiveInvariant, PTL

(* Nested acquisitions wait only upwards in the pool order. *)
THEOREM AlwaysWaitsInOrder == Spec => []WaitsInOrder
<1>1. IInv => WaitsInOrder
  BY DEF IInv
<1> QED BY <1>1, InductiveInvariant, PTL
=============================================================================
