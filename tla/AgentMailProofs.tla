-------------------------- MODULE AgentMailProofs --------------------------
(***************************************************************************)
(* Proofs about AgentMail: its types, that the queue and the placements    *)
(* agree, that a message is verified under the id it was sent with, that   *)
(* the agent gets a message once, and that one shown as delivered arrived. *)
(*                                                                         *)
(* Two inductive invariants.  MailInv has three parts.  StoreInv is about  *)
(* the store.  RestInv types the session, the provider and the history.    *)
(* DrainInv says what the injector may rely on at each of its places: its  *)
(* snapshot is out of date only in ways that do not matter, its batch was  *)
(* offered under the id it will be verified with, and the row or steer it  *)
(* opened is still there while it holds the lease.                         *)
(*                                                                         *)
(* OnceInv, the second half of the module, compares what the store and the *)
(* session believe of every message with what its agent got; it assumes    *)
(* MailInv, and that nobody overrules the journals (Undisturbed).          *)
(***************************************************************************)
EXTENDS AgentMail, SequenceTheorems, FiniteSetTheorems, TLAPS

-----------------------------------------------------------------------------
(* The store. *)

StoredEntries ==
    [id : Mail, verify : RidsOrNone, tries : 0..(MaxVerify + 1), steer : BOOLEAN,
     steerId : SteerIds \cup {NoRid}, held : BOOLEAN, deferred : BOOLEAN,
     reason : {"none", "held", "retrying", "verifying"}]

Pending == Members(pendingInject)

StoreTypes ==
    /\ placement \in [Mail -> {"unsent", "pending", "submitting", "injected", "failed"}]
    /\ pendingInject \in Seq(StoredEntries)

(* No message has two entries. *)
Unique ==
    \A j, k \in 1..Len(pendingInject) : pendingInject[j].id = pendingInject[k].id => j = k

(* The messages with an entry are those that wait or are claimed. *)
HasEntry ==
    \A m \in Mail : (\E e \in Pending : e.id = m) <=> placement[m] \in {"pending", "submitting"}

(* An entry that is verified is verified under an id that carried it; only *)
(* such an entry counts attempts.                                          *)
Carried == \A e \in Pending : IF e.verify = NoRid THEN e.tries = 0
                              ELSE e.id \in offered[e.verify]

StoreInv == StoreTypes /\ Unique /\ HasEntry /\ Carried

-----------------------------------------------------------------------------
(* The session, the provider, the history and the counters. *)

Rows == {NoDispatch} \cup [rid : Mail \cup {Typed}, mail : SUBSET Mail, refused : BOOLEAN]
Steers == {NoSteer} \cup [rid : SteerIds, mail : SUBSET Mail]

SessionTypes ==
    /\ pendingDispatch \in Rows /\ pendingSteer \in Steers
    /\ dispatched \subseteq Rids /\ retired \in RidsOrNone

ProviderTypes ==
    /\ taken \subseteq Rids /\ lost \subseteq Rids /\ turn \in {"idle", "busy"}
    /\ steerLog \in [SteerIds -> {"none", "dispatched", "absent"}]
    /\ seen \in [Mail -> Nat]

HistoryTypes ==
    /\ offered \in [Rids -> SUBSET Mail] /\ resent \in [Mail -> Nat] /\ strays \subseteq Mail

CounterTypes ==
    used \in [steers : Nat, releases : Nat, recoveries : Nat, typed : Nat,
              crashes : Nat, restarts : Nat]

RestInv == SessionTypes /\ ProviderTypes /\ HistoryTypes /\ CounterTypes

-----------------------------------------------------------------------------
(* The injector. *)

Statuses == {"dispatched", "not-dispatched", "unknown"}

Drains ==
    [at : Locations, list : Seq(StoredEntries), pos : Nat, from : Nat, batch : Seq(Mail),
     steer : SteerIds \cup {NoRid}, known : SUBSET (RidsOrNone \X Statuses),
     answer : Statuses \cup {"none", "busy", "free", "applied", "idle", "refused"},
     result : [what : Results, rid : RidsOrNone, steer : BOOLEAN]]

(* The snapshot of a pass, and the place in it. *)
ListInv ==
    /\ \A j, k \in 1..Len(drain.list) : drain.list[j].id = drain.list[k].id => j = k
    /\ drain.pos <= Len(drain.list)
    /\ drain.at \in {"next", "verdict", "claim"} => drain.pos >= 1
    /\ drain.at \in {"idle", "down", "asked"} => drain.list = <<>>
    /\ drain.at = "full" => drain.from \in 1..Len(drain.list)
    /\ drain.from >= 1 \/ drain.at # "gather"

(* The entries of the snapshot that the pass has still to verify. *)
ToVerify ==
    {k \in 1..Len(drain.list) :
        /\ drain.list[k].verify # NoRid
        /\ k > drain.pos \/ (k = drain.pos /\ drain.at \in {"next", "verdict"})}

(* Nobody else counts attempts: the snapshot's count is not too low. *)
Fresh == \A k \in ToVerify : \A e \in Pending :
            e.id = drain.list[k].id => e.tries <= drain.list[k].tries

(* The batch holds no message the pass has still to verify. *)
Ahead == \A k \in 1..Len(drain.list) : \A i \in 1..Len(drain.batch) :
            k > drain.pos /\ drain.list[k].id = drain.batch[i] => drain.list[k].verify = NoRid

(* The places of a pass with a batch that is being offered. *)
Offering == {"gather", "full", "steer", "steering", "steered", "dispatch", "sending",
             "record", "refused", "release"}

ToBeVerified == drain.at = "settle" /\ drain.result.what = "verify"

(* A claim may be verified once more: its attempts are not used up. *)
BatchInv ==
    /\ drain.at \in Offering => Len(drain.batch) >= 1
    /\ drain.at \in Offering \/ ToBeVerified =>
          \A i \in 1..Len(drain.batch) : \A e \in Pending :
             placement[drain.batch[i]] = "submitting" /\ e.id = drain.batch[i]
                => e.tries <= MaxVerify

(* The id a result names is the one the batch was offered under. *)
ResultInv ==
    /\ drain.result.steer => drain.result.rid \in SteerIds
    /\ drain.at = "verdict" /\ drain.result.what = "verify" =>
          /\ drain.result.rid # NoRid /\ drain.result.rid = Here.verify
          /\ Here.tries < MaxVerify
    /\ ToBeVerified => /\ drain.result.rid \in Rids
                       /\ Batch \subseteq offered[drain.result.rid]

(* What the injector opened under the lease is there until it closes it. *)
LeaseInv ==
    /\ drain.at \in {"steer", "steering", "steered"} => drain.steer \in SteerIds
    /\ drain.at \in {"steering", "steered"} =>
          pendingSteer # NoSteer /\ Batch \subseteq offered[drain.steer]
    /\ drain.at = "steered" => drain.answer \in {"applied", "idle", "refused", "unknown"}
    /\ drain.at \in {"sending", "refused"} => pendingDispatch.rid \in Mail

DrainInv == /\ drain \in Drains /\ ListInv /\ Fresh /\ Ahead
            /\ BatchInv /\ ResultInv /\ LeaseInv

MailInv == StoreInv /\ RestInv /\ DrainInv

-----------------------------------------------------------------------------
(* Request ids, and the store's operations. *)

LEMMA IdFacts ==
    /\ NoRid \notin Rids /\ NoRid \notin SteerIds /\ NoRid \notin Mail
    /\ Typed # NoRid
    /\ Mail \subseteq Rids /\ SteerIds \subseteq Rids /\ Typed \in Rids
    /\ RidsOrNone = Rids \cup {NoRid}
BY MailAssumption DEF Rids, SteerIds, RidsOrNone

(* The list without its k-th member. *)
LEMMA RemoveAtFacts ==
    ASSUME NEW S, NEW s \in Seq(S), NEW k \in 1..Len(s)
    PROVE  /\ Seqs!RemoveAt(s, k) \in Seq(S)
           /\ Len(Seqs!RemoveAt(s, k)) = Len(s) - 1
           /\ \A j \in 1..(Len(s) - 1) :
                 Seqs!RemoveAt(s, k)[j] = IF j < k THEN s[j] ELSE s[j + 1]
<1> DEFINE a == SubSeq(s, 1, k - 1)
           b == SubSeq(s, k + 1, Len(s))
<1>1. /\ a \in Seq(S) /\ Len(a) = k - 1
      /\ \A j \in 1..(k - 1) : a[j] = s[j]
  BY SubSeqProperties
<1>2. /\ b \in Seq(S) /\ Len(b) = Len(s) - k
      /\ \A j \in 1..(Len(s) - k) : b[j] = s[k + j]
  BY SubSeqProperties
<1>3. Seqs!RemoveAt(s, k) = a \o b
  BY DEF Seqs!RemoveAt
<1> HIDE DEF a, b
<1> QED
  BY <1>1, <1>2, <1>3, ConcatProperties

(* A fresh entry is an entry of the store. *)
LEMMA FreshEntry ==
    ASSUME NEW m \in Mail, NEW s \in BOOLEAN
    PROVE  /\ Entry(m, s) \in StoredEntries /\ Entry(m, s).id = m
           /\ Entry(m, s).verify = NoRid /\ Entry(m, s).tries = 0
           /\ Entry(m, s).steer = s
BY MailAssumption, IdFacts DEF Entry, StoredEntries

(* The entry of a message that has one. *)
LEMMA EntryFacts ==
    ASSUME StoreTypes, Unique, NEW m \in Mail, \E e \in Pending : e.id = m
    PROVE  /\ Queued(m) # {} /\ Index(m) \in 1..Len(pendingInject)
           /\ pendingInject[Index(m)].id = m
           /\ EntryOf(m) \in Pending /\ EntryOf(m) \in StoredEntries /\ EntryOf(m).id = m
           /\ \A e \in Pending : e.id = m => e = EntryOf(m)
<1>1. \E k \in 1..Len(pendingInject) : pendingInject[k].id = m
  BY DEF Pending, Members
<1>2. Queued(m) # {}
  BY <1>1 DEF Queued
<1>3. Index(m) \in Queued(m)
  BY <1>2 DEF Index
<1>4. Index(m) \in 1..Len(pendingInject) /\ pendingInject[Index(m)].id = m
  BY <1>3 DEF Queued
<1> QED
  BY <1>2, <1>4 DEF EntryOf, Pending, Members, Unique, StoreTypes

LEMMA NoEntry ==
    ASSUME NEW m, ~\E e \in Pending : e.id = m
    PROVE  Queued(m) = {}
BY DEF Queued, Pending, Members

LEMMA SomeEntry ==
    ASSUME NEW m, Queued(m) # {}
    PROVE  \E e \in Pending : e.id = m
BY DEF Queued, Pending, Members

LEMMA PendingTyped ==
    ASSUME StoreTypes
    PROVE  \A e \in Pending : e \in StoredEntries /\ e.id \in Mail
<1>1. \A k \in 1..Len(pendingInject) : pendingInject[k] \in StoredEntries
  BY DEF StoreTypes
<1>2. \A e \in StoredEntries : e.id \in Mail
  BY DEF StoredEntries
<1> QED
  BY <1>1, <1>2 DEF Pending, Members

LEMMA AppendStep ==
    ASSUME StoreTypes, Unique, NEW e \in StoredEntries, ~\E f \in Pending : f.id = e.id,
           pendingInject' = Append(pendingInject, e)
    PROVE  /\ pendingInject' \in Seq(StoredEntries) /\ Unique'
           /\ Pending' = Pending \cup {e}
<1> DEFINE n == Len(pendingInject)
<1>1. /\ n \in Nat /\ pendingInject' \in Seq(StoredEntries) /\ Len(pendingInject') = n + 1
      /\ pendingInject'[n + 1] = e
      /\ \A k \in 1..n : pendingInject'[k] = pendingInject[k]
  BY DEF StoreTypes
<1>2. \A k \in 1..n : pendingInject[k].id # e.id
  BY DEF Pending, Members
<1>3. Unique'
  BY <1>1, <1>2 DEF Unique
<1>4. Pending' = Pending \cup {e}
  <2>1. Pending' \subseteq Pending \cup {e}
    BY <1>1 DEF Pending, Members
  <2>2. Pending \subseteq Pending'
    BY <1>1 DEF Pending, Members
  <2>3. e \in Pending'
    BY <1>1, n + 1 \in 1..(n + 1) DEF Pending, Members
  <2> QED
    BY <2>1, <2>2, <2>3
<1> QED
  BY <1>1, <1>3, <1>4

LEMMA ReplaceStep ==
    ASSUME StoreTypes, Unique, NEW m \in Mail, \E f \in Pending : f.id = m,
           NEW e \in StoredEntries, e.id = m, pendingInject' = Replace(m, e)
    PROVE  /\ pendingInject' \in Seq(StoredEntries) /\ Unique'
           /\ Pending' = (Pending \ {EntryOf(m)}) \cup {e}
<1> DEFINE n == Len(pendingInject)
           i == Index(m)
<1>1. /\ i \in 1..n /\ n \in Nat /\ pendingInject[i].id = m
      /\ EntryOf(m) = pendingInject[i]
  BY EntryFacts DEF StoreTypes, EntryOf
<1>2. pendingInject' = [pendingInject EXCEPT ![i] = e]
  BY DEF Replace
<1> HIDE DEF i
<1>3. /\ pendingInject' \in Seq(StoredEntries) /\ Len(pendingInject') = n
      /\ \A k \in 1..n : pendingInject'[k] = IF k = i THEN e ELSE pendingInject[k]
  BY <1>1, <1>2 DEF StoreTypes
<1>4. Unique'
  BY <1>1, <1>3 DEF Unique
<1>5. Pending' = (Pending \ {EntryOf(m)}) \cup {e}
  <2>1. Pending' = {pendingInject'[k] : k \in 1..n}
    BY <1>3 DEF Pending, Members
  <2>2. \A k \in 1..n : k # i => pendingInject[k] # pendingInject[i]
    BY <1>1 DEF Unique
  <2>3. Pending = {pendingInject[k] : k \in 1..n}
    BY DEF Pending, Members
  <2> QED
    BY <1>1, <1>3, <2>1, <2>2, <2>3
<1> QED
  BY <1>3, <1>4, <1>5

LEMMA DropStep ==
    ASSUME StoreTypes, Unique, NEW m \in Mail, pendingInject' = Drop(m)
    PROVE  /\ pendingInject' \in Seq(StoredEntries) /\ Unique'
           /\ Pending' = {e \in Pending : e.id # m}
<1>1. CASE Queued(m) = {}
  <2>1. pendingInject' = pendingInject
    BY <1>1 DEF Drop
  <2>2. \A e \in Pending : e.id # m
    BY <1>1 DEF Queued, Pending, Members
  <2> QED
    BY <2>1, <2>2 DEF StoreTypes, Unique, Pending, Members
<1>2. CASE Queued(m) # {}
  <2> DEFINE n == Len(pendingInject)
             i == Index(m)
             p(j) == IF j < i THEN j ELSE j + 1
  <2>1. /\ i \in 1..n /\ n \in Nat /\ pendingInject[i].id = m
        /\ pendingInject \in Seq(StoredEntries)
    BY <1>2, SomeEntry, EntryFacts DEF StoreTypes
  <2>2. pendingInject' = Seqs!RemoveAt(pendingInject, i)
    BY <1>2 DEF Drop
  <2> HIDE DEF i
  <2>3. /\ pendingInject' \in Seq(StoredEntries) /\ Len(pendingInject') = n - 1
        /\ \A j \in 1..(n - 1) : pendingInject'[j] = pendingInject[p(j)] /\ p(j) \in (1..n) \ {i}
    <3>1. /\ pendingInject' \in Seq(StoredEntries) /\ Len(pendingInject') = n - 1
          /\ \A j \in 1..(n - 1) :
                pendingInject'[j] = IF j < i THEN pendingInject[j] ELSE pendingInject[j + 1]
      BY <2>1, <2>2, RemoveAtFacts
    <3> HIDE DEF n
    <3>2. \A j \in 1..(n - 1) : pendingInject'[j] = pendingInject[p(j)] /\ p(j) \in (1..n) \ {i}
      BY <2>1, <3>1
    <3> QED
      BY <3>1, <3>2
  <2>4. \A j, k \in 1..(n - 1) : p(j) = p(k) => j = k
    BY <2>1
  <2>5. \A k \in (1..n) \ {i} : \E j \in 1..(n - 1) : p(j) = k
    <3> SUFFICES ASSUME NEW k \in (1..n) \ {i} PROVE \E j \in 1..(n - 1) : p(j) = k
      OBVIOUS
    <3>1. CASE k < i
      BY <3>1, <2>1, p(k) = k
    <3>2. CASE k > i
      BY <3>2, <2>1, p(k - 1) = k
    <3> QED
      BY <3>1, <3>2, <2>1
  <2> HIDE DEF p
  <2>6. Unique'
    BY <2>3, <2>4 DEF Unique
  <2>7. \A k \in (1..n) \ {i} : pendingInject[k].id # m
    BY <2>1 DEF Unique
  <2>8. Pending' = {e \in Pending : e.id # m}
    <3>1. Pending' = {pendingInject'[j] : j \in 1..(n - 1)} /\ Pending = {pendingInject[k] : k \in 1..n}
      BY <2>3 DEF Pending, Members
    <3>2. Pending' \subseteq {e \in Pending : e.id # m}
      BY <2>3, <2>7, <3>1
    <3>3. ASSUME NEW k \in 1..n, pendingInject[k].id # m PROVE pendingInject[k] \in Pending'
      <4>1. k \in (1..n) \ {i}
        BY <2>1, <3>3
      <4>2. PICK j \in 1..(n - 1) : p(j) = k
        BY <2>5, <4>1
      <4> QED
        BY <2>3, <3>1, <4>2
    <3> QED
      BY <3>1, <3>2, <3>3
  <2> QED
    BY <2>3, <2>6, <2>8
<1> QED
  BY <1>1, <1>2

LEMMA ResetStep ==
    ASSUME StoreTypes, Unique, pendingInject' = resetBackoff
    PROVE  /\ pendingInject' \in Seq(StoredEntries) /\ Unique'
           /\ Pending' = {[e EXCEPT !.deferred = FALSE] : e \in Pending}
<1> DEFINE n == Len(pendingInject)
           woken(e) == [e EXCEPT !.deferred = FALSE]
<1>1. n \in Nat /\ \A k \in 1..n : pendingInject[k] \in StoredEntries
  BY DEF StoreTypes
<1>2. \A e \in StoredEntries : woken(e) \in StoredEntries /\ woken(e).id = e.id
  BY DEF StoredEntries
<1>3. pendingInject' = [k \in 1..n |-> woken(pendingInject[k])]
  BY DEF resetBackoff
<1> HIDE DEF woken
<1>4. /\ pendingInject' \in Seq(StoredEntries) /\ Len(pendingInject') = n
      /\ \A k \in 1..n : pendingInject'[k] = woken(pendingInject[k])
  BY <1>1, <1>2, <1>3
<1>5. Unique'
  BY <1>1, <1>2, <1>4 DEF Unique
<1>6. Pending' = {woken(e) : e \in Pending}
  <2>1. Pending' = {pendingInject'[k] : k \in 1..n} /\ Pending = {pendingInject[k] : k \in 1..n}
    BY <1>4 DEF Pending, Members
  <2> QED
    BY <1>4, <2>1
<1> QED
  BY <1>4, <1>5, <1>6 DEF woken

-----------------------------------------------------------------------------
(* What the operations do to the store's invariant. *)

SoundEntry(e) == IF e.verify = NoRid THEN e.tries = 0 ELSE e.id \in offered[e.verify]

(* Every entry counts what it counted before, or starts again. *)
Recounted(f) ==
    \/ f.verify = NoRid /\ f.tries = 0
    \/ \E e \in Pending : e.id = f.id /\ e.verify = f.verify /\ e.tries = f.tries

KeepsCounts == \A f \in Pending' : Recounted(f)

LEMMA PutEntry ==
    ASSUME StoreInv, NEW m \in Mail, NEW e \in StoredEntries, e.id = m, SoundEntry(e),
           pendingInject' = Put(m, e), NEW w \in {"pending", "submitting"},
           placement' = [placement EXCEPT ![m] = w], offered' = offered
    PROVE  StoreInv' /\ \A f \in Pending' : f = e \/ f \in Pending
<1>1. StoreTypes /\ Unique
  BY DEF StoreInv
<1>2. /\ pendingInject' \in Seq(StoredEntries) /\ Unique' /\ e \in Pending'
      /\ \A f \in Pending : f.id # m => f \in Pending'
      /\ \A f \in Pending' : f = e \/ (f \in Pending /\ f.id # m)
  <2>1. CASE \E f \in Pending : f.id = m
    <3>1. Queued(m) # {} /\ EntryOf(m).id = m /\ \A f \in Pending : f.id = m => f = EntryOf(m)
      BY <1>1, <2>1, EntryFacts
    <3>2. pendingInject' = Replace(m, e)
      BY <3>1 DEF Put
    <3> QED
      BY <1>1, <2>1, <3>1, <3>2, ReplaceStep
  <2>2. CASE ~\E f \in Pending : f.id = m
    <3>1. pendingInject' = Append(pendingInject, e)
      BY <2>2, NoEntry DEF Put
    <3> QED
      BY <1>1, <2>2, <3>1, AppendStep
  <2> QED
    BY <2>1, <2>2
<1>3. /\ placement' \in [Mail -> {"unsent", "pending", "submitting", "injected", "failed"}]
      /\ placement'[m] = w /\ \A x \in Mail : x # m => placement'[x] = placement[x]
  BY <1>1 DEF StoreTypes
<1>4. HasEntry'
  <2> SUFFICES ASSUME NEW x \in Mail
               PROVE  (\E f \in Pending' : f.id = x) <=> placement'[x] \in {"pending", "submitting"}
    BY DEF HasEntry
  <2>1. CASE x = m
    BY <2>1, <1>2, <1>3
  <2>2. CASE x # m
    BY <2>2, <1>2, <1>3 DEF StoreInv, HasEntry
  <2> QED
    BY <2>1, <2>2
<1>5. Carried'
  BY <1>2 DEF Carried, SoundEntry, StoreInv
<1> QED
  BY <1>2, <1>3, <1>4, <1>5 DEF StoreInv, StoreTypes

LEMMA DropEntry ==
    ASSUME StoreInv, NEW m \in Mail, pendingInject' = Drop(m),
           NEW w \in {"injected", "failed"},
           placement' = [placement EXCEPT ![m] = w], offered' = offered
    PROVE  StoreInv' /\ \A f \in Pending' : f \in Pending
<1>1. StoreTypes /\ Unique
  BY DEF StoreInv
<1>2. /\ pendingInject' \in Seq(StoredEntries) /\ Unique'
      /\ Pending' = {e \in Pending : e.id # m}
  BY <1>1, DropStep
<1>3. /\ placement' \in [Mail -> {"unsent", "pending", "submitting", "injected", "failed"}]
      /\ placement'[m] = w /\ \A x \in Mail : x # m => placement'[x] = placement[x]
  BY <1>1 DEF StoreTypes
<1>4. HasEntry'
  <2> SUFFICES ASSUME NEW x \in Mail
               PROVE  (\E f \in Pending' : f.id = x) <=> placement'[x] \in {"pending", "submitting"}
    BY DEF HasEntry
  <2>1. CASE x = m
    BY <2>1, <1>2, <1>3
  <2>2. CASE x # m
    BY <2>2, <1>2, <1>3 DEF StoreInv, HasEntry
  <2> QED
    BY <2>1, <2>2
<1>5. Carried'
  BY <1>2 DEF Carried, StoreInv
<1> QED
  BY <1>2, <1>3, <1>4, <1>5 DEF StoreInv, StoreTypes

LEMMA ResetEntries ==
    ASSUME StoreInv, pendingInject' = resetBackoff, placement' = placement, offered' = offered
    PROVE  StoreInv' /\ KeepsCounts
<1> DEFINE woken(e) == [e EXCEPT !.deferred = FALSE]
<1>1. StoreTypes /\ Unique
  BY DEF StoreInv
<1>2. /\ pendingInject' \in Seq(StoredEntries) /\ Unique'
      /\ Pending' = {woken(e) : e \in Pending}
  BY <1>1, ResetStep
<1>3. \A e \in StoredEntries : /\ woken(e).id = e.id /\ woken(e).verify = e.verify
                               /\ woken(e).tries = e.tries
  BY DEF StoredEntries
<1> HIDE DEF woken
<1>4. \A e \in Pending : /\ woken(e).id = e.id /\ woken(e).verify = e.verify
                         /\ woken(e).tries = e.tries
  BY <1>1, <1>3, PendingTyped
<1>5. HasEntry'
  BY <1>2, <1>4 DEF StoreInv, HasEntry
<1>6. Carried'
  BY <1>2, <1>4 DEF StoreInv, Carried
<1>7. KeepsCounts
  BY <1>2, <1>4 DEF KeepsCounts, Recounted
<1> QED
  BY <1>1, <1>2, <1>5, <1>6, <1>7 DEF StoreInv, StoreTypes

(* A message that waits has one sound entry. *)
LEMMA WaitingEntry ==
    ASSUME StoreInv, NEW m \in Mail, placement[m] \in {"pending", "submitting"}
    PROVE  /\ Queued(m) # {} /\ EntryOf(m) \in Pending /\ EntryOf(m) \in StoredEntries
           /\ EntryOf(m).id = m /\ SoundEntry(EntryOf(m))
           /\ \A e \in Pending : e.id = m => e = EntryOf(m)
<1>1. \E e \in Pending : e.id = m
  BY DEF StoreInv, HasEntry
<1>2. /\ Queued(m) # {} /\ EntryOf(m) \in Pending /\ EntryOf(m) \in StoredEntries
      /\ EntryOf(m).id = m
      /\ \A e \in Pending : e.id = m => e = EntryOf(m)
  BY <1>1, EntryFacts DEF StoreInv
<1> QED
  BY <1>2 DEF StoreInv, Carried, SoundEntry

(* A message without an entry neither waits nor is claimed, and back. *)
LEMMA QueuedWaits ==
    ASSUME StoreInv, NEW m \in Mail
    PROVE  Queued(m) # {} <=> placement[m] \in {"pending", "submitting"}
<1>1. (\E e \in Pending : e.id = m) <=> Queued(m) # {}
  BY DEF Queued, Pending, Members
<1> QED
  BY <1>1 DEF StoreInv, HasEntry

LEMMA ClaimEntry ==
    ASSUME StoreInv, NEW m \in Mail, placement[m] = "pending", NEW s \in SteerIds \cup {NoRid},
           beginAgentMailInject(m, s), offered' = offered
    PROVE  StoreInv' /\ KeepsCounts
<1>1. /\ Queued(m) # {} /\ EntryOf(m) \in Pending /\ EntryOf(m) \in StoredEntries
      /\ EntryOf(m).id = m /\ SoundEntry(EntryOf(m))
  BY WaitingEntry
<1> DEFINE g == IF s = NoRid THEN EntryOf(m) ELSE [EntryOf(m) EXCEPT !.steerId = s]
<1>2. /\ g \in StoredEntries /\ g.id = m /\ g.verify = EntryOf(m).verify
      /\ g.tries = EntryOf(m).tries
  BY <1>1 DEF StoredEntries
<1>3. pendingInject' = Put(m, g)
  <2>1. CASE s = NoRid
    <3>1. pendingInject' = pendingInject
      BY <2>1 DEF beginAgentMailInject
    <3>2. Put(m, g) = [pendingInject EXCEPT ![Index(m)] = pendingInject[Index(m)]]
      BY <1>1, <2>1 DEF Put, Replace, EntryOf
    <3>3. [pendingInject EXCEPT ![Index(m)] = pendingInject[Index(m)]] = pendingInject
      BY DEF StoreInv, StoreTypes
    <3> QED
      BY <3>1, <3>2, <3>3
  <2>2. CASE s # NoRid
    BY <1>1, <2>2 DEF beginAgentMailInject, Put
  <2> QED
    BY <2>1, <2>2
<1> HIDE DEF g
<1>4. SoundEntry(g)
  BY <1>1, <1>2 DEF SoundEntry
<1>5. StoreInv' /\ \A f \in Pending' : f = g \/ f \in Pending
  BY <1>2, <1>3, <1>4, PutEntry DEF beginAgentMailInject
<1> QED
  BY <1>1, <1>2, <1>5 DEF KeepsCounts, Recounted

Outcomes == [what : Results, rid : RidsOrNone, steer : BOOLEAN]

(* A claim that is settled: the outcome names an id that carried it.  Only *)
(* a claim that stays unconfirmed counts an attempt more.                  *)
LEMMA FinishEntry ==
    ASSUME StoreInv, NEW m \in Mail, NEW res \in Outcomes, finishAgentMailInject(m, res),
           res.steer => res.rid \in SteerIds,
           res.what = "verify" =>
               /\ res.rid \in Rids /\ m \in offered[res.rid]
               /\ placement[m] = "submitting" =>
                     \A e \in Pending : e.id = m => e.tries <= MaxVerify,
           offered' = offered
    PROVE  /\ StoreInv'
           /\ \A f \in Pending' : Recounted(f) \/ (f.id = m /\ res.what = "verify")
           /\ \A x \in Mail : placement'[x] = "submitting" => placement[x] = "submitting" /\ x # m
<1>1. CASE placement[m] # "submitting"
  <2>1. UNCHANGED storeVars
    BY <1>1 DEF finishAgentMailInject
  <2>2. placement' = placement /\ pendingInject' = pendingInject
    BY <2>1 DEF storeVars
  <2> QED
    BY <1>1, <2>2 DEF StoreInv, StoreTypes, Unique, HasEntry, Carried, Pending, Members, Recounted
<1>2. CASE placement[m] = "submitting"
  <2>1. /\ placement' = [placement EXCEPT ![m] =
               CASE res.what = "accepted" -> "injected"
                 [] res.what = "failed" -> "failed"
                 [] OTHER -> "pending"]
        /\ pendingInject' = IF res.what \in {"accepted", "failed"} THEN Drop(m)
                            ELSE Put(m, Finished(m, res))
    BY <1>2 DEF finishAgentMailInject
  <2>2. placement \in [Mail -> {"unsent", "pending", "submitting", "injected", "failed"}]
    BY DEF StoreInv, StoreTypes
  <2>3. CASE res.what \in {"accepted", "failed"}
    <3> DEFINE w == IF res.what = "accepted" THEN "injected" ELSE "failed"
    <3>1. /\ placement' = [placement EXCEPT ![m] = w] /\ pendingInject' = Drop(m)
          /\ w \in {"injected", "failed"}
      BY <2>1, <2>3
    <3> HIDE DEF w
    <3>2. StoreInv' /\ \A f \in Pending' : f \in Pending
      BY <3>1, DropEntry
    <3>3. \A x \in Mail : placement'[x] = "submitting" => placement[x] = "submitting" /\ x # m
      BY <2>2, <3>1
    <3> QED
      BY <3>2, <3>3 DEF Recounted
  <2>4. CASE res.what \in {"held", "retry", "verify"}
    <3> DEFINE e == Finished(m, res)
    <3>1. placement' = [placement EXCEPT ![m] = "pending"] /\ pendingInject' = Put(m, e)
      BY <2>1, <2>4
    <3>2. Queued(m) # {} /\ EntryOf(m) \in StoredEntries /\ EntryOf(m) \in Pending /\ EntryOf(m).id = m
      BY <1>2, WaitingEntry
    <3>3. Entry(m, FALSE) \in StoredEntries
      BY FreshEntry
    <3>4. /\ e \in StoredEntries /\ e.id = m /\ SoundEntry(e)
          /\ res.what # "verify" => e.verify = NoRid /\ e.tries = 0
      <4>1. CASE res.what \in {"held", "retry"}
        BY <4>1, <3>3, FreshEntry DEF Finished, SoundEntry, StoredEntries, Entry
      <4>2. CASE res.what = "verify"
        <5>1. EntryOf(m).tries \in 0..MaxVerify
          BY <1>2, <3>2, <4>2 DEF StoredEntries
        <5>2. e = [Entry(m, FALSE) EXCEPT !.held = TRUE, !.reason = "verifying",
                     !.verify = res.rid, !.steerId = IF res.steer THEN res.rid ELSE NoRid,
                     !.tries = 1 + EntryOf(m).tries]
          BY <3>2, <4>2 DEF Finished
        <5>3. 1 + EntryOf(m).tries \in 0..(MaxVerify + 1)
          BY <5>1, MailAssumption
        <5>4. (IF res.steer THEN res.rid ELSE NoRid) \in SteerIds \cup {NoRid}
          OBVIOUS
        <5>5a. e = [id |-> m, verify |-> res.rid, tries |-> 1 + EntryOf(m).tries, steer |-> FALSE,
                    steerId |-> IF res.steer THEN res.rid ELSE NoRid, held |-> TRUE,
                    deferred |-> FALSE, reason |-> "verifying"]
          BY <5>2 DEF Entry
        <5>5. e \in StoredEntries /\ e.id = m /\ e.verify = res.rid
          BY <3>3, <4>2, <5>3, <5>4, <5>5a, IdFacts DEF StoredEntries
        <5> QED
          BY <4>2, <5>5, IdFacts DEF SoundEntry
      <4> QED
        BY <4>1, <4>2, <2>4
    <3> HIDE DEF e
    <3>5. StoreInv' /\ \A f \in Pending' : f = e \/ f \in Pending
      BY <3>1, <3>4, PutEntry
    <3>6. \A x \in Mail : placement'[x] = "submitting" => placement[x] = "submitting" /\ x # m
      BY <2>2, <3>1
    <3> QED
      BY <3>4, <3>5, <3>6 DEF Recounted
  <2> QED
    BY <2>3, <2>4 DEF Outcomes, Results
<1> QED
  BY <1>1, <1>2

-----------------------------------------------------------------------------
(* How the injector moves. *)

NoNewClaims == \A x \in Mail : placement'[x] = "submitting" => placement[x] = "submitting"

OffersKept == \A r \in Rids : offered[r] \subseteq offered'[r]

LEMMA StoreKept ==
    ASSUME StoreInv, UNCHANGED storeVars, OffersKept
    PROVE  StoreInv' /\ KeepsCounts /\ NoNewClaims
<1>1. placement' = placement /\ pendingInject' = pendingInject
  BY DEF storeVars
<1>2. Pending' = Pending
  BY <1>1 DEF Pending, Members
<1>3. Carried'
  <2> SUFFICES ASSUME NEW e \in Pending
               PROVE  IF e.verify = NoRid THEN e.tries = 0 ELSE e.id \in offered'[e.verify]
    BY <1>2 DEF Carried
  <2>1. e \in StoredEntries
    BY PendingTyped DEF StoreInv
  <2>2. e.verify \in Rids \cup {NoRid}
    BY <2>1, IdFacts DEF StoredEntries
  <2> QED
    BY <2>2 DEF StoreInv, Carried, OffersKept
<1>4. StoreInv'
  BY <1>1, <1>2, <1>3 DEF StoreInv, StoreTypes, Unique, HasEntry
<1> QED
  BY <1>1, <1>2, <1>4 DEF KeepsCounts, Recounted, NoNewClaims

LEMMA GotoFacts ==
    ASSUME drain \in Drains, NEW loc \in Locations, Goto(loc)
    PROVE  /\ drain' \in Drains /\ drain'.at = loc
           /\ drain'.list = drain.list /\ drain'.pos = drain.pos /\ drain'.from = drain.from
           /\ drain'.batch = drain.batch /\ drain'.steer = drain.steer
           /\ drain'.answer = drain.answer /\ drain'.result = drain.result
BY DEF Goto, Drains

LEMMA SettleFacts ==
    ASSUME drain \in Drains, NEW res \in Outcomes, Settle(res)
    PROVE  /\ drain' \in Drains /\ drain'.at = "settle" /\ drain'.result = res
           /\ drain'.list = drain.list /\ drain'.pos = drain.pos
           /\ drain'.batch = drain.batch /\ drain'.steer = drain.steer
BY DEF Settle, Drains, Outcomes, Locations

LEMMA ResultTyped ==
    ASSUME NEW what \in Results, NEW r \in RidsOrNone, NEW s \in BOOLEAN
    PROVE  /\ Result(what, r, s) \in Outcomes /\ Result(what, r, s).what = what
           /\ Result(what, r, s).rid = r /\ Result(what, r, s).steer = s
BY DEF Result, Outcomes

LEMMA PlainResult ==
    ASSUME NEW what \in Results
    PROVE  /\ Result(what, NoRid, FALSE) \in Outcomes /\ Result(what, NoRid, FALSE).what = what
           /\ Result(what, NoRid, FALSE).steer = FALSE
BY IdFacts DEF Result, Outcomes

LEMMA SingleBatch ==
    ASSUME NEW m \in Mail
    PROVE  <<m>> \in Seq(Mail) /\ Len(<<m>>) = 1 /\ <<m>>[1] = m
OBVIOUS

(* The parts of an injector's state. *)
LEMMA DrainFields ==
    ASSUME drain \in Drains
    PROVE  /\ drain.at \in Locations /\ drain.list \in Seq(StoredEntries)
           /\ drain.pos \in Nat /\ drain.from \in Nat /\ drain.batch \in Seq(Mail)
           /\ drain.steer \in SteerIds \cup {NoRid} /\ drain.result \in Outcomes
           /\ Len(drain.list) \in Nat /\ Len(drain.batch) \in Nat
           /\ \A k \in 1..Len(drain.list) :
                 /\ drain.list[k] \in StoredEntries /\ drain.list[k].id \in Mail
                 /\ drain.list[k].verify \in RidsOrNone
                 /\ drain.list[k].tries \in Nat /\ drain.list[k].steerId \in SteerIds \cup {NoRid}
           /\ \A i \in 1..Len(drain.batch) : drain.batch[i] \in Mail
<1>1. /\ drain.at \in Locations /\ drain.list \in Seq(StoredEntries)
      /\ drain.pos \in Nat /\ drain.from \in Nat /\ drain.batch \in Seq(Mail)
      /\ drain.steer \in SteerIds \cup {NoRid} /\ drain.result \in Outcomes
  BY DEF Drains, Outcomes
<1>2. \A e \in StoredEntries : /\ e.id \in Mail /\ e.verify \in RidsOrNone /\ e.tries \in Nat
                               /\ e.steerId \in SteerIds \cup {NoRid}
  BY MailAssumption DEF StoredEntries
<1> QED
  BY <1>1, <1>2

LEMMA OffTyped ==
    /\ Off \in Drains /\ Off.at = "idle" /\ Off.list = <<>> /\ Off.pos = 0 /\ Off.from = 0
    /\ Off.batch = <<>> /\ Off.steer = NoRid /\ Off.known = {} /\ Off.answer = "none"
    /\ Off.result \in Outcomes /\ Off.result.what = "held" /\ Off.result.steer = FALSE
BY IdFacts DEF Off, Drains, Outcomes, Result, Results, Locations, Statuses

(* An injector that is at rest. *)
LEMMA AtRest ==
    ASSUME drain' \in Drains, drain'.at \in {"idle", "down"}, drain'.list = <<>>,
           drain'.pos = 0, drain'.batch = <<>>, drain'.result.steer = FALSE
    PROVE  DrainInv'
<1>1. ListInv' /\ Fresh' /\ Ahead'
  BY DEF ListInv, Fresh, ToVerify, Ahead
<1>2. BatchInv' /\ ResultInv' /\ LeaseInv'
  BY DEF BatchInv, Offering, ToBeVerified, ResultInv, LeaseInv
<1> QED
  BY <1>1, <1>2 DEF DrainInv

(* What a pass has still to verify keeps its count. *)
StillFresh ==
    \A k \in 1..Len(drain.list) :
        drain.list[k].verify # NoRid /\ k > drain.pos =>
            \A f \in Pending' : f.id = drain.list[k].id => f.tries <= drain.list[k].tries

LEMMA RecountedFresh ==
    ASSUME drain \in Drains, Fresh, NEW f, Recounted(f), NEW k \in ToVerify,
           f.id = drain.list[k].id
    PROVE  f.tries <= drain.list[k].tries
<1>1. k \in 1..Len(drain.list)
  BY DEF ToVerify
<1>2. drain.list[k].tries \in Nat
  BY <1>1, DrainFields
<1>3. CASE f.tries = 0
  BY <1>2, <1>3
<1>4. CASE \E e \in Pending : e.id = f.id /\ e.verify = f.verify /\ e.tries = f.tries
  BY <1>4 DEF Fresh
<1> QED
  BY <1>3, <1>4 DEF Recounted

LEMMA KeepsFresh ==
    ASSUME drain \in Drains, Fresh, KeepsCounts
    PROVE  /\ StillFresh
           /\ \A k \in ToVerify : \A f \in Pending' :
                 f.id = drain.list[k].id => f.tries <= drain.list[k].tries
<1>1. ASSUME NEW k \in ToVerify, NEW f \in Pending', f.id = drain.list[k].id
      PROVE  f.tries <= drain.list[k].tries
  BY <1>1, RecountedFresh DEF KeepsCounts
<1>2. StillFresh
  BY <1>1 DEF StillFresh, ToVerify
<1> QED
  BY <1>1, <1>2

LEMMA AdvanceInv ==
    ASSUME DrainInv, Advance, StillFresh
    PROVE  DrainInv'
<1>0. drain \in Drains /\ ListInv
  BY DEF DrainInv
<1>1. CASE drain.pos = 0
  <2>1. drain' = [Off EXCEPT !.at = "down"]
    BY <1>1 DEF Advance
  <2>2. /\ drain' \in Drains /\ drain'.at = "down" /\ drain'.list = <<>> /\ drain'.pos = 0
        /\ drain'.batch = <<>> /\ drain'.result.steer = FALSE
    BY <2>1, OffTyped DEF Drains, Locations
  <2> QED
    BY <2>2, AtRest
<1>2. CASE drain.pos # 0 /\ drain.pos = Len(drain.list)
  <2>1. drain' = Off
    BY <1>2 DEF Advance
  <2> QED
    BY <2>1, OffTyped, AtRest
<1>3. CASE drain.pos # 0 /\ drain.pos # Len(drain.list)
  <2>1. drain' = [Off EXCEPT !.at = "next", !.pos = drain.pos + 1,
                              !.list = drain.list, !.known = drain.known]
    BY <1>3 DEF Advance
  <2>2. /\ drain' \in Drains /\ drain'.at = "next" /\ drain'.list = drain.list
        /\ drain'.pos = drain.pos + 1 /\ drain'.batch = <<>> /\ drain'.result.steer = FALSE
    <3>1. drain' = [at |-> "next", list |-> drain.list, pos |-> drain.pos + 1, from |-> 0,
                    batch |-> <<>>, steer |-> NoRid, known |-> drain.known,
                    answer |-> "none", result |-> Off.result]
      BY <2>1 DEF Off
    <3>2. /\ drain.pos + 1 \in Nat /\ drain.list \in Seq(StoredEntries)
          /\ drain.known \in SUBSET (RidsOrNone \X Statuses)
          /\ <<>> \in Seq(Mail) /\ "next" \in Locations
      BY <1>0 DEF Drains, Locations
    <3>3. drain' \in Drains
      BY <3>1, <3>2, OffTyped DEF Drains, Outcomes
    <3> QED
      BY <3>1, <3>3, OffTyped
  <2>3. drain.pos \in Nat /\ Len(drain.list) \in Nat /\ drain.pos + 1 <= Len(drain.list)
    BY <1>0, <1>3, DrainFields DEF ListInv
  <2>4. ListInv'
    BY <1>0, <2>2, <2>3 DEF ListInv
  <2>5. Fresh'
    BY <2>2, <2>3 DEF Fresh, ToVerify, StillFresh
  <2>6. Ahead' /\ BatchInv' /\ ResultInv' /\ LeaseInv'
    BY <2>2 DEF Ahead, BatchInv, Offering, ToBeVerified, ResultInv, LeaseInv
  <2> QED
    BY <2>2, <2>4, <2>5, <2>6 DEF DrainInv
<1> QED
  BY <1>1, <1>2, <1>3

(* Somebody else's step.  The lease keeps the others off the session while *)
(* the injector is dispatching.                                            *)
LEMMA Elsewhere ==
    ASSUME DrainInv, drain' = drain, KeepsCounts, NoNewClaims, offered' = offered,
           \/ LeaseFree
           \/ UNCHANGED <<pendingDispatch, pendingSteer>>
    PROVE  DrainInv'
<1>0. drain \in Drains /\ ListInv /\ Fresh /\ Ahead /\ BatchInv /\ ResultInv /\ LeaseInv
  BY DEF DrainInv
<1>1. ListInv' /\ Ahead'
  BY <1>0 DEF ListInv, Ahead
<1>2. Fresh'
  BY <1>0, KeepsFresh DEF Fresh, ToVerify
<1>3. BatchInv'
  <2>1. ASSUME drain.at \in Offering \/ ToBeVerified, NEW i \in 1..Len(drain.batch),
               NEW f \in Pending', placement'[drain.batch[i]] = "submitting",
               f.id = drain.batch[i]
        PROVE  f.tries <= MaxVerify
    <3>1. placement[drain.batch[i]] = "submitting"
      BY <1>0, <2>1, DrainFields DEF NoNewClaims
    <3>2. CASE f.tries = 0
      BY <3>2, MailAssumption
    <3>3. CASE \E e \in Pending : e.id = f.id /\ e.verify = f.verify /\ e.tries = f.tries
      BY <1>0, <2>1, <3>1, <3>3 DEF BatchInv
    <3> QED
      BY <3>2, <3>3 DEF KeepsCounts, Recounted
  <2> QED
    BY <1>0, <2>1 DEF BatchInv, ToBeVerified
<1>4. ResultInv'
  BY <1>0 DEF ResultInv, ToBeVerified, Here, Batch, Members
<1>5. LeaseInv'
  BY <1>0 DEF LeaseInv, LeaseFree, Batch, Members
<1> QED
  BY <1>0, <1>1, <1>2, <1>3, <1>4, <1>5 DEF DrainInv

(* The offer of a batch goes on, or ends in its settlement. *)
LEMMA MoveOn ==
    ASSUME DrainInv, KeepsCounts, NoNewClaims, drain' \in Drains,
           drain'.list = drain.list, drain'.pos = drain.pos, drain'.batch = drain.batch,
           drain.at \in Offering, drain'.at \in (Offering \cup {"settle"}) \ {"gather", "full"}
    PROVE  ListInv' /\ Fresh' /\ Ahead' /\ BatchInv'
<1>0. drain \in Drains /\ ListInv /\ Fresh /\ Ahead /\ BatchInv
  BY DEF DrainInv
<1>1. ListInv' /\ Ahead'
  BY <1>0 DEF ListInv, Ahead, Offering
<1>2. Fresh'
  BY <1>0, KeepsFresh DEF Fresh, ToVerify, Offering
<1>3. BatchInv'
  <2>1. ASSUME NEW i \in 1..Len(drain.batch),
               NEW f \in Pending', placement'[drain.batch[i]] = "submitting",
               f.id = drain.batch[i]
        PROVE  f.tries <= MaxVerify
    <3>1. placement[drain.batch[i]] = "submitting"
      BY <1>0, <2>1, DrainFields DEF NoNewClaims
    <3>2. CASE f.tries = 0
      BY <3>2, MailAssumption
    <3>3. CASE \E e \in Pending : e.id = f.id /\ e.verify = f.verify /\ e.tries = f.tries
      BY <1>0, <2>1, <3>1, <3>3 DEF BatchInv
    <3> QED
      BY <3>2, <3>3 DEF KeepsCounts, Recounted
  <2> QED
    BY <1>0, <2>1 DEF BatchInv
<1> QED
  BY <1>1, <1>2, <1>3

-----------------------------------------------------------------------------
(* The session, and the steps of the users, the tab and the provider. *)

LEMMA BumpTyped ==
    ASSUME CounterTypes,
           NEW c \in {"steers", "releases", "recoveries", "typed", "crashes", "restarts"}, Bump(c)
    PROVE  CounterTypes'
BY DEF CounterTypes, Bump

LEMMA ReconcileInjectTyped ==
    ASSUME SessionTypes, NEW r \in Rids, NEW recovery, NEW status,
           reconcileMailInject(r, recovery, status)
    PROVE  SessionTypes'
<1>1. CASE UNCHANGED sessionVars
  BY <1>1 DEF sessionVars, SessionTypes
<1>2. CASE confirmNativeAgentDispatch(r)
  BY <1>2, IdFacts DEF confirmNativeAgentDispatch, SessionTypes, Rows
<1>3. CASE retireNativeAgentDispatch(r)
  BY <1>3, IdFacts DEF retireNativeAgentDispatch, SessionTypes, Rows
<1> QED
  BY <1>1, <1>2, <1>3 DEF reconcileMailInject

LEMMA CompleteSteerTyped ==
    ASSUME SessionTypes, pendingSteer.rid \in Rids, NEW applied, completePendingSteer(applied)
    PROVE  SessionTypes'
BY DEF completePendingSteer, SessionTypes, Steers

LEMMA ReconcileSteerTyped ==
    ASSUME SessionTypes, NEW s \in Rids, NEW status, reconcileMailSteer(s, status)
    PROVE  SessionTypes'
<1>1. CASE UNCHANGED sessionVars
  BY <1>1 DEF sessionVars, SessionTypes
<1>2. CASE /\ pendingSteer.rid = s
           /\ \E answer : completePendingSteer(answer = "dispatched")
  BY <1>2, CompleteSteerTyped
<1> QED
  BY <1>1, <1>2 DEF reconcileMailSteer

LEMMA PresenceTyped ==
    ASSUME SessionTypes, NEW p, Presence(p)
    PROVE  SessionTypes'
BY DEF Presence, mailInjectPresence, sessionVars, SessionTypes, Rows

LEMMA SteerOpen ==
    ASSUME SessionTypes, pendingSteer # NoSteer
    PROVE  /\ pendingSteer.rid \in SteerIds /\ pendingSteer.rid \in Rids
           /\ pendingSteer.mail \subseteq Mail
BY IdFacts DEF SessionTypes, Steers

LEMMA RowOpen ==
    ASSUME SessionTypes, pendingDispatch # NoDispatch
    PROVE  /\ pendingDispatch.rid \in Mail \cup {Typed} /\ pendingDispatch.mail \subseteq Mail
           /\ pendingDispatch.refused \in BOOLEAN
           /\ pendingDispatch \in [rid : Mail \cup {Typed}, mail : SUBSET Mail, refused : BOOLEAN]
BY DEF SessionTypes, Rows

LEMMA GiveTyped ==
    ASSUME seen \in [Mail -> Nat], NEW ms, Give(ms)
    PROVE  seen' \in [Mail -> Nat]
BY DEF Give

LEMMA AcceptTyped ==
    ASSUME ProviderTypes, NEW r \in Rids, NEW ms, Accept(r, ms)
    PROVE  ProviderTypes'
BY GiveTyped DEF ProviderTypes, Accept

LEMMA PerformSteerTyped ==
    ASSUME ProviderTypes, NEW s \in SteerIds, NEW ms, NEW answer, PerformSteer(s, ms, answer),
           UNCHANGED <<taken, lost, turn>>
    PROVE  ProviderTypes'
BY GiveTyped DEF ProviderTypes, PerformSteer

(* Steps that leave the injector and the store alone. *)
LEMMA SessionStep ==
    ASSUME MailInv, RestInv', UNCHANGED <<storeVars, drain, offered>>,
           \/ LeaseFree
           \/ UNCHANGED <<pendingDispatch, pendingSteer>>
    PROVE  MailInv'
<1>1. OffersKept
  BY DEF OffersKept
<1>2. StoreInv' /\ KeepsCounts /\ NoNewClaims
  BY <1>1, StoreKept DEF MailInv
<1>3. DrainInv'
  BY <1>2, Elsewhere DEF MailInv
<1> QED
  BY <1>2, <1>3 DEF MailInv

LEMMA RefreshPresenceInv ==
    ASSUME MailInv, refreshPresence
    PROVE  MailInv'
<1>1. SessionTypes'
  BY PresenceTyped DEF MailInv, RestInv, refreshPresence, Presence
<1>2. RestInv'
  BY <1>1 DEF MailInv, RestInv, refreshPresence, ProviderTypes, HistoryTypes, CounterTypes,
              providerVars, history
<1> QED
  BY <1>2, SessionStep DEF refreshPresence, history

LEMMA SettleDispatchInv ==
    ASSUME MailInv, settleAmbiguousDispatch
    PROVE  MailInv'
<1>1. pendingDispatch.rid \in Rids
  BY RowOpen, IdFacts DEF MailInv, RestInv, settleAmbiguousDispatch
<1>2. SessionTypes'
  BY <1>1, IdFacts DEF MailInv, RestInv, settleAmbiguousDispatch, SessionTypes, Rows,
                       confirmNativeAgentDispatch, retireNativeAgentDispatch
<1>3. RestInv'
  BY <1>2 DEF MailInv, RestInv, settleAmbiguousDispatch, ProviderTypes, HistoryTypes,
              CounterTypes, providerVars, history
<1> QED
  BY <1>3, SessionStep DEF settleAmbiguousDispatch, history

LEMMA SettleSteerInv ==
    ASSUME MailInv, settleAmbiguousSteer
    PROVE  MailInv'
<1>1. SessionTypes'
  BY SteerOpen, CompleteSteerTyped DEF MailInv, RestInv, settleAmbiguousSteer
<1>2. RestInv'
  BY <1>1 DEF MailInv, RestInv, settleAmbiguousSteer, ProviderTypes, HistoryTypes,
              CounterTypes, providerVars, history
<1> QED
  BY <1>2, SessionStep DEF settleAmbiguousSteer, history

LEMMA RetryDispatchInv ==
    ASSUME MailInv, retryRecoverableDispatch
    PROVE  MailInv'
<1> DEFINE r == pendingDispatch.rid
           ms == pendingDispatch.mail
<1>1. /\ r \in Mail /\ r \in Rids /\ pendingDispatch # NoDispatch
      /\ SessionTypes /\ ProviderTypes /\ HistoryTypes /\ CounterTypes
  BY IdFacts DEF MailInv, RestInv, retryRecoverableDispatch, NoDispatch
<1>2. [pendingDispatch EXCEPT !.refused = FALSE] \in Rows
  BY <1>1, RowOpen DEF Rows
<1>3. SessionTypes'
  BY <1>1, <1>2, IdFacts DEF retryRecoverableDispatch, SessionTypes, Rows
<1>4. ProviderTypes'
  <2>1. CASE Accept(r, ms)
    BY <1>1, <2>1, AcceptTyped
  <2>2. CASE UNCHANGED providerVars
    BY <1>1, <2>2 DEF ProviderTypes, providerVars
  <2> QED
    BY <2>1, <2>2 DEF retryRecoverableDispatch
<1>5. HistoryTypes'
  BY <1>1 DEF HistoryTypes, retryRecoverableDispatch
<1>6. CounterTypes'
  BY <1>1, BumpTyped DEF retryRecoverableDispatch
<1>7. RestInv'
  BY <1>3, <1>4, <1>5, <1>6 DEF RestInv
<1> QED
  BY <1>7, SessionStep DEF retryRecoverableDispatch

LEMMA RetrySteerInv ==
    ASSUME MailInv, retryRecoverableSteer
    PROVE  MailInv'
<1>1. /\ pendingSteer.rid \in SteerIds /\ pendingSteer.rid \in Rids
      /\ SessionTypes /\ ProviderTypes /\ HistoryTypes /\ CounterTypes
  BY SteerOpen DEF MailInv, RestInv, retryRecoverableSteer
<1>2. SessionTypes'
  <2>1. CASE UNCHANGED sessionVars
    BY <1>1, <2>1 DEF SessionTypes, sessionVars
  <2>2. CASE \E answer : completePendingSteer(answer = "applied")
    BY <1>1, <2>2, CompleteSteerTyped
  <2> QED
    BY <2>1, <2>2 DEF retryRecoverableSteer
<1>3. ProviderTypes'
  BY <1>1, PerformSteerTyped DEF retryRecoverableSteer
<1>4. CounterTypes' /\ HistoryTypes'
  BY <1>1, BumpTyped DEF retryRecoverableSteer, HistoryTypes, history
<1>5. RestInv'
  BY <1>2, <1>3, <1>4 DEF RestInv
<1> QED
  BY <1>5, SessionStep DEF retryRecoverableSteer, history

LEMMA DiscardInv ==
    ASSUME MailInv, discardRecoverableDispatch
    PROVE  MailInv'
<1>1. SessionTypes /\ ProviderTypes /\ HistoryTypes /\ CounterTypes
  BY DEF MailInv, RestInv
<1>2. SessionTypes'
  BY <1>1 DEF discardRecoverableDispatch, SessionTypes, Rows, Steers, completePendingSteer
<1>3. CounterTypes' /\ HistoryTypes' /\ ProviderTypes'
  BY <1>1, BumpTyped DEF discardRecoverableDispatch, HistoryTypes, history, ProviderTypes, providerVars
<1>4. RestInv'
  BY <1>2, <1>3 DEF RestInv
<1> QED
  BY <1>4, SessionStep DEF discardRecoverableDispatch, history

LEMMA TypedPromptInv ==
    ASSUME MailInv, dispatchIntent
    PROVE  MailInv'
<1>1. SessionTypes /\ ProviderTypes /\ HistoryTypes /\ CounterTypes
  BY DEF MailInv, RestInv
<1>2. SessionTypes'
  BY <1>1, IdFacts DEF dispatchIntent, SessionTypes, Rows, NoDispatch
<1>3. CounterTypes' /\ HistoryTypes'
  BY <1>1, BumpTyped DEF dispatchIntent, HistoryTypes, history
<1>4. ProviderTypes'
  BY <1>1, IdFacts DEF dispatchIntent, ProviderTypes
<1>5. RestInv'
  BY <1>2, <1>3, <1>4 DEF RestInv
<1> QED
  BY <1>5, SessionStep DEF dispatchIntent, history

LEMMA TabInv ==
    ASSUME MailInv, TurnStart \/ TurnEnd \/ ProviderRestart
    PROVE  MailInv'
<1>1. SessionTypes /\ ProviderTypes /\ HistoryTypes /\ CounterTypes
  BY DEF MailInv, RestInv
<1>2. SessionTypes' /\ HistoryTypes'
  BY <1>1 DEF TurnStart, TurnEnd, ProviderRestart, SessionTypes, sessionVars, HistoryTypes, history
<1>3. CounterTypes'
  <2>1. CASE TurnStart \/ TurnEnd
    BY <1>1, <2>1 DEF TurnStart, TurnEnd, CounterTypes
  <2>2. CASE ProviderRestart
    BY <1>1, <2>2, BumpTyped DEF ProviderRestart
  <2> QED
    BY <2>1, <2>2
<1>4. ProviderTypes'
  BY <1>1 DEF TurnStart, TurnEnd, ProviderRestart, ProviderTypes
<1>5. RestInv'
  BY <1>2, <1>3, <1>4 DEF RestInv
<1> QED
  BY <1>5, SessionStep DEF TurnStart, TurnEnd, ProviderRestart, sessionVars, history

-----------------------------------------------------------------------------
(* Mail arrives and waits. *)

LEMMA StoreStep ==
    ASSUME MailInv, StoreInv', KeepsCounts, NoNewClaims, RestInv',
           UNCHANGED <<pendingDispatch, pendingSteer, drain, offered>>
    PROVE  MailInv'
BY Elsewhere DEF MailInv

LEMMA SendMailInv ==
    ASSUME MailInv, NEW m \in Mail, NEW s \in BOOLEAN, sendAgentMail(m, s)
    PROVE  MailInv'
<1>1. StoreInv /\ RestInv
  BY DEF MailInv
<1>2. placement \in [Mail -> {"unsent", "pending", "submitting", "injected", "failed"}]
  BY <1>1 DEF StoreInv, StoreTypes
<1>3. Queued(m) = {}
  BY <1>1, QueuedWaits DEF sendAgentMail
<1>4. pendingInject' = Put(m, Entry(m, s)) /\ placement' = [placement EXCEPT ![m] = "pending"]
  BY <1>3 DEF sendAgentMail, Put
<1>5. /\ Entry(m, s) \in StoredEntries /\ Entry(m, s).id = m /\ Entry(m, s).verify = NoRid
      /\ Entry(m, s).tries = 0
  BY FreshEntry
<1>6. offered' = offered
  BY DEF sendAgentMail, history
<1>7. StoreInv' /\ \A f \in Pending' : f = Entry(m, s) \/ f \in Pending
  BY <1>1, <1>4, <1>5, <1>6, PutEntry DEF SoundEntry
<1>8. KeepsCounts /\ NoNewClaims
  BY <1>2, <1>4, <1>5, <1>7 DEF KeepsCounts, Recounted, NoNewClaims
<1>9. RestInv'
  BY <1>1 DEF sendAgentMail, RestInv, SessionTypes, ProviderTypes, HistoryTypes, CounterTypes,
              sessionVars, providerVars, history
<1> QED
  BY <1>7, <1>8, <1>9, StoreStep DEF sendAgentMail, sessionVars, history

LEMMA RetryMailInv ==
    ASSUME MailInv, NEW m \in Mail, NEW s \in BOOLEAN, retryAgentMailInject(m, s)
    PROVE  MailInv'
<1>1. StoreInv /\ RestInv
  BY DEF MailInv
<1>2. placement \in [Mail -> {"unsent", "pending", "submitting", "injected", "failed"}]
  BY <1>1 DEF StoreInv, StoreTypes
<1> DEFINE e == IF Queued(m) = {} THEN Entry(m, FALSE) ELSE EntryOf(m)
           woken == IF placement[m] = "pending"
                    THEN [e EXCEPT !.held = FALSE, !.deferred = FALSE] ELSE e
           g == [woken EXCEPT !.steer = @ \/ (s /\ e.verify = NoRid)]
<1>3. pendingInject' = Put(m, g) /\ placement' = [placement EXCEPT ![m] = "pending"]
  BY DEF retryAgentMailInject
<1>4. /\ e \in StoredEntries /\ e.id = m /\ SoundEntry(e)
      /\ (e.verify = NoRid /\ e.tries = 0) \/ e \in Pending
  <2>1. CASE Queued(m) = {}
    BY <2>1, FreshEntry DEF SoundEntry
  <2>2. CASE Queued(m) # {}
    BY <1>1, <2>2, QueuedWaits, WaitingEntry
  <2> QED
    BY <2>1, <2>2
<1> HIDE DEF e
<1>5. /\ woken \in StoredEntries /\ woken.id = m /\ woken.verify = e.verify
      /\ woken.tries = e.tries
  BY <1>4 DEF StoredEntries
<1> HIDE DEF woken
<1>6. g \in StoredEntries /\ g.id = m /\ g.verify = e.verify /\ g.tries = e.tries
  <2>1. woken.steer \in BOOLEAN
    BY <1>5 DEF StoredEntries
  <2>2. (woken.steer \/ (s /\ e.verify = NoRid)) \in BOOLEAN
    BY <2>1
  <2> DEFINE b == woken.steer \/ (s /\ e.verify = NoRid)
  <2>3. g = [woken EXCEPT !.steer = b] /\ b \in BOOLEAN
    BY <2>2
  <2> HIDE DEF b, g
  <2> QED
    BY <2>3, <1>5 DEF StoredEntries
<1> HIDE DEF g
<1>7. SoundEntry(g)
  BY <1>4, <1>6 DEF SoundEntry
<1>8. StoreInv' /\ \A f \in Pending' : f = g \/ f \in Pending
  BY <1>1, <1>3, <1>6, <1>7, PutEntry DEF retryAgentMailInject
<1>9. KeepsCounts
  BY <1>4, <1>6, <1>8 DEF KeepsCounts, Recounted
<1>10. NoNewClaims
  BY <1>2, <1>3 DEF NoNewClaims
<1>11. RestInv'
  <2>1. CounterTypes'
    BY <1>1, BumpTyped DEF RestInv, retryAgentMailInject
  <2>2. HistoryTypes'
    <3>1. /\ resent' = [resent EXCEPT ![m] = IF placement[m] = "failed" THEN @ + 1 ELSE @]
          /\ offered' = offered /\ strays' = strays
      BY DEF retryAgentMailInject
    <3>2. resent \in [Mail -> Nat]
      BY <1>1 DEF RestInv, HistoryTypes
    <3>3. resent' \in [Mail -> Nat]
      BY <3>1, <3>2
    <3> QED
      BY <1>1, <3>1, <3>3 DEF RestInv, HistoryTypes
  <2> QED
    BY <1>1, <2>1, <2>2 DEF retryAgentMailInject, RestInv, SessionTypes, ProviderTypes,
                            sessionVars, providerVars
<1> QED
  BY <1>8, <1>9, <1>10, <1>11, StoreStep DEF retryAgentMailInject, sessionVars

LEMMA WaitingMailInv ==
    ASSUME MailInv, NEW m \in Mail, clearAgentMailSteerRequest(m) \/ Elapse(m)
    PROVE  MailInv'
<1>1. StoreInv /\ RestInv
  BY DEF MailInv
<1>2. placement \in [Mail -> {"unsent", "pending", "submitting", "injected", "failed"}]
  BY <1>1 DEF StoreInv, StoreTypes
<1>3. Queued(m) # {}
  BY DEF clearAgentMailSteerRequest, Elapse
<1>4. placement[m] \in {"pending", "submitting"}
  BY <1>1, <1>3, QueuedWaits
<1>5. /\ EntryOf(m) \in Pending /\ EntryOf(m) \in StoredEntries /\ EntryOf(m).id = m
      /\ SoundEntry(EntryOf(m))
  BY <1>1, <1>4, WaitingEntry
<1>6. PICK g \in {[EntryOf(m) EXCEPT !.steer = FALSE],
                   [EntryOf(m) EXCEPT !.held = FALSE, !.deferred = FALSE]} :
             pendingInject' = Put(m, g)
  BY <1>3 DEF clearAgentMailSteerRequest, Elapse, Put
<1>7. /\ g \in StoredEntries /\ g.id = m /\ g.verify = EntryOf(m).verify
      /\ g.tries = EntryOf(m).tries
  BY <1>5, <1>6 DEF StoredEntries
<1>8. placement' = [placement EXCEPT ![m] = placement[m]]
  BY <1>2 DEF clearAgentMailSteerRequest, Elapse
<1>9. offered' = offered
  BY DEF clearAgentMailSteerRequest, Elapse, history
<1>10. StoreInv' /\ \A f \in Pending' : f = g \/ f \in Pending
  BY <1>1, <1>4, <1>5, <1>6, <1>7, <1>8, <1>9, PutEntry DEF SoundEntry
<1>11. KeepsCounts /\ NoNewClaims
  BY <1>2, <1>5, <1>7, <1>8, <1>10 DEF KeepsCounts, Recounted, NoNewClaims
<1>12. RestInv'
  BY <1>1 DEF clearAgentMailSteerRequest, Elapse, RestInv, SessionTypes, ProviderTypes,
              HistoryTypes, CounterTypes, sessionVars, providerVars, history
<1> QED
  BY <1>10, <1>11, <1>12, StoreStep DEF clearAgentMailSteerRequest, Elapse, sessionVars, history

LEMMA ResetMailInv ==
    ASSUME MailInv, resetAgentMailInjectBackoff
    PROVE  MailInv'
<1>1. StoreInv /\ RestInv
  BY DEF MailInv
<1>2. StoreInv' /\ KeepsCounts
  BY <1>1, ResetEntries DEF resetAgentMailInjectBackoff, history
<1>3. NoNewClaims
  BY DEF NoNewClaims, resetAgentMailInjectBackoff
<1>4. RestInv'
  BY <1>1 DEF resetAgentMailInjectBackoff, RestInv, SessionTypes, ProviderTypes,
              HistoryTypes, CounterTypes, sessionVars, providerVars, history
<1> QED
  BY <1>2, <1>3, <1>4, StoreStep DEF resetAgentMailInjectBackoff, sessionVars, history

-----------------------------------------------------------------------------
(* The pass: its snapshot, and the verification of what is unconfirmed. *)

(* A snapshot holds entries of the queue, each once. *)
LEMMA ListFacts ==
    ASSUME StoreTypes, Unique, NEW d \in BOOLEAN, NEW list \in listPendingAgentMailInjects(d)
    PROVE  /\ list \in Seq(StoredEntries)
           /\ \A k \in 1..Len(list) : list[k] \in Pending
           /\ \A j, k \in 1..Len(list) : list[j].id = list[k].id => j = k
<1> DEFINE listed == Listed(d)
           places == 1..Cardinality(listed)
<1>1. PICK order \in [places -> listed] :
         /\ \A n, o \in places : n < o => Before(order[n], order[o])
         /\ list = [n \in places |-> pendingInject[order[n]]]
  BY DEF listPendingAgentMailInjects
<1>2. listed \subseteq 1..Len(pendingInject)
  BY DEF Listed
<1>3. Cardinality(listed) \in Nat
  <2>1. Len(pendingInject) \in Nat
    BY DEF StoreTypes
  <2>2. IsFiniteSet(1..Len(pendingInject))
    BY <2>1, FS_Interval
  <2> QED
    BY <1>2, <2>2, FS_Subset, FS_CardinalityType
<1> HIDE DEF listed
<1>4. \A n \in places : order[n] \in 1..Len(pendingInject) /\ list[n] = pendingInject[order[n]]
  BY <1>1, <1>2
<1>5. list \in Seq(StoredEntries) /\ Len(list) = Cardinality(listed)
  <2>1. \A n \in places : pendingInject[order[n]] \in StoredEntries
    BY <1>4 DEF StoreTypes
  <2>2. list \in [1..Cardinality(listed) -> StoredEntries]
    BY <1>1, <2>1
  <2> QED
    BY <1>3, <2>2, LenProperties
<1>6. \A k \in 1..Len(list) : list[k] \in Pending
  BY <1>4, <1>5 DEF Pending, Members
<1>7. ASSUME NEW j \in places, NEW k \in places, order[j] = order[k] PROVE j = k
  <2>1. \A n, o \in places : n < o => order[n] # order[o]
    BY <1>1, <1>4 DEF Before
  <2> QED
    BY <1>3, <1>7, <2>1
<1>8. \A j, k \in 1..Len(list) : list[j].id = list[k].id => j = k
  <2> SUFFICES ASSUME NEW j \in places, NEW k \in places, list[j].id = list[k].id
               PROVE  j = k
    BY <1>5
  <2>1. order[j] = order[k]
    BY <1>4 DEF Unique
  <2> QED
    BY <1>7, <2>1
<1> QED
  BY <1>5, <1>6, <1>8

LEMMA RestKept ==
    ASSUME RestInv, SessionTypes', UNCHANGED <<providerVars, history, used>>
    PROVE  RestInv'
BY DEF RestInv, ProviderTypes, HistoryTypes, CounterTypes, providerVars, history

LEMMA SessionKept ==
    ASSUME RestInv, UNCHANGED sessionVars
    PROVE  SessionTypes'
BY DEF RestInv, SessionTypes, sessionVars

LEMMA DrainStartInv ==
    ASSUME MailInv, drainInjects
    PROVE  MailInv'
<1>1. StoreInv /\ RestInv /\ DrainInv
  BY DEF MailInv
<1>2. UNCHANGED <<storeVars, offered>> /\ RestInv'
  BY <1>1, RestKept, SessionKept DEF drainInjects, history
<1>3. StoreInv'
  BY <1>1, <1>2, StoreKept DEF OffersKept
<1>d. PICK d \in BOOLEAN : \E list \in listPendingAgentMailInjects(d) :
         /\ list # <<>>
         /\ drain' = [Off EXCEPT !.at = "next", !.pos = 1, !.list = list]
  BY DEF drainInjects
<1>4. PICK list \in listPendingAgentMailInjects(d) :
         /\ list # <<>>
         /\ drain' = [Off EXCEPT !.at = "next", !.pos = 1, !.list = list]
  BY <1>d
<1>5. /\ list \in Seq(StoredEntries)
      /\ \A k \in 1..Len(list) : list[k] \in Pending
      /\ \A j, k \in 1..Len(list) : list[j].id = list[k].id => j = k
  BY <1>1, ListFacts DEF StoreInv
<1>6. Len(list) \in Nat /\ Len(list) >= 1
  BY <1>4, <1>5, EmptySeq
<1>7. /\ drain' \in Drains /\ drain'.at = "next" /\ drain'.list = list
      /\ drain'.pos = 1 /\ drain'.batch = <<>> /\ drain'.result.steer = FALSE
  <2>1. drain' = [at |-> "next", list |-> list, pos |-> 1, from |-> 0, batch |-> <<>>,
                  steer |-> NoRid, known |-> {}, answer |-> "none", result |-> Off.result]
    BY <1>4 DEF Off
  <2>2. <<>> \in Seq(Mail) /\ "next" \in Locations
    BY DEF Locations
  <2> QED
    BY <1>5, <2>1, <2>2, OffTyped DEF Drains, Outcomes
<1>8. ListInv'
  BY <1>5, <1>6, <1>7 DEF ListInv
<1>9. Fresh'
  <2> SUFFICES ASSUME NEW k \in 1..Len(list), NEW f \in Pending', f.id = list[k].id
               PROVE  f.tries <= list[k].tries
    BY <1>7 DEF Fresh, ToVerify
  <2>1. f \in Pending
    BY <1>2 DEF Pending, Members, storeVars
  <2>2. list[k] \in Pending
    BY <1>5
  <2>3. f = list[k]
    BY <1>1, <2>1, <2>2 DEF StoreInv, Unique, Pending, Members
  <2>4. f.tries \in Nat
    BY <1>1, <2>1, PendingTyped, MailAssumption DEF StoreInv, StoredEntries
  <2> QED
    BY <2>3, <2>4
<1>10. Ahead' /\ BatchInv' /\ ResultInv' /\ LeaseInv'
  BY <1>7 DEF Ahead, BatchInv, Offering, ToBeVerified, ResultInv, LeaseInv
<1> QED
  BY <1>2, <1>3, <1>7, <1>8, <1>9, <1>10 DEF MailInv, DrainInv

(* A step of the injector that leaves the store alone. *)
LEMMA PassStep ==
    ASSUME MailInv, SessionTypes', UNCHANGED <<storeVars, providerVars, history, used>>
    PROVE  StoreInv' /\ RestInv' /\ KeepsCounts /\ NoNewClaims /\ offered' = offered
<1>1. StoreInv /\ RestInv /\ offered' = offered
  BY DEF MailInv, history
<1> QED
  BY <1>1, StoreKept, RestKept DEF OffersKept

(* The entry the pass is at. *)
LEMMA HereTyped ==
    ASSUME DrainInv, drain.at \in {"next", "verdict", "claim"}
    PROVE  /\ drain.pos \in 1..Len(drain.list) /\ Here \in StoredEntries /\ Here.id \in Mail
           /\ Here.verify \in RidsOrNone /\ Here.tries \in Nat
           /\ Here.steerId \in SteerIds \cup {NoRid}
<1>1. drain.pos \in 1..Len(drain.list)
  BY DrainFields DEF DrainInv, ListInv
<1> QED
  BY <1>1, DrainFields DEF DrainInv, Here

LEMMA VerifyAskInv ==
    ASSUME MailInv, VerifyAsk
    PROVE  MailInv'
<1>1. StoreInv /\ RestInv /\ DrainInv /\ SessionTypes
  BY DEF MailInv, RestInv
<1>2. drain.at = "next" /\ Here.verify # NoRid
  BY DEF VerifyAsk, At
<1>3. /\ drain.pos \in 1..Len(drain.list) /\ Here.id \in Mail
      /\ Here.verify \in Rids /\ Here.tries \in Nat /\ Here.steerId \in SteerIds \cup {NoRid}
  BY <1>1, <1>2, HereTyped, IdFacts
<1>4. PICK status \in Statuses :
         /\ \/ UNCHANGED sessionVars
            \/ reconcileMailSteer(Here.verify, status)
            \/ reconcileMailInject(Here.verify, FALSE, status)
         /\ drain' = [drain EXCEPT !.at = "verdict",
                         !.known = @ \cup {<<Here.verify, status>>},
                         !.result = VerifyResult(Here, status)]
  BY DEF VerifyAsk, Statuses
<1>5. SessionTypes'
  BY <1>1, <1>3, <1>4, SessionKept, ReconcileSteerTyped, ReconcileInjectTyped
<1>6. StoreInv' /\ RestInv' /\ KeepsCounts /\ NoNewClaims
  BY <1>5, PassStep DEF VerifyAsk
<1> DEFINE res == VerifyResult(Here, status)
<1>7. /\ res \in Outcomes
      /\ res.steer => res.rid \in SteerIds
      /\ res.what = "verify" => res.rid = Here.verify /\ Here.tries < MaxVerify
  <2>1. NoRid \in RidsOrNone /\ Here.verify \in RidsOrNone /\ MaxVerify \in Nat
    BY <1>3, IdFacts, MailAssumption
  <2>2. CASE status \in {"dispatched", "not-dispatched"}
    BY <2>1, <2>2 DEF VerifyResult, Result, Outcomes, Results
  <2>3. CASE status = "unknown" /\ Here.tries >= MaxVerify
    BY <2>1, <2>3 DEF VerifyResult, Result, Outcomes, Results
  <2>4. CASE status = "unknown" /\ ~(Here.tries >= MaxVerify)
    <3>1. res = Result("verify", Here.verify, Here.steerId = Here.verify)
      BY <2>4 DEF VerifyResult
    <3>2. /\ res \in Outcomes /\ res.what = "verify" /\ res.rid = Here.verify
          /\ res.steer = (Here.steerId = Here.verify)
      <4> DEFINE b == (Here.steerId = Here.verify)
      <4>1. b \in BOOLEAN /\ "verify" \in Results /\ res = Result("verify", Here.verify, b)
        BY <3>1 DEF Results
      <4> HIDE DEF b
      <4>2. /\ res \in Outcomes /\ res.what = "verify" /\ res.rid = Here.verify
            /\ res.steer = b
        BY <4>1, <2>1, ResultTyped
      <4> QED
        BY <4>2 DEF b
    <3>3. Here.tries < MaxVerify
      BY <1>3, <2>1, <2>4
    <3> QED
      BY <1>2, <1>3, <3>2, <3>3
  <2> QED
    BY <2>2, <2>3, <2>4 DEF Statuses
<1> HIDE DEF res
<1>8. drain \in Drains /\ drain' = [drain EXCEPT !.at = "verdict",
                         !.known = @ \cup {<<Here.verify, status>>}, !.result = res]
  BY <1>1, <1>4 DEF DrainInv, res
<1>9. /\ drain' \in Drains /\ drain'.at = "verdict" /\ drain'.list = drain.list
      /\ drain'.pos = drain.pos /\ drain'.batch = drain.batch /\ drain'.result = res
  <2> DEFINE kn == drain.known \cup {<<Here.verify, status>>}
  <2>1. kn \in SUBSET (RidsOrNone \X Statuses)
    BY <1>3, <1>8, IdFacts DEF Drains
  <2>2. drain' = [drain EXCEPT !.at = "verdict", !.known = kn, !.result = res]
    BY <1>8
  <2> HIDE DEF kn
  <2>3. /\ res \in [what : Results, rid : RidsOrNone, steer : BOOLEAN]
        /\ "verdict" \in Locations
    BY <1>7 DEF Outcomes, Locations
  <2> QED
    BY <1>8, <2>1, <2>2, <2>3 DEF Drains
<1>10. ListInv' /\ Ahead'
  BY <1>1, <1>2, <1>9 DEF DrainInv, ListInv, Ahead
<1>11. Fresh'
  BY <1>1, <1>2, <1>6, <1>8, <1>9, KeepsFresh DEF DrainInv, Fresh, ToVerify
<1>12. ResultInv'
  <2>1. Here' = Here
    BY <1>9 DEF Here
  <2> QED
    BY <1>2, <1>7, <1>9, <2>1 DEF ResultInv, ToBeVerified
<1>13. BatchInv' /\ LeaseInv'
  BY <1>9 DEF BatchInv, Offering, ToBeVerified, LeaseInv
<1> QED
  BY <1>6, <1>9, <1>10, <1>11, <1>12, <1>13 DEF MailInv, DrainInv

LEMMA VerifyClaimInv ==
    ASSUME MailInv, VerifyClaim
    PROVE  MailInv'
<1>1. StoreInv /\ RestInv /\ DrainInv /\ drain \in Drains
  BY DEF MailInv, DrainInv
<1>2. drain.at = "verdict" /\ UNCHANGED <<sessionVars, providerVars, history, used>>
  BY DEF VerifyClaim, At
<1>3. drain.pos \in 1..Len(drain.list) /\ Here.id \in Mail /\ Here.verify \in RidsOrNone
  BY <1>1, <1>2, HereTyped
<1>4. RestInv' /\ offered' = offered
  BY <1>1, <1>2, SessionKept, RestKept DEF history
<1>5. CASE Claimable(Here.id, Here.verify)
  <2>1. /\ beginAgentMailInject(Here.id, NoRid)
        /\ drain' = [drain EXCEPT !.at = "settle", !.batch = <<Here.id>>]
    BY <1>5 DEF VerifyClaim
  <2>2. placement[Here.id] = "pending"
    BY <1>5 DEF Claimable
  <2>3. StoreInv' /\ KeepsCounts
    BY <1>1, <1>3, <1>4, <2>1, <2>2, ClaimEntry
  <2>0. "settle" \in Locations
    BY DEF Locations
  <2>4. /\ drain' \in Drains /\ drain'.at = "settle" /\ drain'.list = drain.list
        /\ drain'.pos = drain.pos /\ drain'.batch = <<Here.id>> /\ drain'.result = drain.result
    BY <1>1, <1>3, <2>0, <2>1, SingleBatch DEF Drains
  <2>5. ListInv' /\ Ahead'
    BY <1>1, <1>3, <2>4 DEF DrainInv, ListInv, Ahead, Here
  <2>6. Fresh'
    BY <1>1, <2>3, <2>4, KeepsFresh DEF DrainInv, Fresh, ToVerify, StillFresh
  <2>7. ASSUME drain.result.what = "verify"
        PROVE  /\ drain.result.rid \in Rids /\ Here.id \in offered[drain.result.rid]
               /\ \A f \in Pending' : f.id = Here.id => f.tries <= MaxVerify
    <3>1. drain.result.rid = Here.verify /\ Here.verify # NoRid /\ Here.tries < MaxVerify
      BY <1>1, <1>2, <2>7 DEF DrainInv, ResultInv
    <3>2. EntryOf(Here.id).verify = Here.verify /\ EntryOf(Here.id).id = Here.id
          /\ SoundEntry(EntryOf(Here.id))
      BY <1>1, <1>3, <1>5, <2>2, WaitingEntry DEF Claimable
    <3>3. drain.pos \in ToVerify
      BY <1>2, <1>3, <3>1 DEF ToVerify, Here
    <3>4. \A f \in Pending' : f.id = Here.id => f.tries <= Here.tries
      BY <1>1, <2>3, <3>3, KeepsFresh DEF DrainInv, Here
    <3>5. Here.tries \in Nat /\ \A f \in Pending' : f.tries \in Nat
      <4>1. \A k \in 1..Len(pendingInject') : pendingInject'[k] \in StoredEntries
        BY <2>3 DEF StoreInv, StoreTypes
      <4>2. \A e \in StoredEntries : e.tries \in Nat
        BY MailAssumption DEF StoredEntries
      <4> QED
        BY <1>1, <1>2, <4>1, <4>2, HereTyped DEF Pending, Members
    <3> QED
      BY <1>3, <3>1, <3>2, <3>4, <3>5, IdFacts, MailAssumption DEF SoundEntry
  <2>8. BatchInv'
    BY <2>4, <2>7 DEF BatchInv, Offering, ToBeVerified
  <2>9. ResultInv'
    BY <1>1, <1>4, <2>4, <2>7 DEF DrainInv, ResultInv, ToBeVerified, Batch, Members
  <2>10. LeaseInv'
    BY <2>4 DEF LeaseInv
  <2> QED
    BY <1>4, <2>3, <2>4, <2>5, <2>6, <2>8, <2>9, <2>10 DEF MailInv, DrainInv
<1>6. CASE ~Claimable(Here.id, Here.verify)
  <2>1. Advance /\ UNCHANGED storeVars
    BY <1>6 DEF VerifyClaim
  <2>2. StoreInv' /\ KeepsCounts
    BY <1>1, <1>4, <2>1, StoreKept DEF OffersKept
  <2>3. DrainInv'
    BY <1>1, <2>1, <2>2, KeepsFresh, AdvanceInv DEF DrainInv
  <2> QED
    BY <1>4, <2>2, <2>3 DEF MailInv
<1> QED
  BY <1>5, <1>6

-----------------------------------------------------------------------------
(* The pass: claims and batches. *)

LEMMA SkipInv ==
    ASSUME MailInv, Skip
    PROVE  MailInv'
<1>1. RestInv /\ DrainInv /\ drain \in Drains /\ Fresh
  BY DEF MailInv, DrainInv
<1>2. SessionTypes'
  BY <1>1, PresenceTyped DEF Skip, RestInv
<1>3. StoreInv' /\ RestInv' /\ KeepsCounts
  BY <1>2, PassStep DEF Skip
<1>4. DrainInv'
  BY <1>1, <1>3, KeepsFresh, AdvanceInv DEF Skip
<1> QED
  BY <1>3, <1>4 DEF MailInv

LEMMA ToClaim ==
    ASSUME DrainInv, KeepsCounts, drain.at = "next", drain' \in Drains, drain'.at = "claim",
           drain'.list = drain.list, drain'.pos = drain.pos, drain'.batch = drain.batch,
           drain'.result = drain.result
    PROVE  DrainInv'
<1>0. drain \in Drains /\ ListInv /\ Fresh /\ Ahead /\ ResultInv
  BY DEF DrainInv
<1>1. ListInv' /\ Ahead'
  BY <1>0 DEF ListInv, Ahead
<1>2. Fresh'
  BY <1>0, KeepsFresh DEF Fresh, ToVerify, StillFresh
<1>3. BatchInv' /\ ResultInv' /\ LeaseInv'
  BY <1>0 DEF BatchInv, Offering, ToBeVerified, ResultInv, LeaseInv
<1> QED
  BY <1>1, <1>2, <1>3 DEF DrainInv

LEMMA ApproachInv ==
    ASSUME MailInv, Approach
    PROVE  MailInv'
<1>1. StoreInv /\ RestInv /\ DrainInv /\ drain \in Drains /\ drain.at = "next"
  BY DEF MailInv, DrainInv, Approach, At
<1>2. SessionTypes'
  BY <1>1, PresenceTyped DEF Approach, RestInv
<1>3. RestInv' /\ offered' = offered
  BY <1>1, <1>2, RestKept DEF Approach, history
<1>4. StoreInv' /\ KeepsCounts
  <2>1. CASE Here.deferred
    BY <1>1, <1>3, <2>1, ResetEntries DEF Approach
  <2>2. CASE ~Here.deferred
    BY <1>1, <1>3, <2>2, StoreKept DEF Approach, storeVars, OffersKept
  <2> QED
    BY <2>1, <2>2
<1>5. DrainInv'
  BY <1>1, <1>4, GotoFacts, ToClaim DEF Approach, Locations
<1> QED
  BY <1>3, <1>4, <1>5 DEF MailInv

LEMMA ApproachSteerInv ==
    ASSUME MailInv, ApproachSteer
    PROVE  MailInv'
<1>1. StoreInv /\ RestInv /\ DrainInv /\ drain \in Drains /\ drain.at = "next"
  BY DEF MailInv, DrainInv, ApproachSteer, At
<1>2. SessionTypes' /\ CounterTypes'
  BY <1>1, PresenceTyped, BumpTyped DEF ApproachSteer, RestInv
<1>3. RestInv' /\ offered' = offered
  BY <1>1, <1>2 DEF ApproachSteer, RestInv, ProviderTypes, HistoryTypes, providerVars, history
<1>4. StoreInv' /\ KeepsCounts
  BY <1>1, <1>3, StoreKept DEF ApproachSteer, OffersKept
<1>5. used.steers + 1 \in SteerIds
  BY <1>1, MailAssumption DEF ApproachSteer, Steering, RestInv, CounterTypes, SteerIds
<1> DEFINE s == used.steers + 1
<1>6. drain' = [drain EXCEPT !.at = "claim", !.steer = s]
  BY DEF ApproachSteer
<1> HIDE DEF s
<1>7. /\ drain' \in Drains /\ drain'.at = "claim" /\ drain'.list = drain.list
      /\ drain'.pos = drain.pos /\ drain'.batch = drain.batch /\ drain'.result = drain.result
  BY <1>1, <1>5, <1>6 DEF Drains, Locations, s
<1>8. DrainInv'
  BY <1>1, <1>4, <1>7, ToClaim
<1> QED
  BY <1>3, <1>4, <1>8 DEF MailInv

(* An entry the pass claims to offer it counts no attempts. *)
LEMMA ClaimedAnew ==
    ASSUME StoreInv, NEW m \in Mail, Claimable(m, NoRid), KeepsCounts
    PROVE  \A f \in Pending' : f.id = m => f.tries = 0
<1>1. /\ EntryOf(m).verify = NoRid /\ SoundEntry(EntryOf(m))
      /\ \A e \in Pending : e.id = m => e = EntryOf(m)
  BY WaitingEntry DEF Claimable
<1> QED
  BY <1>1 DEF SoundEntry, KeepsCounts, Recounted

LEMMA ClaimInv ==
    ASSUME MailInv, Claim
    PROVE  MailInv'
<1>1. StoreInv /\ RestInv /\ DrainInv /\ drain \in Drains
  BY DEF MailInv, DrainInv
<1>2. drain.at = "claim" /\ UNCHANGED <<sessionVars, providerVars, history, used>>
  BY DEF Claim, At
<1>3. drain.pos \in 1..Len(drain.list) /\ Here.id \in Mail
  BY <1>1, <1>2, HereTyped
<1>4. RestInv' /\ offered' = offered
  BY <1>1, <1>2, SessionKept, RestKept DEF history
<1>5. CASE Claimable(Here.id, NoRid)
  <2>1. beginAgentMailInject(Here.id, drain.steer)
    BY <1>5 DEF Claim
  <2>2. PICK next \in {"gather", "settle"} :
           drain' = [drain EXCEPT !.at = next, !.batch = <<Here.id>>, !.from = 1,
                                  !.result = Result("held", NoRid, FALSE)]
    BY <1>5 DEF Claim
  <2>3. StoreInv' /\ KeepsCounts
    BY <1>1, <1>3, <1>4, <1>5, <2>1, ClaimEntry, DrainFields DEF Claimable
  <2>4. /\ Result("held", NoRid, FALSE) \in Outcomes
        /\ Result("held", NoRid, FALSE).what = "held" /\ Result("held", NoRid, FALSE).steer = FALSE
    BY PlainResult DEF Results
  <2>5. /\ drain' \in Drains /\ drain'.at = next /\ drain'.list = drain.list
        /\ drain'.pos = drain.pos /\ drain'.batch = <<Here.id>> /\ drain'.from = 1
        /\ drain'.result = Result("held", NoRid, FALSE)
    <3> DEFINE res == Result("held", NoRid, FALSE)
    <3>1. /\ res \in [what : Results, rid : RidsOrNone, steer : BOOLEAN]
          /\ <<Here.id>> \in Seq(Mail)
      BY <1>3, <2>4, SingleBatch DEF Outcomes
    <3>0. next \in Locations
      BY DEF Locations
    <3>2. drain' = [drain EXCEPT !.at = next, !.batch = <<Here.id>>, !.from = 1, !.result = res]
      BY <2>2
    <3> HIDE DEF res
    <3>3. /\ drain' \in Drains /\ drain'.at = next /\ drain'.list = drain.list
          /\ drain'.pos = drain.pos /\ drain'.batch = <<Here.id>> /\ drain'.from = 1
          /\ drain'.result = res
      BY <1>1, <3>0, <3>1, <3>2 DEF Drains
    <3> QED
      BY <3>3 DEF res
  <2>6. ListInv' /\ Ahead'
    BY <1>1, <1>3, <2>5 DEF DrainInv, ListInv, Ahead, Here
  <2>7. Fresh'
    BY <1>1, <2>3, <2>5, KeepsFresh DEF DrainInv, Fresh, ToVerify, StillFresh
  <2>8. BatchInv'
    <3>1. \A f \in Pending' : f.id = Here.id => f.tries <= MaxVerify
      BY <1>1, <1>3, <1>5, <2>3, ClaimedAnew, MailAssumption
    <3> QED
      BY <2>5, <3>1 DEF BatchInv
  <2>9. ResultInv' /\ LeaseInv'
    BY <2>4, <2>5 DEF ResultInv, ToBeVerified, LeaseInv
  <2> QED
    BY <1>4, <2>3, <2>5, <2>6, <2>7, <2>8, <2>9 DEF MailInv, DrainInv
<1>6. CASE ~Claimable(Here.id, NoRid)
  <2>1. Advance /\ UNCHANGED storeVars
    BY <1>6 DEF Claim
  <2>2. StoreInv' /\ KeepsCounts
    BY <1>1, <1>4, <2>1, StoreKept DEF OffersKept
  <2>3. DrainInv'
    BY <1>1, <2>1, <2>2, KeepsFresh, AdvanceInv DEF DrainInv
  <2> QED
    BY <1>4, <2>2, <2>3 DEF MailInv
<1> QED
  BY <1>5, <1>6

LEMMA ToOffer ==
    ASSUME DrainInv, KeepsCounts, NoNewClaims, drain.at \in {"gather", "full"}, Goto(Offer)
    PROVE  DrainInv'
<1>0. drain \in Drains /\ ResultInv
  BY DEF DrainInv
<1>1. /\ Offer \in {"dispatch", "steer"}
      /\ Offer = "steer" => drain.steer \in SteerIds
  BY <1>0, DrainFields DEF Offer
<1>2. Offer \in Locations
  BY <1>1 DEF Locations
<1> DEFINE o == Offer
<1>3. /\ drain' \in Drains /\ drain'.at = o /\ drain'.list = drain.list
      /\ drain'.pos = drain.pos /\ drain'.batch = drain.batch /\ drain'.steer = drain.steer
      /\ drain'.result = drain.result
  BY <1>0, <1>2, GotoFacts
<1> HIDE DEF o
<1>4. o \in {"dispatch", "steer"} /\ (o = "steer" => drain.steer \in SteerIds)
  BY <1>1 DEF o
<1>5. ListInv' /\ Fresh' /\ Ahead' /\ BatchInv'
  BY <1>3, <1>4, MoveOn DEF Offering
<1>6. ResultInv' /\ LeaseInv'
  BY <1>0, <1>3, <1>4 DEF ResultInv, ToBeVerified, LeaseInv
<1> QED
  BY <1>3, <1>5, <1>6 DEF DrainInv

(* A sibling is claimed: it joins the batch, or is given back at once. *)
LEMMA GatherInv ==
    ASSUME MailInv, Gather
    PROVE  MailInv'
<1>1. StoreInv /\ RestInv /\ DrainInv /\ drain \in Drains
  BY DEF MailInv, DrainInv
<1>2. drain.at = "gather" /\ UNCHANGED <<sessionVars, providerVars, history, used>>
  BY DEF Gather, At
<1>3. RestInv' /\ offered' = offered
  BY <1>1, <1>2, SessionKept, RestKept DEF history
<1>4. CASE drain.from > Len(drain.list) \/ Len(drain.batch) >= MaxBatch
  <2>1. Goto(Offer) /\ UNCHANGED storeVars
    BY <1>4 DEF Gather
  <2>2. StoreInv' /\ KeepsCounts /\ NoNewClaims
    BY <1>1, <1>3, <2>1, StoreKept DEF OffersKept
  <2> QED
    BY <1>1, <1>2, <1>3, <2>1, <2>2, ToOffer DEF MailInv
<1>5. CASE ~(drain.from > Len(drain.list) \/ Len(drain.batch) >= MaxBatch)
  <2> DEFINE e == drain.list[drain.from]
  <2>1. drain.from \in 1..Len(drain.list) /\ e.id \in Mail
    BY <1>1, <1>2, <1>5, DrainFields DEF DrainInv, ListInv
  <2>2. /\ Len(drain.batch) >= 1 /\ Len(drain.batch) \in Nat
        /\ ListInv /\ Fresh /\ Ahead /\ BatchInv /\ ResultInv
    BY <1>1, <1>2, DrainFields DEF DrainInv, BatchInv, Offering
  <2>3. CASE drain' = [drain EXCEPT !.from = @ + 1] /\ UNCHANGED storeVars
    <3>1. StoreInv' /\ KeepsCounts /\ NoNewClaims
      BY <1>1, <1>3, <2>3, StoreKept DEF OffersKept
    <3>2. /\ drain' \in Drains /\ drain'.at = "gather" /\ drain'.list = drain.list
          /\ drain'.pos = drain.pos /\ drain'.batch = drain.batch
          /\ drain'.from = drain.from + 1 /\ drain'.result = drain.result
      <4> DEFINE after == drain.from + 1
      <4>1. after \in Nat /\ drain' = [drain EXCEPT !.from = after]
        BY <1>1, <2>3, DrainFields
      <4> HIDE DEF after
      <4>2. /\ drain' \in Drains /\ drain'.at = "gather" /\ drain'.list = drain.list
            /\ drain'.pos = drain.pos /\ drain'.batch = drain.batch
            /\ drain'.from = after /\ drain'.result = drain.result
        BY <1>1, <1>2, <4>1 DEF Drains
      <4> QED
        BY <4>2 DEF after
    <3>3. ListInv' /\ Ahead'
      BY <1>2, <2>1, <2>2, <3>2 DEF ListInv, Ahead
    <3>4. Fresh'
      BY <1>1, <1>2, <2>2, <3>1, <3>2, KeepsFresh DEF Fresh, ToVerify
    <3>5. BatchInv'
      <4>1. Pending' = Pending /\ placement' = placement
        BY <2>3 DEF Pending, Members, storeVars
      <4> QED
        BY <1>2, <2>2, <3>2, <4>1 DEF BatchInv, Offering
    <3>6. ResultInv' /\ LeaseInv'
      BY <2>2, <3>2 DEF ResultInv, ToBeVerified, LeaseInv
    <3> QED
      BY <1>3, <3>1, <3>2, <3>3, <3>4, <3>5, <3>6 DEF MailInv, DrainInv
  <2>4. ASSUME Claimable(e.id, NoRid), e.verify = NoRid, beginAgentMailInject(e.id, drain.steer),
               \/ drain' = [drain EXCEPT !.batch = Append(@, e.id), !.from = @ + 1]
               \/ Goto("full")
        PROVE  MailInv'
    <3>1. placement[e.id] = "pending" /\ drain.steer \in SteerIds \cup {NoRid}
      BY <1>1, <2>4, DrainFields DEF Claimable
    <3>2. StoreInv' /\ KeepsCounts
      BY <1>1, <1>3, <2>1, <2>4, <3>1, ClaimEntry
    <3>3. \A f \in Pending' : f.id = e.id => f.tries = 0
      BY <1>1, <2>1, <2>4, <3>2, ClaimedAnew
    <3>4. \A x \in Mail : placement'[x] = "submitting" => placement[x] = "submitting" \/ x = e.id
      BY <1>1, <2>1, <2>4 DEF beginAgentMailInject, StoreInv, StoreTypes
    <3>5. ASSUME NEW f \in Pending', NEW i \in 1..Len(drain.batch),
                 placement'[drain.batch[i]] = "submitting", f.id = drain.batch[i]
          PROVE  f.tries <= MaxVerify
      <4>1. CASE f.tries = 0
        BY <4>1, MailAssumption
      <4>2. CASE f.tries # 0
        <5>1. placement[drain.batch[i]] = "submitting"
          BY <1>1, <3>3, <3>4, <3>5, <4>2, DrainFields
        <5>2. PICK g \in Pending : g.id = f.id /\ g.tries = f.tries
          BY <3>2, <4>2 DEF KeepsCounts, Recounted
        <5> QED
          BY <1>2, <2>2, <3>5, <5>1, <5>2 DEF BatchInv, Offering
      <4> QED
        BY <4>1, <4>2
    <3>6. CASE Goto("full")
      <4>1. /\ drain' \in Drains /\ drain'.at = "full" /\ drain'.list = drain.list
            /\ drain'.pos = drain.pos /\ drain'.batch = drain.batch
            /\ drain'.from = drain.from /\ drain'.result = drain.result
        BY <1>1, <3>6, GotoFacts DEF Locations
      <4>2. ListInv' /\ Ahead'
        BY <1>2, <2>1, <2>2, <4>1 DEF ListInv, Ahead
      <4>3. Fresh'
        BY <1>1, <1>2, <2>2, <3>2, <4>1, KeepsFresh DEF Fresh, ToVerify
      <4>4. BatchInv'
        BY <2>2, <3>5, <4>1 DEF BatchInv
      <4>5. ResultInv' /\ LeaseInv'
        BY <2>2, <4>1 DEF ResultInv, ToBeVerified, LeaseInv
      <4> QED
        BY <1>3, <3>2, <4>1, <4>2, <4>3, <4>4, <4>5 DEF MailInv, DrainInv
    <3>7. CASE drain' = [drain EXCEPT !.batch = Append(@, e.id), !.from = @ + 1]
      <4> DEFINE n == Len(drain.batch)
                 b == Append(drain.batch, e.id)
      <4>1. /\ b \in Seq(Mail) /\ Len(b) = n + 1 /\ b[n + 1] = e.id
            /\ \A i \in 1..n : b[i] = drain.batch[i]
        BY <1>1, <2>1, DrainFields
      <4>2. drain' = [drain EXCEPT !.batch = b, !.from = @ + 1]
        BY <3>7
      <4> HIDE DEF b
      <4>3. /\ drain' \in Drains /\ drain'.at = "gather" /\ drain'.list = drain.list
            /\ drain'.pos = drain.pos /\ drain'.batch = b
            /\ drain'.from = drain.from + 1 /\ drain'.result = drain.result
        <5> DEFINE after == drain.from + 1
        <5>1. after \in Nat /\ drain' = [drain EXCEPT !.batch = b, !.from = after]
          BY <1>1, <4>2, DrainFields
        <5> HIDE DEF after
        <5>2. /\ drain' \in Drains /\ drain'.at = "gather" /\ drain'.list = drain.list
              /\ drain'.pos = drain.pos /\ drain'.batch = b
              /\ drain'.from = after /\ drain'.result = drain.result
          BY <1>1, <1>2, <4>1, <5>1 DEF Drains
        <5> QED
          BY <5>2 DEF after
      <4>4. \A i \in 1..(n + 1) : i = n + 1 \/ i \in 1..n
        BY <2>2
      <4>5. ListInv'
        BY <1>2, <2>1, <2>2, <4>3 DEF ListInv
      <4>6. Ahead'
        <5> SUFFICES ASSUME NEW k \in 1..Len(drain.list), NEW i \in 1..(n + 1), k > drain.pos,
                            drain.list[k].id = b[i]
                     PROVE  drain.list[k].verify = NoRid
          BY <4>1, <4>3 DEF Ahead
        <5>1. CASE i \in 1..n
          BY <5>1, <2>2, <4>1 DEF Ahead
        <5>2. CASE i = n + 1
          <6>1. k = drain.from
            BY <5>2, <2>1, <2>2, <4>1 DEF ListInv
          <6> QED
            BY <6>1, <2>4
        <5> QED
          BY <5>1, <5>2, <4>4
      <4>7. Fresh'
        BY <1>1, <1>2, <2>2, <3>2, <4>3, KeepsFresh DEF Fresh, ToVerify
      <4>8. BatchInv'
        <5>1. ASSUME NEW f \in Pending', NEW i \in 1..(n + 1),
                     placement'[b[i]] = "submitting", f.id = b[i]
              PROVE  f.tries <= MaxVerify
          <6>1. CASE i \in 1..n
            BY <6>1, <3>5, <4>1, <5>1
          <6>2. CASE i = n + 1
            BY <6>2, <3>3, <4>1, <5>1, MailAssumption
          <6> QED
            BY <6>1, <6>2, <4>4
        <5> QED
          BY <2>2, <4>1, <4>3, <5>1 DEF BatchInv
      <4>9. ResultInv' /\ LeaseInv'
        BY <2>2, <4>3 DEF ResultInv, ToBeVerified, LeaseInv
      <4> QED
        BY <1>3, <3>2, <4>3, <4>5, <4>6, <4>7, <4>8, <4>9 DEF MailInv, DrainInv
    <3> QED
      BY <2>4, <3>6, <3>7
  <2> QED
    BY <1>5, <2>3, <2>4 DEF Gather
<1> QED
  BY <1>4, <1>5

LEMMA GiveBackInv ==
    ASSUME MailInv, GiveBack
    PROVE  MailInv'
<1>1. StoreInv /\ RestInv /\ DrainInv /\ drain \in Drains /\ drain.at = "full"
  BY DEF MailInv, DrainInv, GiveBack, At
<1>2. RestInv' /\ offered' = offered
  BY <1>1, SessionKept, RestKept DEF GiveBack, history
<1> DEFINE m == drain.list[drain.from].id
           res == Result("held", NoRid, FALSE)
<1>3. m \in Mail
  BY <1>1, DrainFields DEF DrainInv, ListInv
<1>4. finishAgentMailInject(m, res)
  BY DEF GiveBack
<1>5. res \in Outcomes /\ res.what = "held" /\ ~res.steer
  BY PlainResult DEF Results
<1> HIDE DEF m, res
<1>6. /\ StoreInv'
      /\ \A f \in Pending' : Recounted(f) \/ (f.id = m /\ res.what = "verify")
      /\ \A x \in Mail : placement'[x] = "submitting" => placement[x] = "submitting" /\ x # m
  BY <1>1, <1>2, <1>3, <1>4, <1>5, FinishEntry
<1>7. KeepsCounts /\ NoNewClaims
  BY <1>5, <1>6 DEF KeepsCounts, NoNewClaims
<1> QED
  BY <1>1, <1>2, <1>6, <1>7, ToOffer DEF MailInv, GiveBack

LEMMA SettleOneInv ==
    ASSUME MailInv, SettleOne
    PROVE  MailInv'
<1>1. StoreInv /\ RestInv /\ DrainInv /\ drain \in Drains /\ drain.at = "settle"
  BY DEF MailInv, DrainInv, SettleOne, At
<1>2. RestInv' /\ offered' = offered
  BY <1>1, SessionKept, RestKept DEF SettleOne, history
<1>3. PICK k \in 1..Len(drain.batch) :
         /\ finishAgentMailInject(drain.batch[k], drain.result)
         /\ IF Len(drain.batch) = 1 THEN Advance
            ELSE drain' = [drain EXCEPT !.batch = Seqs!RemoveAt(@, k)]
  BY DEF SettleOne
<1> DEFINE m == drain.batch[k]
           res == drain.result
<1>4. m \in Mail /\ res \in Outcomes /\ m \in Batch
  BY <1>1, DrainFields DEF Batch, Members
<1>5. /\ res.steer => res.rid \in SteerIds
      /\ res.what = "verify" =>
            /\ res.rid \in Rids /\ m \in offered[res.rid]
            /\ placement[m] = "submitting" =>
                  \A e \in Pending : e.id = m => e.tries <= MaxVerify
  BY <1>1, <1>4 DEF DrainInv, ResultInv, BatchInv, ToBeVerified
<1>6. /\ StoreInv'
      /\ \A f \in Pending' : Recounted(f) \/ (f.id = m /\ res.what = "verify")
      /\ \A x \in Mail : placement'[x] = "submitting" => placement[x] = "submitting" /\ x # m
  BY <1>1, <1>2, <1>3, <1>4, <1>5, FinishEntry
<1>7. ASSUME NEW j \in 1..Len(drain.list), drain.list[j].verify # NoRid, j > drain.pos,
             NEW f \in Pending', f.id = drain.list[j].id
      PROVE  f.tries <= drain.list[j].tries
  <2>1. f.id # m
    BY <1>1, <1>7 DEF DrainInv, Ahead
  <2>2. Recounted(f)
    BY <1>6, <2>1
  <2>3. j \in ToVerify
    BY <1>7 DEF ToVerify
  <2> QED
    BY <1>1, <1>7, <2>2, <2>3, RecountedFresh DEF DrainInv
<1>8. StillFresh
  BY <1>7 DEF StillFresh
<1>9. CASE Len(drain.batch) = 1
  BY <1>1, <1>2, <1>3, <1>6, <1>8, <1>9, AdvanceInv DEF MailInv
<1>10. CASE Len(drain.batch) # 1
  <2> DEFINE n == Len(drain.batch)
             b == Seqs!RemoveAt(drain.batch, k)
  <2>1. /\ drain.batch \in Seq(Mail) /\ n \in Nat /\ k \in 1..n
        /\ b \in Seq(Mail) /\ Len(b) = n - 1
        /\ \A i \in 1..(n - 1) : b[i] = IF i < k THEN drain.batch[i] ELSE drain.batch[i + 1]
    BY <1>1, RemoveAtFacts, DrainFields
  <2>2. drain' = [drain EXCEPT !.batch = b]
    BY <1>3, <1>10
  <2> HIDE DEF b
  <2>3. \A i \in 1..Len(b) : \E j \in 1..n : b[i] = drain.batch[j]
    BY <2>1
  <2>4. /\ drain' \in Drains /\ drain'.at = "settle" /\ drain'.list = drain.list
        /\ drain'.pos = drain.pos /\ drain'.batch = b /\ drain'.result = drain.result
    BY <1>1, <2>1, <2>2 DEF Drains
  <2>5. ListInv'
    BY <1>1, <2>4 DEF DrainInv, ListInv
  <2>6. Ahead'
    BY <1>1, <2>3, <2>4 DEF DrainInv, Ahead
  <2>7. Fresh'
    BY <1>7, <2>4 DEF Fresh, ToVerify
  <2>8. BatchInv'
    <3>1. ASSUME res.what = "verify", NEW i \in 1..Len(b), NEW f \in Pending',
                 placement'[b[i]] = "submitting", f.id = b[i]
          PROVE  f.tries <= MaxVerify
      <4>1. PICK j \in 1..n : b[i] = drain.batch[j]
        BY <2>3
      <4>2. placement[drain.batch[j]] = "submitting" /\ f.id # m
        BY <1>1, <1>6, <3>1, <4>1, DrainFields
      <4>3. Recounted(f)
        BY <1>6, <4>2
      <4>4. CASE f.tries = 0
        BY <4>4, MailAssumption
      <4>5. CASE \E e \in Pending : e.id = f.id /\ e.verify = f.verify /\ e.tries = f.tries
        BY <1>1, <3>1, <4>1, <4>2, <4>5 DEF DrainInv, BatchInv, ToBeVerified
      <4> QED
        BY <4>3, <4>4, <4>5 DEF Recounted
    <3> QED
      BY <2>4, <3>1 DEF BatchInv, ToBeVerified, Offering
  <2>9. ResultInv'
    <3>1. Batch' \subseteq Batch
      BY <2>3, <2>4 DEF Batch, Members
    <3> QED
      BY <1>1, <1>2, <2>4, <3>1 DEF DrainInv, ResultInv, ToBeVerified
  <2>10. LeaseInv'
    BY <2>4 DEF LeaseInv
  <2> QED
    BY <1>2, <1>6, <2>4, <2>5, <2>6, <2>7, <2>8, <2>9, <2>10 DEF MailInv, DrainInv
<1> QED
  BY <1>9, <1>10

-----------------------------------------------------------------------------
(* The offer: a steer into the running turn, or a prompt. *)

LEMMA OfferStep ==
    ASSUME MailInv, RestInv', UNCHANGED storeVars, OffersKept, drain.at \in Offering,
           drain' \in Drains, drain'.at \in (Offering \cup {"settle"}) \ {"gather", "full"},
           drain'.list = drain.list, drain'.pos = drain.pos, drain'.batch = drain.batch,
           ResultInv', LeaseInv'
    PROVE  MailInv'
<1>1. StoreInv' /\ KeepsCounts /\ NoNewClaims
  BY StoreKept DEF MailInv
<1>2. ListInv' /\ Fresh' /\ Ahead' /\ BatchInv'
  BY <1>1, MoveOn DEF MailInv
<1> QED
  BY <1>1, <1>2 DEF MailInv, DrainInv

LEMMA PlainSettle ==
    ASSUME MailInv, RestInv', UNCHANGED storeVars, OffersKept, drain.at \in Offering,
           NEW what \in Results \ {"verify"}, Settle(Result(what, NoRid, FALSE))
    PROVE  MailInv'
<1>1. drain \in Drains
  BY DEF MailInv, DrainInv
<1>2. /\ Result(what, NoRid, FALSE) \in Outcomes /\ Result(what, NoRid, FALSE).what # "verify"
      /\ Result(what, NoRid, FALSE).steer = FALSE
  BY PlainResult
<1>3. /\ drain' \in Drains /\ drain'.at = "settle"
      /\ drain'.result = Result(what, NoRid, FALSE)
      /\ drain'.list = drain.list /\ drain'.pos = drain.pos /\ drain'.batch = drain.batch
  BY <1>1, <1>2, SettleFacts
<1>4. ResultInv' /\ LeaseInv'
  BY <1>2, <1>3 DEF ResultInv, ToBeVerified, LeaseInv
<1> QED
  BY <1>3, <1>4, OfferStep

LEMMA VerifySettle ==
    ASSUME MailInv, RestInv', UNCHANGED storeVars, OffersKept, drain.at \in Offering,
           NEW r \in Rids, NEW s \in BOOLEAN, s => r \in SteerIds, Batch \subseteq offered'[r],
           Settle(Result("verify", r, s))
    PROVE  MailInv'
<1>1. drain \in Drains
  BY DEF MailInv, DrainInv
<1> DEFINE res == Result("verify", r, s)
<1>2. res \in Outcomes /\ res.what = "verify" /\ res.rid = r /\ res.steer = s
  BY ResultTyped, IdFacts DEF Results
<1>3. /\ drain' \in Drains /\ drain'.at = "settle" /\ drain'.result = res
      /\ drain'.list = drain.list /\ drain'.pos = drain.pos /\ drain'.batch = drain.batch
  BY <1>1, <1>2, SettleFacts
<1> HIDE DEF res
<1>4. Batch' = Batch
  BY <1>3 DEF Batch, Members
<1>5. ResultInv' /\ LeaseInv'
  BY <1>2, <1>3, <1>4 DEF ResultInv, ToBeVerified, LeaseInv
<1> QED
  BY <1>3, <1>5, OfferStep

(* The step to a place where nothing is promised but the row. *)
LEMMA GotoStep ==
    ASSUME MailInv, RestInv', UNCHANGED storeVars, OffersKept, drain.at \in Offering,
           NEW loc \in {"dispatch", "record", "refused", "release"}, Goto(loc),
           loc = "refused" => pendingDispatch'.rid \in Mail
    PROVE  MailInv'
<1>1. drain \in Drains /\ ResultInv
  BY DEF MailInv, DrainInv
<1>2. loc \in Locations
  BY DEF Locations
<1>3. /\ drain' \in Drains /\ drain'.at = loc /\ drain'.result = drain.result
      /\ drain'.list = drain.list /\ drain'.pos = drain.pos /\ drain'.batch = drain.batch
  BY <1>1, <1>2, GotoFacts
<1>4. ResultInv' /\ LeaseInv'
  BY <1>1, <1>3 DEF ResultInv, ToBeVerified, LeaseInv
<1> QED
  BY <1>3, <1>4, OfferStep DEF Offering

LEMMA OfferUnderFacts ==
    ASSUME HistoryTypes, drain \in Drains, NEW r \in Rids, OfferUnder(r)
    PROVE  /\ OffersKept /\ offered' \in [Rids -> SUBSET Mail]
           /\ Batch \subseteq offered'[r] /\ Batch \subseteq Mail
<1>1. Batch \subseteq Mail
  BY DrainFields DEF Batch, Members
<1> QED
  BY <1>1 DEF OfferUnder, HistoryTypes, OffersKept

LEMMA SameOffers ==
    ASSUME offered' = offered
    PROVE  OffersKept
BY DEF OffersKept

LEMMA SteerRecordInv ==
    ASSUME MailInv, SteerRecord
    PROVE  MailInv'
<1>1. /\ RestInv /\ SessionTypes /\ HistoryTypes /\ drain \in Drains /\ drain.at = "steer"
      /\ drain.at \in Offering /\ ResultInv /\ drain.steer \in SteerIds
  BY DEF MailInv, RestInv, DrainInv, LeaseInv, SteerRecord, At, Offering
<1>2. UNCHANGED storeVars /\ UNCHANGED providerVars /\ UNCHANGED <<resent, strays, used>>
  BY DEF SteerRecord
<1>3. CASE /\ UNCHANGED <<sessionVars, offered>>
           /\ Settle(Result("held", NoRid, FALSE)) \/ Goto("dispatch")
  <2>1. RestInv' /\ OffersKept
    BY <1>1, <1>2, <1>3, SessionKept, RestKept, SameOffers DEF history
  <2>2. CASE Settle(Result("held", NoRid, FALSE))
    BY <1>1, <1>2, <2>1, <2>2, PlainSettle DEF Results
  <2>3. CASE Goto("dispatch")
    BY <1>1, <1>2, <2>1, <2>3, GotoStep
  <2> QED
    BY <1>3, <2>2, <2>3
<1>4. CASE /\ pendingSteer' = [rid |-> drain.steer, mail |-> Batch]
           /\ OfferUnder(drain.steer)
           /\ Goto("steering") /\ UNCHANGED <<pendingDispatch, dispatched, retired>>
  <2>1. /\ OffersKept /\ offered' \in [Rids -> SUBSET Mail]
        /\ Batch \subseteq offered'[drain.steer] /\ Batch \subseteq Mail
    BY <1>1, <1>4, OfferUnderFacts, IdFacts
  <2>2. pendingSteer' \in Steers /\ pendingSteer' # NoSteer
    BY <1>1, <1>4, <2>1, IdFacts DEF Steers, NoSteer
  <2>3. RestInv'
    BY <1>1, <1>2, <1>4, <2>1, <2>2 DEF RestInv, SessionTypes, ProviderTypes, HistoryTypes,
                                        CounterTypes, providerVars
  <2>4. /\ drain' \in Drains /\ drain'.at = "steering" /\ drain'.result = drain.result
        /\ drain'.list = drain.list /\ drain'.pos = drain.pos /\ drain'.batch = drain.batch
        /\ drain'.steer = drain.steer
    BY <1>1, <1>4, GotoFacts DEF Locations
  <2>5. Batch' = Batch
    BY <2>4 DEF Batch, Members
  <2>6. ResultInv' /\ LeaseInv'
    BY <1>1, <2>1, <2>2, <2>4, <2>5 DEF ResultInv, ToBeVerified, LeaseInv
  <2> QED
    BY <1>1, <1>2, <2>1, <2>3, <2>4, <2>6, OfferStep DEF Offering
<1> QED
  BY <1>3, <1>4 DEF SteerRecord

LEMMA SteerSendInv ==
    ASSUME MailInv, SteerSend
    PROVE  MailInv'
<1>1. /\ RestInv /\ drain \in Drains /\ drain.at = "steering" /\ ResultInv /\ LeaseInv
      /\ drain.at \in Offering
  BY DEF MailInv, DrainInv, SteerSend, At, Offering
<1>2. drain.steer \in SteerIds
  BY <1>1 DEF LeaseInv
<1>3. PICK answer \in {"applied", "idle", "refused", "unknown"} :
         /\ PerformSteer(drain.steer, Batch, answer)
         /\ drain' = [drain EXCEPT !.at = "steered", !.answer = answer]
  BY DEF SteerSend
<1>4. /\ UNCHANGED storeVars /\ offered' = offered /\ pendingSteer' = pendingSteer
      /\ UNCHANGED sessionVars /\ UNCHANGED history /\ used' = used
      /\ UNCHANGED <<taken, lost, turn>>
  BY DEF SteerSend, history, sessionVars
<1>5. ProviderTypes'
  BY <1>1, <1>2, <1>3, <1>4, PerformSteerTyped DEF RestInv
<1>6. RestInv'
  BY <1>1, <1>4, <1>5, SessionKept DEF RestInv, HistoryTypes, CounterTypes, history
<1>7. /\ drain' \in Drains /\ drain'.at = "steered" /\ drain'.result = drain.result
      /\ drain'.list = drain.list /\ drain'.pos = drain.pos /\ drain'.batch = drain.batch
      /\ drain'.steer = drain.steer /\ drain'.answer = answer
  <2>1. "steered" \in Locations
    BY DEF Locations
  <2>2. answer \in Statuses \cup {"none", "busy", "free", "applied", "idle", "refused"}
    BY DEF Statuses
  <2> QED
    BY <1>1, <1>3, <2>1, <2>2 DEF Drains
<1>8. Batch' = Batch
  BY <1>7 DEF Batch, Members
<1>9. ResultInv' /\ LeaseInv'
  BY <1>1, <1>2, <1>4, <1>7, <1>8 DEF ResultInv, ToBeVerified, LeaseInv
<1> QED
  BY <1>1, <1>4, <1>6, <1>7, <1>9, OfferStep, SameOffers DEF Offering

LEMMA SteerOutcomeInv ==
    ASSUME MailInv, SteerOutcome
    PROVE  MailInv'
<1>1. /\ RestInv /\ SessionTypes /\ drain \in Drains /\ drain.at = "steered" /\ ResultInv
      /\ drain.at \in Offering /\ drain.steer \in SteerIds /\ pendingSteer # NoSteer
      /\ Batch \subseteq offered[drain.steer]
      /\ drain.answer \in {"applied", "idle", "refused", "unknown"}
  BY DEF MailInv, RestInv, DrainInv, LeaseInv, SteerOutcome, At, Offering
<1>2. /\ UNCHANGED storeVars /\ offered' = offered
      /\ UNCHANGED <<providerVars, history, used>>
  BY DEF SteerOutcome, history
<1>3. SessionTypes'
  <2>1. CASE UNCHANGED sessionVars
    BY <1>1, <2>1, SessionKept
  <2>2. CASE completePendingSteer(drain.answer = "applied")
    BY <1>1, <2>2, SteerOpen, CompleteSteerTyped
  <2> QED
    BY <2>1, <2>2 DEF SteerOutcome
<1>4. RestInv' /\ OffersKept
  BY <1>1, <1>2, <1>3, RestKept, SameOffers
<1>5. CASE drain.answer = "applied"
  BY <1>1, <1>2, <1>4, <1>5, PlainSettle DEF SteerOutcome, Results
<1>6. CASE drain.answer = "refused"
  BY <1>1, <1>2, <1>4, <1>6, PlainSettle DEF SteerOutcome, Results
<1>7. CASE drain.answer = "unknown"
  <2>1. Settle(Result("verify", drain.steer, TRUE))
    BY <1>7 DEF SteerOutcome
  <2> QED
    BY <1>1, <1>2, <1>4, <2>1, IdFacts, VerifySettle
<1>8. CASE drain.answer = "idle"
  <2>1. drain' = [drain EXCEPT !.at = "dispatch", !.answer = "none"]
    BY <1>8 DEF SteerOutcome
  <2>2. /\ drain' \in Drains /\ drain'.at = "dispatch" /\ drain'.result = drain.result
        /\ drain'.list = drain.list /\ drain'.pos = drain.pos /\ drain'.batch = drain.batch
    BY <1>1, <2>1 DEF Drains, Locations
  <2>3. ResultInv' /\ LeaseInv'
    BY <1>1, <2>2 DEF ResultInv, ToBeVerified, LeaseInv
  <2> QED
    BY <1>1, <1>2, <1>4, <2>2, <2>3, OfferStep DEF Offering
<1> QED
  BY <1>1, <1>5, <1>6, <1>7, <1>8

(* The claimed message, whose id the prompt has. *)
LEMMA ClaimedTyped ==
    ASSUME DrainInv, drain.at \in Offering
    PROVE  Claimed \in Mail /\ Claimed \in Rids /\ Batch \subseteq Mail
<1>1. drain \in Drains /\ Len(drain.batch) >= 1
  BY DEF DrainInv, BatchInv
<1>2. 1 \in 1..Len(drain.batch)
  BY <1>1, DrainFields
<1> QED
  BY <1>1, <1>2, DrainFields, IdFacts DEF Claimed, Batch, Members

LEMMA DispatchEarlyInv ==
    ASSUME MailInv, DispatchEarly
    PROVE  MailInv'
<1>1. /\ RestInv /\ SessionTypes /\ drain \in Drains /\ drain.at \in Offering
  BY DEF MailInv, RestInv, DrainInv, DispatchEarly, At, Offering
<1>2. /\ UNCHANGED storeVars /\ offered' = offered
      /\ UNCHANGED <<providerVars, history, used>>
  BY DEF DispatchEarly, history
<1>3. SessionTypes'
  BY <1>1 DEF DispatchEarly, SessionTypes, sessionVars, Rows
<1>4. RestInv' /\ OffersKept
  BY <1>1, <1>2, <1>3, RestKept, SameOffers
<1>5. \E what \in {"retry", "held", "accepted"} : Settle(Result(what, NoRid, FALSE))
  BY DEF DispatchEarly
<1> QED
  BY <1>1, <1>2, <1>4, <1>5, PlainSettle DEF Results

LEMMA DispatchInv ==
    ASSUME MailInv, Dispatch
    PROVE  MailInv'
<1>1. /\ RestInv /\ SessionTypes /\ drain \in Drains /\ drain.at \in Offering /\ ResultInv
  BY DEF MailInv, RestInv, DrainInv, Dispatch, At, Offering
<1>2. Claimed \in Mail /\ Batch \subseteq Mail
  BY <1>1, ClaimedTyped DEF MailInv
<1>3. /\ UNCHANGED storeVars /\ offered' = offered
      /\ UNCHANGED <<providerVars, history, used>>
      /\ pendingDispatch' = [rid |-> Claimed, mail |-> Batch, refused |-> FALSE]
      /\ UNCHANGED <<pendingSteer, dispatched, retired>>
  BY DEF Dispatch, history
<1>4. SessionTypes' /\ pendingDispatch'.rid \in Mail
  BY <1>1, <1>2, <1>3 DEF SessionTypes, Rows
<1>5. RestInv' /\ OffersKept
  BY <1>1, <1>3, <1>4, RestKept, SameOffers
<1>6. PICK gate \in {"busy", "free"} : drain' = [drain EXCEPT !.at = "sending", !.answer = gate]
  BY DEF Dispatch
<1>7. /\ drain' \in Drains /\ drain'.at = "sending" /\ drain'.result = drain.result
      /\ drain'.list = drain.list /\ drain'.pos = drain.pos /\ drain'.batch = drain.batch
  BY <1>1, <1>6 DEF Drains, Locations
<1>8. ResultInv' /\ LeaseInv'
  BY <1>1, <1>4, <1>7 DEF ResultInv, ToBeVerified, LeaseInv
<1> QED
  BY <1>1, <1>3, <1>5, <1>7, <1>8, OfferStep DEF Offering

LEMMA HoldInv ==
    ASSUME MailInv, Hold
    PROVE  MailInv'
<1>1. /\ RestInv /\ SessionTypes /\ drain.at \in Offering
  BY DEF MailInv, RestInv, Hold, At, Offering
<1>2. /\ UNCHANGED storeVars /\ offered' = offered
      /\ UNCHANGED <<providerVars, history, used>>
  BY DEF Hold, history
<1>3. SessionTypes'
  BY <1>1 DEF Hold, SessionTypes, Rows
<1> QED
  BY <1>1, <1>2, <1>3, RestKept, SameOffers, PlainSettle DEF Hold, Results

LEMMA SendInv ==
    ASSUME MailInv, Send
    PROVE  MailInv'
<1>1. /\ RestInv /\ SessionTypes /\ ProviderTypes /\ HistoryTypes /\ CounterTypes
      /\ drain \in Drains /\ drain.at \in Offering /\ LeaseInv /\ pendingDispatch.rid \in Mail
  BY DEF MailInv, RestInv, DrainInv, Send, At, Offering, LeaseInv
<1>2. Claimed \in Mail /\ Claimed \in Rids
  BY <1>1, ClaimedTyped DEF MailInv
<1>3. /\ UNCHANGED storeVars /\ UNCHANGED sessionVars /\ pendingDispatch' = pendingDispatch
      /\ resent' = resent /\ used' = used /\ OfferUnder(Claimed)
      /\ strays' = IF drain.steer = NoRid THEN strays ELSE strays \cup (Batch \ {Claimed})
  BY DEF Send, sessionVars
<1>4. /\ OffersKept /\ offered' \in [Rids -> SUBSET Mail]
      /\ Batch \subseteq offered'[Claimed] /\ Batch \subseteq Mail
  BY <1>1, <1>2, <1>3, OfferUnderFacts
<1>5. HistoryTypes' /\ SessionTypes' /\ CounterTypes'
  BY <1>1, <1>3, <1>4 DEF HistoryTypes, SessionTypes, sessionVars, CounterTypes
<1>6. ProviderTypes'
  <2>1. CASE Accept(Claimed, Batch)
    BY <1>1, <1>2, <2>1, AcceptTyped
  <2>2. CASE UNCHANGED providerVars
    BY <1>1, <2>2 DEF ProviderTypes, providerVars
  <2> QED
    BY <2>1, <2>2 DEF Send
<1>7. RestInv'
  BY <1>5, <1>6 DEF RestInv
<1>8. CASE Goto("record") \/ Goto("refused")
  BY <1>1, <1>3, <1>4, <1>7, <1>8, GotoStep
<1>9. CASE Settle(Result("verify", Claimed, FALSE))
  BY <1>1, <1>2, <1>3, <1>4, <1>7, <1>9, VerifySettle
<1>10. CASE Settle(Result("retry", NoRid, FALSE))
  BY <1>1, <1>3, <1>4, <1>7, <1>10, PlainSettle DEF Results
<1> QED
  BY <1>8, <1>9, <1>10 DEF Send

LEMMA RecordInv ==
    ASSUME MailInv, Record
    PROVE  MailInv'
<1>1. /\ RestInv /\ SessionTypes /\ drain.at \in Offering
  BY DEF MailInv, RestInv, Record, At, Offering
<1>2. Claimed \in Rids
  BY <1>1, ClaimedTyped DEF MailInv
<1>3. /\ UNCHANGED storeVars /\ offered' = offered
      /\ UNCHANGED <<providerVars, history, used>>
  BY DEF Record, history
<1>4. SessionTypes'
  BY <1>1, <1>2, IdFacts DEF Record, SessionTypes, Rows
<1> QED
  BY <1>1, <1>3, <1>4, RestKept, SameOffers, PlainSettle DEF Record, Results

LEMMA RefusalInv ==
    ASSUME MailInv, RecordRefusal
    PROVE  MailInv'
<1>1. /\ RestInv /\ SessionTypes /\ drain.at \in Offering /\ pendingDispatch.rid \in Mail
  BY DEF MailInv, RestInv, DrainInv, LeaseInv, RecordRefusal, At, Offering
<1>2. /\ UNCHANGED storeVars /\ offered' = offered
      /\ UNCHANGED <<providerVars, history, used>>
  BY DEF RecordRefusal, history
<1>3. pendingDispatch # NoDispatch
  BY <1>1, IdFacts DEF NoDispatch
<1>4. [pendingDispatch EXCEPT !.refused = TRUE] \in Rows
  BY <1>1, <1>3, RowOpen DEF Rows
<1>5. SessionTypes'
  BY <1>1, <1>4 DEF RecordRefusal, SessionTypes
<1> QED
  BY <1>1, <1>2, <1>5, RestKept, SameOffers, GotoStep DEF RecordRefusal

LEMMA ReleaseInv ==
    ASSUME MailInv, Release
    PROVE  MailInv'
<1>1. /\ RestInv /\ SessionTypes /\ drain.at \in Offering
  BY DEF MailInv, RestInv, Release, At, Offering
<1>2. /\ UNCHANGED storeVars /\ offered' = offered
      /\ UNCHANGED <<providerVars, history, used>>
  BY DEF Release, history
<1>3. SessionTypes'
  BY <1>1 DEF Release, SessionTypes, Rows
<1> QED
  BY <1>1, <1>2, <1>3, RestKept, SameOffers, PlainSettle DEF Release, Results

-----------------------------------------------------------------------------
(* Restart. *)

LEMMA CrashInv ==
    ASSUME MailInv, Crash
    PROVE  MailInv'
<1>1. StoreInv /\ RestInv /\ offered' = offered
  BY DEF MailInv, Crash, history
<1>2. RestInv'
  <2>1. CounterTypes'
    BY <1>1, BumpTyped DEF Crash, RestInv
  <2> QED
    BY <1>1, <2>1 DEF Crash, RestInv, SessionTypes, ProviderTypes, HistoryTypes,
                      sessionVars, providerVars, history
<1>3. StoreInv'
  BY <1>1, StoreKept, SameOffers DEF Crash
<1>4. drain' = [Off EXCEPT !.at = "down"]
  BY DEF Crash
<1>5. /\ drain' \in Drains /\ drain'.at = "down" /\ drain'.list = <<>> /\ drain'.pos = 0
      /\ drain'.batch = <<>> /\ drain'.result.steer = FALSE
  BY <1>4, OffTyped DEF Drains, Locations
<1> QED
  BY <1>2, <1>3, <1>5, AtRest DEF MailInv

LEMMA InitAskInv ==
    ASSUME MailInv, NEW m \in Mail, InitAsk(m)
    PROVE  MailInv'
<1>1. /\ StoreInv /\ RestInv /\ SessionTypes /\ DrainInv /\ drain \in Drains
      /\ drain.at = "down"
  BY DEF MailInv, RestInv, DrainInv, InitAsk, At
<1>2. placement[m] \in {"pending", "submitting"}
  BY DEF InitAsk, Interrupted
<1>3. Queued(m) # {} /\ EntryOf(m).steerId \in SteerIds \cup {NoRid}
  BY <1>1, <1>2, WaitingEntry DEF StoredEntries
<1> DEFINE s == EntryOf(m).steerId
<1>4. PICK status \in Statuses :
         /\ reconcileMailInject(m, s # NoRid, status)
         /\ drain' = [drain EXCEPT !.at = "asked", !.batch = <<m>>, !.steer = s,
                                   !.answer = status]
  BY <1>3 DEF InitAsk, Statuses
<1> HIDE DEF s
<1>5. SessionTypes'
  BY <1>1, <1>4, ReconcileInjectTyped, IdFacts
<1>6. StoreInv' /\ RestInv'
  BY <1>5, PassStep DEF InitAsk
<1>7. /\ drain' \in Drains /\ drain'.at = "asked" /\ drain'.list = drain.list
      /\ drain'.pos = drain.pos /\ drain'.result = drain.result
  <2>1. "asked" \in Locations
    BY DEF Locations
  <2>2. s \in SteerIds \cup {NoRid}
    BY <1>3 DEF s
  <2> QED
    BY <1>1, <1>4, <2>1, <2>2, SingleBatch DEF Drains
<1>8. drain.list = <<>>
  BY <1>1 DEF DrainInv, ListInv
<1>9. ListInv' /\ Fresh' /\ Ahead'
  BY <1>1, <1>7, <1>8 DEF DrainInv, ListInv, Fresh, ToVerify, Ahead
<1>10. BatchInv' /\ ResultInv' /\ LeaseInv'
  BY <1>1, <1>7 DEF DrainInv, BatchInv, Offering, ToBeVerified, ResultInv, LeaseInv
<1> QED
  BY <1>6, <1>7, <1>9, <1>10 DEF MailInv, DrainInv

LEMMA InitSteerInv ==
    ASSUME MailInv, InitSteer
    PROVE  MailInv'
<1>1. /\ RestInv /\ SessionTypes /\ DrainInv /\ drain \in Drains /\ drain.at = "asked"
  BY DEF MailInv, RestInv, DrainInv, InitSteer, At
<1>2. drain.steer \in SteerIds \cup {NoRid}
  BY <1>1, DrainFields
<1>3. SessionTypes' /\ \E status : Settle(InitResult(status))
  <2>1. CASE drain.steer = NoRid \/ drain.answer = "dispatched"
    BY <1>1, <2>1, SessionKept DEF InitSteer
  <2>2. CASE ~(drain.steer = NoRid \/ drain.answer = "dispatched")
    <3>1. PICK status \in {"dispatched", "not-dispatched", "unknown"} :
             /\ reconcileMailSteer(drain.steer, status)
             /\ Settle(InitResult(IF status = "not-dispatched" THEN drain.answer ELSE status))
      BY <2>2 DEF InitSteer
    <3>2. drain.steer \in Rids
      BY <1>2, <2>2, IdFacts
    <3> QED
      BY <1>1, <3>1, <3>2, ReconcileSteerTyped
  <2> QED
    BY <2>1, <2>2
<1>4. PICK what \in Results \ {"verify"} : Settle(Result(what, NoRid, FALSE))
  BY <1>3 DEF InitResult, Results
<1>5. StoreInv' /\ RestInv' /\ KeepsCounts
  BY <1>3, PassStep DEF InitSteer
<1> DEFINE res == Result(what, NoRid, FALSE)
<1>6. res \in Outcomes /\ res.what # "verify" /\ res.steer = FALSE
  BY PlainResult
<1>7. /\ drain' \in Drains /\ drain'.at = "settle" /\ drain'.result = res
      /\ drain'.list = drain.list /\ drain'.pos = drain.pos /\ drain'.batch = drain.batch
  BY <1>1, <1>4, <1>6, SettleFacts
<1> HIDE DEF res
<1>8. drain.list = <<>>
  BY <1>1 DEF DrainInv, ListInv
<1>9. ListInv' /\ Fresh' /\ Ahead'
  BY <1>1, <1>7, <1>8 DEF DrainInv, ListInv, Fresh, ToVerify, Ahead
<1>10. BatchInv' /\ ResultInv' /\ LeaseInv'
  BY <1>6, <1>7 DEF BatchInv, Offering, ToBeVerified, ResultInv, LeaseInv
<1> QED
  BY <1>5, <1>7, <1>9, <1>10 DEF MailInv, DrainInv

LEMMA InitDoneInv ==
    ASSUME MailInv, InitDone
    PROVE  MailInv'
<1>1. RestInv /\ SessionTypes
  BY DEF MailInv, RestInv
<1>2. SessionTypes'
  BY <1>1, PresenceTyped DEF InitDone
<1>3. StoreInv' /\ RestInv'
  BY <1>2, PassStep DEF InitDone
<1>4. DrainInv'
  BY OffTyped, AtRest DEF InitDone
<1> QED
  BY <1>3, <1>4 DEF MailInv

-----------------------------------------------------------------------------
LEMMA MailInvInit == Init => MailInv
<1> SUFFICES ASSUME Init PROVE MailInv
  OBVIOUS
<1>1. Pending = {} /\ pendingInject = <<>>
  BY DEF Init, Pending, Members
<1>2. StoreInv
  BY <1>1 DEF Init, StoreInv, StoreTypes, Unique, HasEntry, Carried
<1>3. SessionTypes /\ HistoryTypes
  BY IdFacts DEF Init, SessionTypes, HistoryTypes, Rows, Steers
<1>4. ProviderTypes /\ CounterTypes
  BY DEF Init, ProviderTypes, CounterTypes
<1>5. drain = Off
  BY DEF Init
<1>6. drain \in Drains /\ ListInv /\ Fresh /\ Ahead
  BY <1>5, OffTyped DEF ListInv, Fresh, ToVerify, Ahead
<1>7. BatchInv /\ ResultInv /\ LeaseInv
  BY <1>5, OffTyped DEF BatchInv, Offering, ToBeVerified, ResultInv, LeaseInv
<1> QED
  BY <1>2, <1>3, <1>4, <1>6, <1>7 DEF MailInv, RestInv, DrainInv

LEMMA MailInvStutter ==
    ASSUME MailInv, UNCHANGED vars
    PROVE  MailInv'
<1>1. /\ UNCHANGED <<storeVars, drain, offered>> /\ UNCHANGED <<pendingDispatch, pendingSteer>>
      /\ UNCHANGED sessionVars /\ UNCHANGED providerVars /\ UNCHANGED history /\ UNCHANGED used
  BY DEF vars, history, sessionVars
<1>2. RestInv'
  BY <1>1, SessionKept, RestKept DEF MailInv
<1> QED
  BY <1>1, <1>2, SessionStep

LEMMA MailInvNext ==
    ASSUME MailInv, Next
    PROVE  MailInv'
<1>1. CASE \E m \in Mail, s \in BOOLEAN : sendAgentMail(m, s) \/ retryAgentMailInject(m, s)
  BY <1>1, SendMailInv, RetryMailInv
<1>2. CASE \E m \in Mail : clearAgentMailSteerRequest(m) \/ Elapse(m)
  BY <1>2, WaitingMailInv
<1>3. CASE resetAgentMailInjectBackoff \/ refreshPresence
  BY <1>3, ResetMailInv, RefreshPresenceInv
<1>4. CASE drainInjects \/ Verify \/ Skip \/ Approach \/ ApproachSteer
  BY <1>4, DrainStartInv, VerifyAskInv, VerifyClaimInv, SkipInv, ApproachInv, ApproachSteerInv
     DEF Verify
<1>5. CASE Batching \/ SettleOne
  BY <1>5, ClaimInv, GatherInv, GiveBackInv, SettleOneInv DEF Batching
<1>6. CASE Steer
  BY <1>6, SteerRecordInv, SteerSendInv, SteerOutcomeInv DEF Steer
<1>7. CASE Inject
  BY <1>7, DispatchEarlyInv, DispatchInv, HoldInv, SendInv, RecordInv, RefusalInv, ReleaseInv
     DEF Inject
<1>8. CASE Crash \/ Recovery
  BY <1>8, CrashInv, InitAskInv, InitSteerInv, InitDoneInv DEF Recovery
<1>9. CASE settleAmbiguousDispatch \/ settleAmbiguousSteer
  BY <1>9, SettleDispatchInv, SettleSteerInv
<1>10. CASE retryRecoverableDispatch \/ retryRecoverableSteer \/ discardRecoverableDispatch
  BY <1>10, RetryDispatchInv, RetrySteerInv, DiscardInv
<1>11. CASE dispatchIntent \/ TurnStart \/ TurnEnd \/ ProviderRestart
  BY <1>11, TypedPromptInv, TabInv
<1> QED
  BY <1>1, <1>2, <1>3, <1>4, <1>5, <1>6, <1>7, <1>8, <1>9, <1>10, <1>11 DEF Next

LEMMA MailInvAlways == Spec => []MailInv
<1>1. MailInv /\ [Next]_vars => MailInv'
  BY MailInvNext, MailInvStutter
<1> QED
  BY MailInvInit, <1>1, PTL DEF Spec

(* Every variable of the store, the session, the injector and the provider *)
(* keeps its type, whatever the interleaving of passes, users, crashes and *)
(* provider restarts.  In particular the count of attempts stays within    *)
(* one of AGENT_MAIL_MAX_VERIFY_ATTEMPTS, although the pass decides on a   *)
(* snapshot (drainEnvironmentInjects).                                     *)
THEOREM MailTyped == Spec => []TypeOK
<1>1. MailInv => TypeOK
  <2> SUFFICES ASSUME MailInv PROVE TypeOK
    OBVIOUS
  <2>1. StoredEntries \subseteq Entries
    BY IdFacts DEF StoredEntries, Entries
  <2>2. /\ placement \in [Mail -> {"unsent", "pending", "submitting", "injected", "failed"}]
        /\ pendingInject \in Seq(StoredEntries)
    BY DEF MailInv, StoreInv, StoreTypes
  <2>3. /\ drain.at \in Locations /\ drain.list \in Seq(StoredEntries)
        /\ drain.batch \in Seq(Mail) /\ drain.steer \in SteerIds \cup {NoRid}
        /\ drain.result \in [what : Results, rid : RidsOrNone, steer : BOOLEAN]
    BY DEF MailInv, DrainInv, Drains
  <2>4. pendingInject \in Seq(Entries) /\ drain.list \in Seq(Entries)
    BY <2>1, <2>2, <2>3
  <2> QED
    BY <2>2, <2>3, <2>4 DEF MailInv, RestInv, SessionTypes, ProviderTypes, HistoryTypes, TypeOK,
                            Rows, Steers
<1> QED
  BY <1>1, MailInvAlways, PTL

(* A message that waits or is claimed has exactly one entry in the queue,  *)
(* and every other message none: no order of releases, claims, settlements *)
(* and restarts forgets a message or queues it twice                       *)
(* (storage-agent-mail-injects.ts).                                        *)
THEOREM PendingAlwaysHasEntry == Spec => []PendingHasEntry
<1>1. MailInv => PendingHasEntry
  <2> SUFFICES ASSUME MailInv, NEW m \in Mail
               PROVE  Cardinality(Queued(m)) =
                        IF placement[m] \in {"pending", "submitting"} THEN 1 ELSE 0
    BY DEF PendingHasEntry
  <2>1. StoreInv
    BY DEF MailInv
  <2>2. CASE placement[m] \in {"pending", "submitting"}
    <3>1. Queued(m) # {}
      BY <2>1, <2>2, WaitingEntry
    <3>2. PICK k : k \in Queued(m)
      BY <3>1
    <3>3. Queued(m) = {k}
      BY <2>1, <3>2 DEF Queued, StoreInv, Unique
    <3> QED
      BY <2>2, <3>3, FS_Singleton
  <2>3. CASE placement[m] \notin {"pending", "submitting"}
    <3>1. Queued(m) = {}
      BY <2>1, <2>3, QueuedWaits
    <3> QED
      BY <2>3, <3>1, FS_EmptySet
  <2> QED
    BY <2>2, <2>3
<1> QED
  BY <1>1, MailInvAlways, PTL

(* A message that waits to be verified was offered to the session under    *)
(* the id it is verified with, its own, a sibling's or a steer's, so the   *)
(* journal is never asked about a prompt the message was not part of       *)
(* (verifyRequestId, storage-agent-mail-injects.ts).                       *)
THEOREM AlwaysVerifiesTheCarrier == Spec => []VerifiesTheCarrier
<1>1. MailInv => VerifiesTheCarrier
  BY DEF MailInv, StoreInv, Carried, Pending, Members, VerifiesTheCarrier
<1> QED
  BY <1>1, MailInvAlways, PTL

-----------------------------------------------------------------------------
(* Once, and seen.  MailOnce and InjectedWasSeen do not hold whatever      *)
(* users do and bridges lose (section 5 of the README).  They hold in two  *)
(* kinds of behaviour.  Lossless: no bridge has restarted, and nobody has  *)
(* decided on a parked dispatch.  Calm: nobody has released a message or   *)
(* decided on a parked dispatch, and no prompt typed meanwhile can have    *)
(* taken the one place where the id of a steer's fallback is kept.         *)

Lossless == used.recoveries = 0 /\ used.restarts = 0

Calm == /\ used.recoveries = 0 /\ used.releases = 0
        /\ used.restarts = 0 \/ used.typed = 0 \/ used.steers = 0

Undisturbed == Lossless \/ Calm

(* The store, by message: the id it is verified under, and its steer. *)
HasOne(m) == \E e \in Pending : e.id = m

verifyOf == [m \in Mail |-> IF HasOne(m) THEN EntryOf(m).verify ELSE NoRid]
steerOf == [m \in Mail |-> IF HasOne(m) THEN EntryOf(m).steerId ELSE NoRid]

(* The prompts the bridge got, and everything that reached the agent. *)
Spent == taken \cup lost
Landed == Spent \cup {s \in SteerIds : steerLog[s] = "dispatched"}

(* The messages the agent has got, and those it may still get. *)
Got == {m \in Mail : seen[m] > 0}
Clean == {m \in Mail : m \in strays \/ seen[m] <= resent[m]}

(* The ids a prompt went out under that may or may not have arrived. *)
Doubted == {r \in Mail : \/ \E x \in Mail : verifyOf[x] = r
                         \/ ToBeVerified /\ drain.result.rid = r}

(* What may be offered. *)
Free == {m \in Clean : Calm => m \notin Spent \cup Doubted}

(* The row of the session, against the bridge. *)
RowOnce ==
    /\ Lossless => lost = {} /\ retired = NoRid
    /\ Lossless => \A r \in Mail \cap Spent : r \in dispatched \/ Unsettled(r)
    /\ dispatched \subseteq Landed
    /\ pendingDispatch.refused => pendingDispatch.rid \in Free \ Spent

SeenOnce ==
    /\ Mail \cap Spent \subseteq Got /\ SteerIds \cap Spent = {}
    /\ \A m \in Mail : placement[m] = "unsent" => m \in Free
    /\ Calm => \A m \in Mail : placement[m] = "injected" => m \in Got
    /\ MailOnce

(* A message whose delivery under r is in doubt was not given before, or r *)
(* did reach the agent.                                                    *)
Doubtful(m, r) == IF r \in Mail THEN r \in Landed \/ m \in Clean
                  ELSE /\ r \in Landed \/ m \in Free
                       /\ Calm => m \notin Spent

VerifyOnce(m) ==
    IF verifyOf[m] = NoRid THEN placement[m] = "pending" => steerOf[m] = NoRid /\ m \in Free
    ELSE /\ verifyOf[m] # Typed
         /\ steerOf[m] = IF verifyOf[m] \in Mail THEN NoRid ELSE verifyOf[m]
         /\ Doubtful(m, verifyOf[m])
         /\ Calm /\ verifyOf[m] \in Landed => m \in Got

SteerOnce(m) ==
    steerOf[m] # NoRid => /\ steerOf[m] <= used.steers
                          /\ Calm /\ steerOf[m] \in Landed => m \in Got

(* A claim with a steer: a journal knows what a restart has to ask. *)
SteerClaim(m) ==
    steerOf[m] # NoRid /\ placement[m] = "submitting" =>
        /\ \/ m \in Free \/ m \in Spent \/ steerOf[m] \in Landed
           \/ m \in Clean /\ Unsettled(m)
        /\ Calm /\ m \in Spent =>
              \/ m \in dispatched \/ Unsettled(m)
              \/ retired = m /\ pendingDispatch = NoDispatch

EntriesOnce ==
    /\ \A m \in Mail : VerifyOnce(m) /\ SteerOnce(m) /\ SteerClaim(m)
    /\ \A s \in SteerIds : s > used.steers => steerLog[s] = "none"

(* The claims are the batch and the message that was one too many. *)
Extra == IF drain.at = "full" THEN {drain.list[drain.from].id} ELSE {}
InHand == IF drain.at \in Offering \cup {"settle", "asked"} THEN Batch ELSE {}

Recovering == drain.at \in {"down", "asked"} \/ (drain.at = "settle" /\ drain.pos = 0)

ClaimsOnce ==
    /\ \A m \in Mail : placement[m] = "submitting" => Recovering \/ m \in InHand \cup Extra
    /\ \A m \in InHand \cup Extra : placement[m] = "submitting"
    /\ InHand \cap Extra = {}
    /\ \A i, j \in 1..Len(drain.batch) : drain.batch[i] = drain.batch[j] => i = j
    /\ drain.at \in {"down", "asked"} => drain.pos = 0
    /\ drain.at \in Offering => drain.pos > 0

(* What the pass has still to verify waits as the snapshot has it, and the *)
(* answers it has kept are still true of it.                               *)
SnapshotOnce ==
    /\ \A k \in ToVerify :
          LET e == drain.list[k] IN
          /\ placement[e.id] = "pending"
          /\ verifyOf[e.id] = e.verify /\ steerOf[e.id] = e.steerId
          /\ <<e.verify, "not-dispatched">> \in drain.known => e.id \in Free
    /\ \A r \in Rids : <<r, "dispatched">> \in drain.known => r \in Landed

(* What a result claims of the message it is about. *)
ResultOnce(m) ==
    /\ drain.result.what \in {"held", "retry"} => m \in Free
    /\ drain.result.what = "accepted" => (Calm => m \in Got)
    /\ drain.result.what = "verify" =>
          LET r == drain.result.rid IN
          /\ r \in Mail \cup SteerIds /\ (drain.result.steer <=> r \in SteerIds)
          /\ r \in SteerIds => r <= used.steers
          /\ Doubtful(m, r)
          /\ Calm /\ r \in Landed => m \in Got

ResultsOnce ==
    /\ drain.at = "verdict" => Here.verify # NoRid /\ ResultOnce(Here.id)
    /\ drain.at = "settle" => \A m \in Batch : ResultOnce(m)

BatchOnce ==
    /\ drain.at \in Offering \ {"steered", "record"} => Batch \cup Extra \subseteq Free
    /\ drain.at = "record" => Claimed \in Spent /\ (Calm => Batch \subseteq Got)
    /\ drain.at \in Offering =>
          \A m \in Batch \cup Extra : steerOf[m] = drain.steer /\ verifyOf[m] = NoRid

(* A steer id is new when it is taken, and only the batch has it. *)
SteerIdOnce ==
    /\ drain.at = "next" => drain.steer = NoRid
    /\ drain.steer # NoRid =>
        /\ drain.at # "asked" => drain.steer <= used.steers
        /\ drain.at = "claim" => \A m \in Mail : steerOf[m] # drain.steer
        /\ drain.at \in Offering =>
              \A m \in Mail : steerOf[m] = drain.steer => m \in Batch \cup Extra
        /\ drain.at \in {"claim", "gather", "full", "steer", "steering"} =>
              steerLog[drain.steer] = "none"
    /\ drain.at = "steered" =>
        /\ drain.answer = "applied" => drain.steer \in Landed
        /\ drain.answer \in {"idle", "refused"} => Batch \subseteq Free
        /\ drain.answer = "unknown" => drain.steer \in Landed \/ Batch \subseteq Free
        /\ Calm => Batch \cap Spent = {}

(* The injector offers a batch only when no other mail is parked. *)
OpenOnce ==
    /\ \/ drain.at \in {"claim", "gather", "full"} /\ drain.steer = NoRid
       \/ drain.at = "dispatch"
       => pendingDispatch.rid \notin Mail
    /\ drain.at \in {"steering", "steered"} =>
          pendingDispatch = NoDispatch /\ pendingSteer.rid = drain.steer
    /\ drain.at \in {"sending", "record", "refused"} => Unsettled(Claimed)
    /\ drain.at \in {"sending", "refused"} => Claimed \notin Spent
    /\ drain.at = "release" /\ pendingDispatch.rid \in Mail => pendingDispatch.refused

(* What the restart has heard of a claim. *)
AskedOnce ==
    drain.at = "asked" =>
        /\ Len(drain.batch) = 1 /\ drain.steer = steerOf[Claimed] /\ drain.answer \in Statuses
        /\ drain.answer = "dispatched" => (Calm => Claimed \in Got)
        /\ drain.answer = "not-dispatched" =>
              Claimed \in Free \/ (drain.steer # NoRid /\ drain.steer \in Landed)

OnceInv ==
    /\ RowOnce /\ SeenOnce /\ EntriesOnce /\ ClaimsOnce /\ SnapshotOnce /\ ResultsOnce
    /\ BatchOnce /\ SteerIdOnce /\ OpenOnce /\ AskedOnce

-----------------------------------------------------------------------------
(* The views of the store, and what the store's operations do to them. *)

LEMMA StoreViews ==
    ASSUME StoreInv
    PROVE  /\ verifyOf \in [Mail -> RidsOrNone] /\ steerOf \in [Mail -> SteerIds \cup {NoRid}]
           /\ \A e \in Pending : verifyOf[e.id] = e.verify /\ steerOf[e.id] = e.steerId
           /\ \A m \in Mail : placement[m] \notin {"pending", "submitting"} =>
                 verifyOf[m] = NoRid /\ steerOf[m] = NoRid
<1>1. ASSUME NEW m \in Mail, HasOne(m)
      PROVE  /\ EntryOf(m) \in StoredEntries
             /\ \A e \in Pending : e.id = m => e = EntryOf(m)
  BY <1>1, EntryFacts DEF StoreInv, HasOne
<1>2. \A e \in StoredEntries : e.verify \in RidsOrNone /\ e.steerId \in SteerIds \cup {NoRid}
  BY DEF StoredEntries
<1>3. NoRid \in RidsOrNone
  BY IdFacts
<1>4. \A m \in Mail : /\ (IF HasOne(m) THEN EntryOf(m).verify ELSE NoRid) \in RidsOrNone
                      /\ (IF HasOne(m) THEN EntryOf(m).steerId ELSE NoRid) \in SteerIds \cup {NoRid}
  BY <1>1, <1>2, <1>3
<1>5. verifyOf \in [Mail -> RidsOrNone] /\ steerOf \in [Mail -> SteerIds \cup {NoRid}]
  BY <1>4 DEF verifyOf, steerOf
<1>6. ASSUME NEW e \in Pending PROVE verifyOf[e.id] = e.verify /\ steerOf[e.id] = e.steerId
  <2>1. e.id \in Mail /\ HasOne(e.id)
    BY PendingTyped DEF StoreInv, HasOne
  <2>2. e = EntryOf(e.id)
    BY <1>1, <2>1
  <2> QED
    BY <2>1, <2>2 DEF verifyOf, steerOf
<1>7. ASSUME NEW m \in Mail, placement[m] \notin {"pending", "submitting"}
      PROVE  verifyOf[m] = NoRid /\ steerOf[m] = NoRid
  <2>1. ~HasOne(m)
    BY <1>7 DEF StoreInv, HasEntry, HasOne
  <2> QED
    BY <2>1 DEF verifyOf, steerOf
<1> QED
  BY <1>5, <1>6, <1>7

ViewsRight ==
    /\ verifyOf \in [Mail -> RidsOrNone] /\ steerOf \in [Mail -> SteerIds \cup {NoRid}]
    /\ \A e \in Pending : verifyOf[e.id] = e.verify /\ steerOf[e.id] = e.steerId
    /\ \A e \in Pending : e \in StoredEntries

LEMMA ViewsAlwaysRight == StoreInv => ViewsRight
BY StoreViews, PendingTyped DEF ViewsRight, StoreInv

LEMMA NextViews ==
    ASSUME StoreInv'
    PROVE  ViewsRight'
BY ViewsAlwaysRight, PTL

LEMMA WaitingViews ==
    ASSUME StoreInv, NEW m \in Mail, placement[m] \in {"pending", "submitting"}
    PROVE  /\ Queued(m) # {} /\ verifyOf[m] = EntryOf(m).verify /\ steerOf[m] = EntryOf(m).steerId
           /\ EntryOf(m) \in Pending /\ EntryOf(m) \in StoredEntries /\ EntryOf(m).id = m
BY WaitingEntry, StoreViews

LEMMA ViewsKept ==
    ASSUME pendingInject' = pendingInject
    PROVE  verifyOf' = verifyOf /\ steerOf' = steerOf
BY DEF verifyOf, steerOf, HasOne, Pending, Members, EntryOf, Index, Queued

(* The views after a step that changes the entry of one message at most. *)
LEMMA OtherViews ==
    ASSUME StoreInv, StoreInv', NEW m \in Mail,
           \A f \in Pending' : f.id # m => \E e \in Pending :
               e.id = f.id /\ e.verify = f.verify /\ e.steerId = f.steerId,
           \A e \in Pending : e.id # m => \E f \in Pending' : f.id = e.id
    PROVE  /\ verifyOf' = [verifyOf EXCEPT ![m] = verifyOf'[m]]
           /\ steerOf' = [steerOf EXCEPT ![m] = steerOf'[m]]
<1>1. /\ verifyOf \in [Mail -> RidsOrNone] /\ steerOf \in [Mail -> SteerIds \cup {NoRid}]
      /\ \A e \in Pending : verifyOf[e.id] = e.verify /\ steerOf[e.id] = e.steerId
  BY StoreViews
<1>2. /\ verifyOf' \in [Mail -> RidsOrNone] /\ steerOf' \in [Mail -> SteerIds \cup {NoRid}]
      /\ \A e \in Pending' : verifyOf'[e.id] = e.verify /\ steerOf'[e.id] = e.steerId
  BY NextViews DEF ViewsRight
<1>3. \A x \in Mail : ~(\E e \in Pending : e.id = x) => verifyOf[x] = NoRid /\ steerOf[x] = NoRid
  BY DEF verifyOf, steerOf, HasOne
<1>4. \A x \in Mail : ~(\E e \in Pending' : e.id = x) => verifyOf'[x] = NoRid /\ steerOf'[x] = NoRid
  BY DEF verifyOf, steerOf, HasOne
<1>5. ASSUME NEW x \in Mail, x # m PROVE verifyOf'[x] = verifyOf[x] /\ steerOf'[x] = steerOf[x]
  <2>1. CASE \E f \in Pending' : f.id = x
    BY <1>1, <1>2, <1>5, <2>1
  <2>2. CASE ~\E f \in Pending' : f.id = x
    BY <1>3, <1>4, <1>5, <2>2
  <2> QED
    BY <2>1, <2>2
<1> QED
  BY <1>1, <1>2, <1>5

LEMMA PutViews ==
    ASSUME StoreInv, StoreInv', NEW m \in Mail, NEW e \in StoredEntries, e.id = m,
           pendingInject' = Put(m, e)
    PROVE  verifyOf' = [verifyOf EXCEPT ![m] = e.verify] /\ steerOf' = [steerOf EXCEPT ![m] = e.steerId]
<1>1. StoreTypes /\ Unique
  BY DEF StoreInv
<1>2. /\ e \in Pending'
      /\ \A f \in Pending : f.id # m => f \in Pending'
      /\ \A f \in Pending' : f = e \/ (f \in Pending /\ f.id # m)
  <2>1. CASE \E f \in Pending : f.id = m
    <3>1. Queued(m) # {} /\ EntryOf(m).id = m /\ \A f \in Pending : f.id = m => f = EntryOf(m)
      BY <1>1, <2>1, EntryFacts
    <3>2. pendingInject' = Replace(m, e)
      BY <3>1 DEF Put
    <3> QED
      BY <1>1, <2>1, <3>1, <3>2, ReplaceStep
  <2>2. CASE ~\E f \in Pending : f.id = m
    <3>1. pendingInject' = Append(pendingInject, e)
      BY <2>2, NoEntry DEF Put
    <3> QED
      BY <1>1, <2>2, <3>1, AppendStep
  <2> QED
    BY <2>1, <2>2
<1>3. verifyOf'[m] = e.verify /\ steerOf'[m] = e.steerId
  BY <1>2, NextViews DEF ViewsRight
<1>4. /\ \A f \in Pending' : f.id # m => \E d \in Pending :
               d.id = f.id /\ d.verify = f.verify /\ d.steerId = f.steerId
      /\ \A d \in Pending : d.id # m => \E f \in Pending' : f.id = d.id
  BY <1>2
<1> QED
  BY <1>3, <1>4, OtherViews

LEMMA DropViews ==
    ASSUME StoreInv, StoreInv', NEW m \in Mail, pendingInject' = Drop(m)
    PROVE  verifyOf' = [verifyOf EXCEPT ![m] = NoRid] /\ steerOf' = [steerOf EXCEPT ![m] = NoRid]
<1>1. Pending' = {e \in Pending : e.id # m}
  BY DropStep DEF StoreInv
<1>2. verifyOf'[m] = NoRid /\ steerOf'[m] = NoRid
  BY <1>1 DEF verifyOf, steerOf, HasOne
<1> QED
  BY <1>1, <1>2, OtherViews

LEMMA ResetViews ==
    ASSUME StoreInv, StoreInv', pendingInject' = resetBackoff
    PROVE  verifyOf' = verifyOf /\ steerOf' = steerOf
<1> DEFINE woken(e) == [e EXCEPT !.deferred = FALSE]
<1>1. Pending' = {woken(e) : e \in Pending}
  BY ResetStep DEF StoreInv
<1>2. \A e \in StoredEntries : woken(e).id = e.id /\ woken(e).verify = e.verify /\ woken(e).steerId = e.steerId
  BY DEF StoredEntries
<1> HIDE DEF woken
<1>3. \A e \in Pending : woken(e).id = e.id /\ woken(e).verify = e.verify /\ woken(e).steerId = e.steerId
  BY <1>2, PendingTyped DEF StoreInv
<1>4. /\ verifyOf \in [Mail -> RidsOrNone] /\ steerOf \in [Mail -> SteerIds \cup {NoRid}]
      /\ \A e \in Pending : verifyOf[e.id] = e.verify /\ steerOf[e.id] = e.steerId
  BY StoreViews
<1>5. /\ verifyOf' \in [Mail -> RidsOrNone] /\ steerOf' \in [Mail -> SteerIds \cup {NoRid}]
      /\ \A e \in Pending' : verifyOf'[e.id] = e.verify /\ steerOf'[e.id] = e.steerId
  BY NextViews DEF ViewsRight
<1>6. ASSUME NEW x \in Mail PROVE verifyOf'[x] = verifyOf[x] /\ steerOf'[x] = steerOf[x]
  <2>1. CASE \E e \in Pending : e.id = x
    BY <1>1, <1>3, <1>4, <1>5, <2>1
  <2>2. CASE ~\E e \in Pending : e.id = x
    <3>1. ~\E e \in Pending' : e.id = x
      BY <1>1, <1>3, <2>2
    <3>2. verifyOf[x] = NoRid /\ steerOf[x] = NoRid
      BY <2>2 DEF verifyOf, steerOf, HasOne
    <3>3. verifyOf'[x] = NoRid /\ steerOf'[x] = NoRid
      BY <3>1 DEF verifyOf, steerOf, HasOne
    <3> QED
      BY <3>2, <3>3
  <2> QED
    BY <2>1, <2>2
<1> QED
  BY <1>4, <1>5, <1>6

(* A claim. *)
LEMMA ClaimViews ==
    ASSUME StoreInv, StoreInv', NEW m \in Mail, NEW s \in SteerIds \cup {NoRid},
           NEW r \in RidsOrNone, Claimable(m, r), beginAgentMailInject(m, s)
    PROVE  /\ placement[m] = "pending" /\ verifyOf[m] = r
           /\ placement' = [placement EXCEPT ![m] = "submitting"]
           /\ verifyOf' = verifyOf
           /\ steerOf' = IF s = NoRid THEN steerOf ELSE [steerOf EXCEPT ![m] = s]
<1>1. placement[m] = "pending"
  BY DEF Claimable
<1>2. /\ Queued(m) # {} /\ verifyOf[m] = EntryOf(m).verify /\ steerOf[m] = EntryOf(m).steerId
      /\ EntryOf(m) \in StoredEntries /\ EntryOf(m).id = m
  BY <1>1, WaitingViews
<1>3. verifyOf[m] = r /\ verifyOf \in [Mail -> RidsOrNone]
  BY <1>2, StoreViews DEF Claimable
<1>4. CASE s = NoRid
  BY <1>1, <1>3, <1>4, ViewsKept DEF beginAgentMailInject
<1>5. CASE s # NoRid
  <2> DEFINE g == [EntryOf(m) EXCEPT !.steerId = s]
  <2>1. g \in StoredEntries /\ g.id = m /\ g.verify = EntryOf(m).verify /\ g.steerId = s
    BY <1>2 DEF StoredEntries
  <2>2. pendingInject' = Put(m, g)
    BY <1>2, <1>5 DEF beginAgentMailInject, Put
  <2> HIDE DEF g
  <2>3. verifyOf' = [verifyOf EXCEPT ![m] = verifyOf[m]] /\ steerOf' = [steerOf EXCEPT ![m] = s]
    BY <1>2, <2>1, <2>2, PutViews
  <2> QED
    BY <1>1, <1>3, <1>5, <2>3 DEF beginAgentMailInject
<1> QED
  BY <1>4, <1>5

(* The end of a claim. *)
LEMMA FinishViews ==
    ASSUME StoreInv, StoreInv', NEW m \in Mail, placement[m] = "submitting",
           NEW res \in Outcomes, res.steer => res.rid \in SteerIds, finishAgentMailInject(m, res)
    PROVE  /\ placement' = [placement EXCEPT ![m] =
                  IF res.what = "accepted" THEN "injected"
                  ELSE IF res.what = "failed" THEN "failed" ELSE "pending"]
           /\ verifyOf' = [verifyOf EXCEPT ![m] = IF res.what = "verify" THEN res.rid ELSE NoRid]
           /\ steerOf' = [steerOf EXCEPT ![m] =
                  IF res.what = "verify" /\ res.steer THEN res.rid ELSE NoRid]
<1>1. /\ placement' = [placement EXCEPT ![m] =
               CASE res.what = "accepted" -> "injected"
                 [] res.what = "failed" -> "failed"
                 [] OTHER -> "pending"]
      /\ pendingInject' = IF res.what \in {"accepted", "failed"} THEN Drop(m)
                          ELSE Put(m, Finished(m, res))
  BY DEF finishAgentMailInject
<1>2. placement' = [placement EXCEPT ![m] =
                  IF res.what = "accepted" THEN "injected"
                  ELSE IF res.what = "failed" THEN "failed" ELSE "pending"]
  <2>1. (CASE res.what = "accepted" -> "injected" [] res.what = "failed" -> "failed"
           [] OTHER -> "pending")
        = IF res.what = "accepted" THEN "injected"
          ELSE IF res.what = "failed" THEN "failed" ELSE "pending"
    OBVIOUS
  <2> QED
    BY <1>1, <2>1
<1>3. CASE res.what \in {"accepted", "failed"}
  BY <1>1, <1>2, <1>3, DropViews
<1>4. CASE res.what \in {"held", "retry", "verify"}
  <2> DEFINE e == Finished(m, res)
             v == IF res.what = "verify" THEN res.rid ELSE NoRid
             s == IF res.what = "verify" /\ res.steer THEN res.rid ELSE NoRid
  <2>1. pendingInject' = Put(m, e)
    BY <1>1, <1>4
  <2>2. Queued(m) # {} /\ EntryOf(m) \in StoredEntries
    BY WaitingEntry
  <2>3. e.id = m /\ e.verify = v /\ e.steerId = s
    <3>1. CASE res.what = "held"
      BY <3>1 DEF Finished, Entry
    <3>2. CASE res.what = "retry"
      BY <3>2 DEF Finished, Entry
    <3>3. CASE res.what = "verify"
      BY <3>3, <2>2 DEF Finished, Entry
    <3> QED
      BY <3>1, <3>2, <3>3, <1>4
  <2>4. e \in Pending'
    <3>1. CASE Queued(m) # {}
      <4>1. Index(m) \in 1..Len(pendingInject) /\ pendingInject \in Seq(StoredEntries)
        BY WaitingEntry, EntryFacts DEF StoreInv, StoreTypes, HasEntry
      <4>2. pendingInject' = [pendingInject EXCEPT ![Index(m)] = e]
        BY <2>1, <2>2 DEF Put, Replace
      <4> HIDE DEF e
      <4>3. pendingInject'[Index(m)] = e /\ Index(m) \in 1..Len(pendingInject')
        BY <4>1, <4>2
      <4> QED
        BY <4>3 DEF Pending, Members
    <3> QED
      BY <3>1, <2>2
  <2> HIDE DEF e
  <2>5. e \in StoredEntries
    BY <2>4, NextViews DEF ViewsRight
  <2>6. verifyOf' = [verifyOf EXCEPT ![m] = e.verify] /\ steerOf' = [steerOf EXCEPT ![m] = e.steerId]
    BY <2>1, <2>3, <2>5, PutViews
  <2> QED
    BY <1>2, <2>3, <2>6
<1> QED
  BY <1>3, <1>4 DEF Outcomes, Results

-----------------------------------------------------------------------------
(* What a step does to the messages that were given and may be offered. *)

LEMMA IdsApart ==
    /\ \A m \in Mail : m # Typed /\ m # NoRid /\ m \notin SteerIds /\ m \in Rids
    /\ \A s \in SteerIds : /\ s # Typed /\ s # NoRid /\ s \notin Mail /\ s \in Rids
                           /\ s \in Nat /\ s >= 1 /\ s <= MaxSteers
    /\ Typed # NoRid /\ Typed \notin Mail /\ NoRid \notin Mail
    /\ Typed \notin SteerIds /\ NoRid \notin SteerIds /\ Typed \in Rids
    /\ \A r \in RidsOrNone : r \in Mail \/ r \in SteerIds \/ r = Typed \/ r = NoRid
    /\ MaxSteers \in Nat
BY MailAssumption DEF SteerIds, Rids, RidsOrNone

Kept == UNCHANGED <<taken, lost, steerLog, seen, resent, strays>>

(* Nothing is taken back: what reached the agent, and what may be offered. *)
Later ==
    /\ Landed \subseteq Landed' /\ Spent \subseteq Spent' /\ Got \subseteq Got'
    /\ Clean \subseteq Clean' /\ Free \subseteq Free'
    /\ Calm' => Calm
    /\ Lossless' => Lossless
    /\ used.steers <= used'.steers

(* And nothing reached the agent, a typed prompt aside. *)
Quiet == Later /\ Landed' \subseteq Landed \cup {Typed} /\ Spent' \subseteq Spent \cup {Typed}

LEMMA SetFacts ==
    /\ Free \subseteq Clean /\ Clean \subseteq Mail /\ Got \subseteq Mail /\ Doubted \subseteq Mail
    /\ \A m \in Mail : m \in Landed <=> m \in Spent
    /\ Spent \subseteq Landed
    /\ Calm => Free \cap (Spent \cup Doubted) = {}
    /\ ~Calm => Free = Clean
    /\ \A m \in Clean : (Calm => m \notin Spent /\ m \notin Doubted) => m \in Free
    /\ \A s \in SteerIds : s \in Landed <=> s \in Spent \/ steerLog[s] = "dispatched"
BY IdsApart DEF Free, Clean, Got, Doubted, Landed

SetsRight ==
    /\ Free \subseteq Clean /\ Clean \subseteq Mail /\ Got \subseteq Mail /\ Doubted \subseteq Mail
    /\ \A m \in Mail : m \in Landed <=> m \in Spent
    /\ Spent \subseteq Landed
    /\ Calm => Free \cap (Spent \cup Doubted) = {}
    /\ ~Calm => Free = Clean
    /\ \A m \in Clean : (Calm => m \notin Spent /\ m \notin Doubted) => m \in Free
    /\ \A s \in SteerIds : s \in Landed <=> s \in Spent \/ steerLog[s] = "dispatched"

LEMMA SetsAlwaysRight == SetsRight
BY SetFacts DEF SetsRight

LEMMA NextSets == SetsRight'
BY SetsAlwaysRight, PTL

LEMMA CountersGrow ==
    ASSUME CounterTypes,
           \/ used' = used
           \/ \E c \in {"steers", "releases", "recoveries", "typed", "crashes", "restarts"} : Bump(c)
    PROVE  (Calm' => Calm) /\ (Lossless' => Lossless) /\ used.steers <= used'.steers
<1>1. /\ used.steers \in Nat /\ used.releases \in Nat /\ used.recoveries \in Nat
      /\ used.typed \in Nat /\ used.restarts \in Nat
  BY DEF CounterTypes
<1>2. /\ used'.steers \in {used.steers, used.steers + 1}
      /\ used'.releases \in {used.releases, used.releases + 1}
      /\ used'.recoveries \in {used.recoveries, used.recoveries + 1}
      /\ used'.typed \in {used.typed, used.typed + 1}
      /\ used'.restarts \in {used.restarts, used.restarts + 1}
  BY DEF CounterTypes, Bump
<1>3. used.steers <= used'.steers /\ (Lossless' => Lossless)
  BY <1>1, <1>2 DEF Lossless
<1>4. Calm' => Calm
  BY <1>1, <1>2 DEF Calm
<1> QED
  BY <1>3, <1>4

LEMMA SameSets ==
    ASSUME Kept
    PROVE  Spent' = Spent /\ Landed' = Landed /\ Got' = Got /\ Clean' = Clean
BY DEF Kept, Spent, Landed, Got, Clean

LEMMA StillLater ==
    ASSUME CounterTypes, Kept, Doubted' \subseteq Doubted,
           \/ used' = used
           \/ \E c \in {"steers", "releases", "recoveries", "typed", "crashes", "restarts"} : Bump(c)
    PROVE  Quiet /\ Spent' = Spent /\ Landed' = Landed
<1>1. Spent' = Spent /\ Landed' = Landed /\ Got' = Got /\ Clean' = Clean
  BY SameSets
<1>2. (Calm' => Calm) /\ (Lossless' => Lossless) /\ used.steers <= used'.steers
  BY CountersGrow
<1>3. Free \subseteq Free'
  BY <1>1, <1>2 DEF Free
<1> QED
  BY <1>1, <1>2, <1>3 DEF Quiet, Later

(* What is in doubt comes from the entries, or from the result in hand. *)
LEMMA NoNewDoubt ==
    ASSUME verifyOf' = verifyOf, ToBeVerified' => ToBeVerified /\ drain'.result.rid = drain.result.rid
    PROVE  Doubted' \subseteq Doubted
BY DEF Doubted

LEMMA NotVerifying ==
    ASSUME verifyOf' = verifyOf, drain'.at # "settle" \/ drain'.result.what # "verify"
    PROVE  Doubted' \subseteq Doubted
BY DEF Doubted, ToBeVerified

-----------------------------------------------------------------------------
(* The session's steps that only settle what the journals know. *)

SessionStable ==
    /\ dispatched \subseteq dispatched' /\ dispatched' \subseteq dispatched \cup Landed
    /\ \/ UNCHANGED <<pendingDispatch, retired>>
       \/ /\ pendingDispatch = NoDispatch \/ pendingDispatch.refused
          /\ pendingDispatch' = NoDispatch /\ retired' = retired
       \/ /\ pendingDispatch.rid \in taken \cap dispatched'
          /\ pendingDispatch' = NoDispatch /\ retired' = NoRid
       \/ /\ pendingDispatch.rid \in lost /\ pendingDispatch # NoDispatch
          /\ pendingDispatch' = NoDispatch /\ retired' = pendingDispatch.rid

LEMMA InjectStable ==
    ASSUME SessionTypes, NEW r \in Rids, NEW recovery, NEW status,
           reconcileMailInject(r, recovery, status)
    PROVE  SessionStable
<1>1. CASE UNCHANGED sessionVars
  BY <1>1 DEF sessionVars, SessionStable
<1>2. CASE Unsettled(r) /\ confirmNativeAgentDispatch(r)
  BY <1>2 DEF Unsettled, confirmNativeAgentDispatch, SessionStable, Landed, Spent
<1>3. CASE Unsettled(r) /\ retireNativeAgentDispatch(r)
  BY <1>3, IdFacts DEF Unsettled, retireNativeAgentDispatch, SessionStable, NoDispatch
<1> QED
  BY <1>1, <1>2, <1>3 DEF reconcileMailInject

LEMMA CompleteStable ==
    ASSUME NEW applied \in BOOLEAN, completePendingSteer(applied), applied => pendingSteer.rid \in Landed
    PROVE  SessionStable
BY DEF completePendingSteer, SessionStable

LEMMA SteerStable ==
    ASSUME NEW s \in SteerIds, NEW status, reconcileMailSteer(s, status)
    PROVE  SessionStable
<1>1. CASE UNCHANGED sessionVars
  BY <1>1 DEF sessionVars, SessionStable
<1>2. ASSUME NEW answer \in SteerStatus(s), pendingSteer.rid = s, completePendingSteer(answer = "dispatched")
      PROVE  SessionStable
  <2>1. answer = "dispatched" => s \in Landed
    BY <1>2 DEF SteerStatus, Landed
  <2> QED
    BY <1>2, <2>1 DEF completePendingSteer, SessionStable
<1> QED
  BY <1>1, <1>2 DEF reconcileMailSteer

LEMMA PresenceStable ==
    ASSUME NEW p, Presence(p)
    PROVE  SessionStable
BY DEF Presence, mailInjectPresence, sessionVars, SessionStable

LEMMA SameSession ==
    ASSUME UNCHANGED sessionVars
    PROVE  SessionStable
BY DEF sessionVars, SessionStable

LEMMA RowStable ==
    ASSUME SessionTypes, RowOnce, SessionStable, Later, Spent' = Spent, lost' = lost
    PROVE  RowOnce'
<1>1. Lossless' => lost' = {} /\ retired' = NoRid
  BY DEF RowOnce, SessionStable, Later
<1>2. ASSUME Lossless', NEW r \in Mail \cap Spent'
      PROVE  r \in dispatched' \/ Unsettled(r)'
  <2>1. r \in dispatched \/ Unsettled(r)
    BY <1>2 DEF RowOnce, Later
  <2>2. lost = {}
    BY <1>2 DEF RowOnce, Later
  <2>3. r # NoRid
    BY IdsApart
  <2> QED
    BY <2>1, <2>2, <2>3 DEF SessionStable, Unsettled, NoDispatch
<1>3. dispatched' \subseteq Landed'
  BY DEF RowOnce, SessionStable, Later
<1>4. pendingDispatch'.refused => pendingDispatch'.rid \in Free' \ Spent'
  BY DEF RowOnce, SessionStable, Later, NoDispatch
<1> QED
  BY <1>1, <1>2, <1>3, <1>4 DEF RowOnce

LEMMA ClaimStable ==
    ASSUME ProviderTypes, NEW m \in Mail, SteerClaim(m), SessionStable, Later, Spent' \subseteq Spent \cup {Typed},
           steerOf'[m] = steerOf[m], placement'[m] = "submitting" => placement[m] = "submitting"
    PROVE  SteerClaim(m)'
<1> SUFFICES ASSUME steerOf'[m] # NoRid, placement'[m] = "submitting"
             PROVE  /\ \/ m \in Free' \/ m \in Spent' \/ steerOf'[m] \in Landed'
                       \/ m \in Clean' /\ Unsettled(m)'
                    /\ Calm' /\ m \in Spent' =>
                          \/ m \in dispatched' \/ Unsettled(m)'
                          \/ retired' = m /\ pendingDispatch' = NoDispatch
  BY DEF SteerClaim
<1>1. /\ \/ m \in Free \/ m \in Spent \/ steerOf[m] \in Landed
         \/ m \in Clean /\ Unsettled(m)
      /\ Calm /\ m \in Spent =>
            \/ m \in dispatched \/ Unsettled(m)
            \/ retired = m /\ pendingDispatch = NoDispatch
  BY DEF SteerClaim
<1>2. m # NoRid /\ m # Typed
  BY IdsApart
<1>3. Unsettled(m) => Unsettled(m)' \/ m \in Spent
  BY DEF Unsettled, SessionStable, Spent
<1>4. Unsettled(m) => Unsettled(m)' \/ m \in dispatched' \/ (retired' = m /\ pendingDispatch' = NoDispatch)
  BY DEF Unsettled, SessionStable
<1>5. retired = m /\ pendingDispatch = NoDispatch => retired' = m /\ pendingDispatch' = NoDispatch
  <2>1. NoRid \notin taken
    BY IdFacts DEF ProviderTypes
  <2> QED
    BY <2>1 DEF SessionStable, NoDispatch
<1>6. m \in Free \/ m \in Spent \/ steerOf[m] \in Landed =>
         m \in Free' \/ m \in Spent' \/ steerOf'[m] \in Landed'
  BY DEF Later
<1>7. m \in Free' \/ m \in Spent' \/ steerOf'[m] \in Landed' \/ (m \in Clean' /\ Unsettled(m)')
  BY <1>1, <1>3, <1>6 DEF Later
<1>8. dispatched \subseteq dispatched'
  BY DEF SessionStable
<1>9. Calm' /\ m \in Spent' => Calm /\ m \in Spent
  BY <1>2 DEF Later
<1> QED
  BY <1>1, <1>4, <1>5, <1>7, <1>8, <1>9

-----------------------------------------------------------------------------
(* What a quiet step keeps. *)

(* A message waits, or leaves the places of which nothing is said. *)
Waits(m) ==
    \/ placement'[m] = placement[m]
    \/ /\ placement[m] \in {"unsent", "failed"} /\ placement'[m] = "pending" /\ m \in Free'

LEMMA SeenKept ==
    ASSUME SeenOnce, Quiet, MailOnce',
           \A m \in Mail : placement'[m] = "unsent" => placement[m] = "unsent",
           Calm' => \A m \in Mail : placement'[m] = "injected" => placement[m] = "injected" \/ m \in Got'
    PROVE  SeenOnce'
<1>1. Mail \cap Spent' \subseteq Got' /\ SteerIds \cap Spent' = {}
  BY IdsApart DEF SeenOnce, Quiet, Later
<1> QED
  BY <1>1 DEF SeenOnce, Quiet, Later

LEMMA OnceKept ==
    ASSUME Kept, MailOnce
    PROVE  MailOnce'
BY DEF Kept, MailOnce

LEMMA VerifyKept ==
    ASSUME NEW m \in Mail, VerifyOnce(m), Quiet, verifyOf'[m] = verifyOf[m], steerOf'[m] = steerOf[m],
           placement'[m] = "pending" =>
               placement[m] = "pending" \/ (steerOf[m] = NoRid /\ m \in Free')
    PROVE  VerifyOnce(m)'
<1>1. m # Typed
  BY IdsApart
<1>2. CASE verifyOf[m] = NoRid
  BY <1>2 DEF VerifyOnce, Quiet, Later
<1>3. CASE verifyOf[m] # NoRid
  <2>1. verifyOf[m] # Typed /\ Doubtful(m, verifyOf[m])
    BY <1>3 DEF VerifyOnce
  <2>2. Doubtful(m, verifyOf[m])'
    BY <1>1, <2>1 DEF Doubtful, Quiet, Later
  <2>3. Calm' /\ verifyOf'[m] \in Landed' => m \in Got'
    BY <1>3, <2>1 DEF VerifyOnce, Quiet, Later
  <2> QED
    BY <1>3, <2>2, <2>3 DEF VerifyOnce
<1> QED
  BY <1>2, <1>3

LEMMA SteerKept ==
    ASSUME NEW m \in Mail, SteerOnce(m), Quiet, StoreInv, CounterTypes, CounterTypes',
           steerOf'[m] = steerOf[m]
    PROVE  SteerOnce(m)'
<1>1. steerOf[m] \in SteerIds \cup {NoRid}
  BY StoreViews
<1>2. steerOf[m] # NoRid => steerOf[m] # Typed /\ steerOf[m] \in Nat
  BY <1>1, IdsApart
<1>3. used.steers \in Nat /\ used'.steers \in Nat
  BY DEF CounterTypes
<1>4. steerOf'[m] # NoRid => steerOf'[m] <= used'.steers
  BY <1>2, <1>3 DEF SteerOnce, Quiet, Later
<1>5. steerOf'[m] # NoRid /\ Calm' /\ steerOf'[m] \in Landed' => m \in Got'
  BY <1>2 DEF SteerOnce, Quiet, Later
<1> QED
  BY <1>4, <1>5 DEF SteerOnce

LEMMA StepsUnused ==
    ASSUME EntriesOnce, CounterTypes, CounterTypes', used.steers <= used'.steers, steerLog' = steerLog
    PROVE  \A s \in SteerIds : s > used'.steers => steerLog'[s] = "none"
<1>1. used.steers \in Nat /\ used'.steers \in Nat /\ \A s \in SteerIds : s \in Nat
  BY IdsApart DEF CounterTypes
<1> QED
  BY <1>1 DEF EntriesOnce

LEMMA EntriesKept ==
    ASSUME StoreInv, RestInv, RestInv', EntriesOnce, Quiet, SessionStable, steerLog' = steerLog,
           verifyOf' = verifyOf, steerOf' = steerOf, \A m \in Mail : Waits(m)
    PROVE  EntriesOnce'
<1>1. ProviderTypes /\ CounterTypes /\ CounterTypes'
  BY DEF RestInv
<1>2. ASSUME NEW m \in Mail PROVE VerifyOnce(m)' /\ SteerOnce(m)' /\ SteerClaim(m)'
  <2>1. VerifyOnce(m) /\ SteerOnce(m) /\ SteerClaim(m) /\ Waits(m)
    BY DEF EntriesOnce
  <2>2. placement[m] \in {"unsent", "failed"} => steerOf[m] = NoRid
    BY StoreViews
  <2>3. VerifyOnce(m)'
    BY <2>1, <2>2, VerifyKept DEF Waits
  <2>4. SteerOnce(m)'
    BY <1>1, <2>1, SteerKept
  <2>5. SteerClaim(m)'
    BY <1>1, <2>1, ClaimStable DEF Waits, Quiet
  <2> QED
    BY <2>3, <2>4, <2>5
<1>3. \A s \in SteerIds : s > used'.steers => steerLog'[s] = "none"
  BY <1>1, StepsUnused DEF Quiet, Later
<1> QED
  BY <1>2, <1>3 DEF EntriesOnce

(* A step that leaves the placements and the views alone. *)
LEMMA QuietOnce ==
    ASSUME MailInv, MailInv', OnceInv, Kept, Doubted' \subseteq Doubted, SessionStable,
           verifyOf' = verifyOf, steerOf' = steerOf, placement' = placement,
           \/ used' = used
           \/ \E c \in {"steers", "releases", "recoveries", "typed", "crashes", "restarts"} : Bump(c)
    PROVE  Quiet /\ Spent' = Spent /\ RowOnce' /\ SeenOnce' /\ EntriesOnce'
<1>1. StoreInv /\ RestInv /\ RestInv' /\ SessionTypes /\ CounterTypes
  BY DEF MailInv, RestInv
<1>2. RowOnce /\ SeenOnce /\ EntriesOnce
  BY DEF OnceInv
<1>3. Quiet /\ Spent' = Spent /\ Landed' = Landed
  BY <1>1, StillLater
<1>4. RowOnce'
  BY <1>1, <1>2, <1>3, RowStable DEF Quiet, Kept
<1>5. MailOnce'
  BY <1>2, OnceKept DEF SeenOnce
<1>6. SeenOnce'
  BY <1>2, <1>3, <1>5, SeenKept
<1>7. \A m \in Mail : Waits(m)
  BY DEF Waits
<1>8. EntriesOnce'
  BY <1>1, <1>2, <1>3, <1>7, EntriesKept DEF Kept
<1> QED
  BY <1>3, <1>4, <1>6, <1>8

-----------------------------------------------------------------------------
(* Somebody else's step: the injector stands where it stood. *)

LEMMA ResultKept ==
    ASSUME NEW m \in Mail, ResultOnce(m), Quiet, CounterTypes, CounterTypes', drain'.result = drain.result
    PROVE  ResultOnce(m)'
<1>1. used.steers \in Nat /\ used'.steers \in Nat /\ \A s \in SteerIds : s \in Nat
  BY IdsApart DEF CounterTypes
<1>2. drain'.result.what \in {"held", "retry"} => m \in Free'
  BY DEF ResultOnce, Quiet, Later
<1>3. drain'.result.what = "accepted" => (Calm' => m \in Got')
  BY DEF ResultOnce, Quiet, Later
<1>4. ASSUME drain'.result.what = "verify"
      PROVE  (LET r == drain.result.rid IN
              /\ r \in Mail \cup SteerIds /\ (drain.result.steer <=> r \in SteerIds)
              /\ r \in SteerIds => r <= used.steers
              /\ Doubtful(m, r)
              /\ Calm /\ r \in Landed => m \in Got)'
  <2> DEFINE r == drain.result.rid
  <2>1. /\ r \in Mail \cup SteerIds /\ (drain.result.steer <=> r \in SteerIds)
        /\ r \in SteerIds => r <= used.steers
        /\ Doubtful(m, r) /\ (Calm /\ r \in Landed => m \in Got)
    BY <1>4 DEF ResultOnce
  <2>2. r # Typed /\ m # Typed
    BY <2>1, IdsApart
  <2> HIDE DEF r
  <2>3. r \in SteerIds => r <= used'.steers
    BY <1>1, <2>1 DEF Quiet, Later
  <2>4. IF r \in Mail THEN r \in Landed' \/ m \in Clean'
        ELSE (r \in Landed' \/ m \in Free') /\ (Calm' => m \notin Spent')
    BY <2>1, <2>2 DEF Doubtful, Quiet, Later
  <2>5. Calm' /\ r \in Landed' => m \in Got'
    BY <2>1, <2>2 DEF Quiet, Later
  <2> QED
    BY <2>1, <2>3, <2>4, <2>5 DEF Doubtful, r
<1> QED
  BY <1>2, <1>3, <1>4 DEF ResultOnce

LEMMA SnapshotPast ==
    ASSUME SnapshotOnce, Landed \subseteq Landed', drain \in Drains, drain'.list = drain.list, drain'.known = drain.known,
           ToVerify' \subseteq ToVerify,
           \A m \in Mail : placement[m] = "pending" /\ (\E k \in ToVerify' : drain.list[k].id = m) =>
               /\ placement'[m] = "pending" /\ verifyOf'[m] = verifyOf[m] /\ steerOf'[m] = steerOf[m]
               /\ m \in Free => m \in Free'
    PROVE  SnapshotOnce'
<1>1. ASSUME NEW k \in ToVerify'
      PROVE  LET e == drain.list[k] IN
             /\ placement'[e.id] = "pending"
             /\ verifyOf'[e.id] = e.verify /\ steerOf'[e.id] = e.steerId
             /\ <<e.verify, "not-dispatched">> \in drain.known => e.id \in Free'
  <2>1. k \in ToVerify /\ k \in 1..Len(drain.list)
    BY <1>1 DEF ToVerify
  <2> DEFINE e == drain.list[k]
  <2>2. e.id \in Mail
    BY <2>1, DrainFields
  <2>3. /\ placement[e.id] = "pending"
        /\ verifyOf[e.id] = e.verify /\ steerOf[e.id] = e.steerId
        /\ <<e.verify, "not-dispatched">> \in drain.known => e.id \in Free
    BY <2>1 DEF SnapshotOnce
  <2>4. /\ placement'[e.id] = "pending" /\ verifyOf'[e.id] = verifyOf[e.id] /\ steerOf'[e.id] = steerOf[e.id]
        /\ e.id \in Free => e.id \in Free'
    BY <1>1, <2>2, <2>3
  <2> QED
    BY <2>3, <2>4
<1>2. \A r \in Rids : <<r, "dispatched">> \in drain'.known => r \in Landed'
  BY DEF SnapshotOnce
<1> QED
  BY <1>1, <1>2 DEF SnapshotOnce

LEMMA SnapshotKept ==
    ASSUME SnapshotOnce, Later, drain \in Drains, drain'.list = drain.list, drain'.known = drain.known,
           ToVerify' \subseteq ToVerify,
           \A m \in Mail : placement[m] = "pending" /\ (\E k \in ToVerify' : drain.list[k].id = m) =>
               /\ placement'[m] = "pending" /\ verifyOf'[m] = verifyOf[m] /\ steerOf'[m] = steerOf[m]
    PROVE  SnapshotOnce'
BY SnapshotPast DEF Later

LEMMA DrainKept ==
    ASSUME MailInv, MailInv', OnceInv, drain' = drain, Quiet, verifyOf' = verifyOf,
           steerOf' = steerOf, steerLog' = steerLog, \A m \in Mail : Waits(m)
    PROVE  /\ ClaimsOnce' /\ SnapshotOnce' /\ ResultsOnce' /\ BatchOnce' /\ SteerIdOnce'
           /\ AskedOnce'
<1>1. drain \in Drains /\ CounterTypes /\ CounterTypes' /\ DrainInv
  BY DEF MailInv, DrainInv, RestInv
<1>2. /\ ClaimsOnce /\ SnapshotOnce /\ ResultsOnce /\ BatchOnce /\ SteerIdOnce /\ AskedOnce
  BY DEF OnceInv
<1>3. Batch' = Batch /\ Extra' = Extra /\ InHand' = InHand /\ Claimed' = Claimed /\ Here' = Here
  BY DEF Batch, Members, Extra, InHand, Claimed, Here
<1>4. Batch \subseteq Mail /\ InHand \subseteq Mail /\ Extra \subseteq Mail
  BY <1>1, DrainFields DEF Batch, Members, InHand, Extra, DrainInv, ListInv
<1>5. ToVerify' = ToVerify
  BY DEF ToVerify
<1>6. ClaimsOnce'
  <2>1. \A m \in Mail : placement'[m] = "submitting" <=> placement[m] = "submitting"
    BY DEF Waits
  <2> QED
    BY <1>2, <1>3, <1>4, <2>1 DEF ClaimsOnce, Recovering
<1>7. SnapshotOnce'
  BY <1>1, <1>2, <1>5, SnapshotKept DEF Quiet, Waits
<1>8. ResultsOnce'
  <2>1. drain.at = "verdict" => Here.id \in Mail
    BY <1>1, HereTyped
  <2> QED
    BY <1>1, <1>2, <1>3, <1>4, <2>1, ResultKept DEF ResultsOnce
<1>9. BatchOnce'
  BY <1>2, <1>3, <1>4 DEF BatchOnce, Quiet, Later
<1>10. SteerIdOnce'
  <2>1. drain.steer # NoRid => drain.steer \in Nat
    BY <1>1, DrainFields, IdsApart
  <2>2. used.steers \in Nat /\ used'.steers \in Nat
    BY <1>1 DEF CounterTypes
  <2>3. Typed \notin Batch
    BY <1>4, IdsApart
  <2>4. drain.steer # NoRid /\ drain.at # "asked" => drain.steer <= used'.steers
    BY <1>2, <2>1, <2>2 DEF SteerIdOnce, Quiet, Later
  <2>5. Calm' /\ drain.at = "steered" => Batch \cap Spent' = {}
    BY <1>2, <2>3 DEF SteerIdOnce, Quiet, Later
  <2> QED
    BY <1>2, <1>3, <2>4, <2>5 DEF SteerIdOnce, Quiet, Later
<1>11. AskedOnce'
  BY <1>2, <1>3 DEF AskedOnce, Quiet, Later
<1> QED
  BY <1>6, <1>7, <1>8, <1>9, <1>10, <1>11

LEMMA OpenStable ==
    ASSUME OnceInv, SessionStable, drain' = drain, Spent' \subseteq Spent \cup {Typed}, MailInv,
           LeaseFree \/ UNCHANGED <<pendingDispatch, pendingSteer>>
    PROVE  OpenOnce'
<1>1. OpenOnce
  BY DEF OnceInv
<1>2. Claimed' = Claimed
  BY DEF Claimed
<1>3. pendingDispatch' \in {pendingDispatch, NoDispatch} /\ NoDispatch.rid = NoRid
  BY DEF SessionStable, NoDispatch
<1>4. NoRid \notin Mail
  BY IdsApart
<1>5. drain.at \in {"sending", "refused"} => Claimed \in Mail
  <2>1. drain.at \in {"sending", "refused"} => Len(drain.batch) >= 1 /\ drain \in Drains
    BY DEF MailInv, DrainInv, BatchInv, Offering
  <2> QED
    BY <2>1, DrainFields DEF Claimed
<1>6. CASE LeaseFree
  <2>1. drain.at \notin {"sending", "record", "refused", "steering", "steered"}
    BY <1>6 DEF LeaseFree
  <2> QED
    BY <1>1, <1>3, <1>4, <2>1 DEF OpenOnce
<1>7. CASE UNCHANGED <<pendingDispatch, pendingSteer>>
  BY <1>1, <1>2, <1>5, <1>7, IdsApart DEF OpenOnce, Unsettled
<1> QED
  BY <1>6, <1>7

(* The session settles, the presence is read, a turn starts or ends, the *)
(* wait of a message ends.                                               *)
LEMMA ElsewhereOnce ==
    ASSUME MailInv, MailInv', OnceInv, Kept, SessionStable, drain' = drain, used' = used,
           verifyOf' = verifyOf, steerOf' = steerOf, placement' = placement,
           LeaseFree \/ UNCHANGED <<pendingDispatch, pendingSteer>>
    PROVE  OnceInv'
<1>1. Doubted' \subseteq Doubted
  BY DEF Doubted, ToBeVerified
<1>2. Quiet /\ Spent' = Spent /\ RowOnce' /\ SeenOnce' /\ EntriesOnce'
  BY <1>1, QuietOnce
<1>3. \A m \in Mail : Waits(m)
  BY DEF Waits
<1>4. /\ ClaimsOnce' /\ SnapshotOnce' /\ ResultsOnce' /\ BatchOnce' /\ SteerIdOnce'
      /\ AskedOnce'
  BY <1>2, <1>3, DrainKept DEF Kept
<1>5. OpenOnce'
  BY <1>2, OpenStable
<1> QED
  BY <1>2, <1>4, <1>5 DEF OnceInv

-----------------------------------------------------------------------------
(* The users, the tab, the provider and the projection reads. *)

LEMMA SettlementsOnce ==
    ASSUME MailInv, MailInv', OnceInv,
           refreshPresence \/ settleAmbiguousDispatch \/ settleAmbiguousSteer
    PROVE  OnceInv'
<1>1. /\ LeaseFree /\ UNCHANGED <<storeVars, drain, providerVars, history, used>>
  BY DEF refreshPresence, settleAmbiguousDispatch, settleAmbiguousSteer
<1>2. /\ Kept /\ drain' = drain /\ used' = used /\ placement' = placement
      /\ pendingInject' = pendingInject
  BY <1>1 DEF Kept, storeVars, providerVars, history
<1>3. verifyOf' = verifyOf /\ steerOf' = steerOf
  BY <1>2, ViewsKept
<1>4. SessionStable
  <2>1. CASE refreshPresence
    BY <2>1, PresenceStable DEF refreshPresence, Presence
  <2>2. CASE settleAmbiguousDispatch
    BY <2>2 DEF settleAmbiguousDispatch, confirmNativeAgentDispatch, retireNativeAgentDispatch,
                SessionStable, Landed, Spent
  <2>3. CASE settleAmbiguousSteer
    <3>1. pendingSteer.rid \in SteerIds
      BY <2>3, SteerOpen DEF settleAmbiguousSteer, MailInv, RestInv
    <3>2. steerLog[pendingSteer.rid] = "dispatched" => pendingSteer.rid \in Landed
      BY <3>1 DEF Landed
    <3> QED
      BY <2>3, <3>2 DEF settleAmbiguousSteer, completePendingSteer, SessionStable
  <2> QED
    BY <2>1, <2>2, <2>3
<1> QED
  BY <1>1, <1>2, <1>3, <1>4, ElsewhereOnce

LEMMA TurnOnce ==
    ASSUME MailInv, MailInv', OnceInv, TurnStart \/ TurnEnd
    PROVE  OnceInv'
<1>1. UNCHANGED <<storeVars, sessionVars, drain, taken, lost, steerLog, seen, history, used>>
  BY DEF TurnStart, TurnEnd
<1>2. /\ Kept /\ drain' = drain /\ used' = used /\ placement' = placement
      /\ pendingInject' = pendingInject /\ UNCHANGED <<pendingDispatch, pendingSteer>>
  BY <1>1 DEF Kept, storeVars, sessionVars, history
<1>3. verifyOf' = verifyOf /\ steerOf' = steerOf
  BY <1>2, ViewsKept
<1>4. SessionStable
  BY <1>1, SameSession
<1> QED
  BY <1>2, <1>3, <1>4, ElsewhereOnce

LEMMA WaitingOnce ==
    ASSUME MailInv, MailInv', OnceInv,
           \/ \E m \in Mail : clearAgentMailSteerRequest(m) \/ Elapse(m)
           \/ resetAgentMailInjectBackoff
    PROVE  OnceInv'
<1>1. /\ UNCHANGED <<placement, sessionVars, drain, providerVars, history, used>>
  BY DEF clearAgentMailSteerRequest, Elapse, resetAgentMailInjectBackoff
<1>2. /\ Kept /\ drain' = drain /\ used' = used /\ placement' = placement
      /\ UNCHANGED <<pendingDispatch, pendingSteer>>
  BY <1>1 DEF Kept, sessionVars, providerVars, history
<1>3. StoreInv /\ StoreInv'
  BY DEF MailInv
<1>4. verifyOf' = verifyOf /\ steerOf' = steerOf
  <2>1. CASE resetAgentMailInjectBackoff
    BY <1>3, <2>1, ResetViews DEF resetAgentMailInjectBackoff
  <2>2. CASE \E m \in Mail : clearAgentMailSteerRequest(m) \/ Elapse(m)
    <3>1. PICK m \in Mail : clearAgentMailSteerRequest(m) \/ Elapse(m)
      BY <2>2
    <3>2. Queued(m) # {}
      BY <3>1 DEF clearAgentMailSteerRequest, Elapse
    <3>3. /\ EntryOf(m) \in StoredEntries /\ EntryOf(m).id = m
          /\ verifyOf[m] = EntryOf(m).verify /\ steerOf[m] = EntryOf(m).steerId
      BY <1>3, <3>2, QueuedWaits, WaitingViews
    <3>4. PICK g \in {[EntryOf(m) EXCEPT !.steer = FALSE],
                       [EntryOf(m) EXCEPT !.held = FALSE, !.deferred = FALSE]} :
                 pendingInject' = Put(m, g)
      BY <3>1, <3>2 DEF clearAgentMailSteerRequest, Elapse, Put
    <3>5. /\ g \in StoredEntries /\ g.id = m /\ g.verify = verifyOf[m] /\ g.steerId = steerOf[m]
      BY <3>3, <3>4 DEF StoredEntries
    <3>6. verifyOf' = [verifyOf EXCEPT ![m] = verifyOf[m]] /\ steerOf' = [steerOf EXCEPT ![m] = steerOf[m]]
      BY <1>3, <3>4, <3>5, PutViews
    <3> QED
      BY <1>3, <3>6, StoreViews
  <2> QED
    BY <2>1, <2>2
<1>5. SessionStable
  BY <1>1, SameSession
<1> QED
  BY <1>2, <1>4, <1>5, ElsewhereOnce

LEMMA SendMailOnce ==
    ASSUME MailInv, MailInv', OnceInv, NEW m \in Mail, NEW s \in BOOLEAN, sendAgentMail(m, s)
    PROVE  OnceInv'
<1>1. StoreInv /\ StoreInv' /\ RestInv /\ RestInv' /\ CounterTypes
  BY DEF MailInv, RestInv
<1>2. /\ Kept /\ drain' = drain /\ used' = used /\ UNCHANGED <<pendingDispatch, pendingSteer>>
      /\ UNCHANGED sessionVars
  BY DEF sendAgentMail, Kept, sessionVars, providerVars, history
<1>3. placement[m] = "unsent" /\ placement' = [placement EXCEPT ![m] = "pending"]
  BY DEF sendAgentMail
<1>4. verifyOf' = verifyOf /\ steerOf' = steerOf
  <2>1. Queued(m) = {}
    BY <1>1, <1>3, QueuedWaits
  <2>2. pendingInject' = Put(m, Entry(m, s))
    BY <2>1 DEF sendAgentMail, Put
  <2>3. /\ Entry(m, s) \in StoredEntries /\ Entry(m, s).id = m /\ Entry(m, s).verify = NoRid
    BY FreshEntry
  <2>4. Entry(m, s).steerId = NoRid
    BY DEF Entry
  <2>5. verifyOf' = [verifyOf EXCEPT ![m] = NoRid] /\ steerOf' = [steerOf EXCEPT ![m] = NoRid]
    BY <1>1, <2>2, <2>3, <2>4, PutViews
  <2>6. verifyOf[m] = NoRid /\ steerOf[m] = NoRid
    BY <1>1, <1>3, StoreViews
  <2> QED
    BY <1>1, <2>5, <2>6, StoreViews
<1>5. Doubted' \subseteq Doubted
  BY <1>2, <1>4 DEF Doubted, ToBeVerified
<1>6. Quiet /\ Spent' = Spent /\ Landed' = Landed
  BY <1>1, <1>2, <1>5, StillLater
<1>7. RowOnce /\ SeenOnce /\ EntriesOnce
  BY DEF OnceInv
<1>8. \A x \in Mail : Waits(x)
  BY <1>1, <1>3, <1>6, <1>7 DEF Waits, SeenOnce, Quiet, Later, StoreInv, StoreTypes
<1>9. SessionStable
  BY <1>2, SameSession
<1>10. RowOnce'
  BY <1>1, <1>2, <1>6, <1>7, <1>9, RowStable DEF Quiet, Kept, RestInv
<1>11. SeenOnce'
  <2>1. MailOnce'
    BY <1>2, <1>7, OnceKept DEF SeenOnce
  <2> QED
    BY <1>6, <1>7, <1>8, <2>1, SeenKept DEF Waits
<1>12. EntriesOnce'
  BY <1>1, <1>2, <1>4, <1>6, <1>7, <1>8, <1>9, EntriesKept DEF Kept
<1>13. /\ ClaimsOnce' /\ SnapshotOnce' /\ ResultsOnce' /\ BatchOnce' /\ SteerIdOnce'
       /\ AskedOnce'
  BY <1>2, <1>4, <1>6, <1>8, DrainKept DEF Kept
<1>14. OpenOnce'
  BY <1>2, <1>6, <1>9, OpenStable
<1> QED
  BY <1>10, <1>11, <1>12, <1>13, <1>14 DEF OnceInv

(* A message a user sends again may be given again. *)
LEMMA RetryMailOnce ==
    ASSUME MailInv, MailInv', OnceInv, NEW m \in Mail, NEW s \in BOOLEAN, retryAgentMailInject(m, s)
    PROVE  OnceInv'
<1>1. StoreInv /\ StoreInv' /\ RestInv /\ RestInv' /\ CounterTypes
  BY DEF MailInv, RestInv
<1>2. /\ UNCHANGED <<taken, lost, steerLog, seen, strays>> /\ drain' = drain
      /\ UNCHANGED <<pendingDispatch, pendingSteer>> /\ UNCHANGED sessionVars
      /\ Bump("releases")
      /\ resent' = [resent EXCEPT ![m] = IF placement[m] = "failed" THEN @ + 1 ELSE @]
  BY DEF retryAgentMailInject, sessionVars, providerVars
<1>3. placement[m] \in {"pending", "failed"} /\ placement' = [placement EXCEPT ![m] = "pending"]
  BY DEF retryAgentMailInject
<1>4. verifyOf' = verifyOf /\ steerOf' = steerOf
  <2> DEFINE e == IF Queued(m) = {} THEN Entry(m, FALSE) ELSE EntryOf(m)
             woken == IF placement[m] = "pending"
                      THEN [e EXCEPT !.held = FALSE, !.deferred = FALSE] ELSE e
             g == [woken EXCEPT !.steer = @ \/ (s /\ e.verify = NoRid)]
  <2>1. pendingInject' = Put(m, g)
    BY DEF retryAgentMailInject
  <2>2. e \in StoredEntries /\ e.id = m /\ e.verify = verifyOf[m] /\ e.steerId = steerOf[m]
    <3>1. CASE placement[m] = "pending"
      BY <1>1, <3>1, WaitingViews
    <3>2. CASE placement[m] = "failed"
      <4>1. Queued(m) = {} /\ verifyOf[m] = NoRid /\ steerOf[m] = NoRid
        BY <1>1, <3>2, QueuedWaits, StoreViews
      <4>2. Entry(m, FALSE).steerId = NoRid
        BY DEF Entry
      <4> QED
        BY <4>1, <4>2, FreshEntry
    <3> QED
      BY <3>1, <3>2, <1>3
  <2> HIDE DEF e
  <2>3. /\ woken \in StoredEntries /\ woken.id = m /\ woken.verify = e.verify
        /\ woken.steerId = e.steerId
    BY <2>2 DEF StoredEntries
  <2> HIDE DEF woken
  <2>4. g \in StoredEntries /\ g.id = m /\ g.verify = e.verify /\ g.steerId = e.steerId
    <3> DEFINE b == woken.steer \/ (s /\ e.verify = NoRid)
    <3>1. woken.steer \in BOOLEAN
      BY <2>3 DEF StoredEntries
    <3>2. g = [woken EXCEPT !.steer = b] /\ b \in BOOLEAN
      BY <3>1
    <3> HIDE DEF b, g
    <3> QED
      BY <3>2, <2>3 DEF StoredEntries
  <2> HIDE DEF g
  <2>5. verifyOf' = [verifyOf EXCEPT ![m] = verifyOf[m]] /\ steerOf' = [steerOf EXCEPT ![m] = steerOf[m]]
    BY <1>1, <2>1, <2>2, <2>4, PutViews
  <2> QED
    BY <1>1, <2>5, StoreViews
<1>5. Doubted' \subseteq Doubted
  BY <1>2, <1>4 DEF Doubted, ToBeVerified
<1>6. (Calm' => Calm) /\ (Lossless' => Lossless) /\ used.steers <= used'.steers
  BY <1>1, <1>2, CountersGrow
<1>7. ~Calm'
  BY <1>1, <1>2 DEF Calm, CounterTypes, Bump
<1>8. Spent' = Spent /\ Landed' = Landed /\ Got' = Got
  BY <1>2 DEF Spent, Landed, Got
<1>9. /\ \A x \in Mail : seen[x] \in Nat /\ resent[x] \in Nat
      /\ \A x \in Mail : x # m => resent'[x] = resent[x]
      /\ resent'[m] = IF placement[m] = "failed" THEN resent[m] + 1 ELSE resent[m]
  BY <1>1, <1>2 DEF RestInv, ProviderTypes, HistoryTypes
<1>10. RowOnce /\ SeenOnce /\ EntriesOnce /\ MailOnce
  BY DEF OnceInv, SeenOnce
<1>11. Clean \subseteq Clean' /\ MailOnce'
  BY <1>2, <1>9, <1>10 DEF Clean, MailOnce
<1>12. placement[m] = "failed" => m \in Clean'
  BY <1>2, <1>9, <1>10 DEF Clean, MailOnce
<1>13. Free' = Clean' /\ Free \subseteq Clean
  BY <1>7, NextSets, SetFacts DEF SetsRight
<1>14. Quiet
  BY <1>6, <1>8, <1>11, <1>13 DEF Quiet, Later
<1>15. \A x \in Mail : Waits(x)
  BY <1>1, <1>3, <1>12, <1>13 DEF Waits, StoreInv, StoreTypes
<1>16. SessionStable
  BY <1>2, SameSession
<1>17. RowOnce'
  BY <1>1, <1>2, <1>8, <1>10, <1>14, <1>16, RowStable DEF Quiet, RestInv
<1>18. SeenOnce'
  BY <1>10, <1>11, <1>14, <1>15, SeenKept DEF Waits
<1>19. EntriesOnce'
  BY <1>1, <1>2, <1>4, <1>10, <1>14, <1>15, <1>16, EntriesKept
<1>20. /\ ClaimsOnce' /\ SnapshotOnce' /\ ResultsOnce' /\ BatchOnce' /\ SteerIdOnce'
       /\ AskedOnce'
  BY <1>2, <1>4, <1>14, <1>15, DrainKept
<1>21. OpenOnce'
  BY <1>2, <1>8, <1>16, OpenStable
<1> QED
  BY <1>17, <1>18, <1>19, <1>20, <1>21 DEF OnceInv

LEMMA RestartOnce ==
    ASSUME MailInv, MailInv', OnceInv, ProviderRestart
    PROVE  OnceInv'
<1>1. StoreInv /\ StoreInv' /\ RestInv /\ RestInv' /\ CounterTypes
  BY DEF MailInv, RestInv
<1>2. /\ UNCHANGED <<steerLog, seen, resent, strays>> /\ drain' = drain
      /\ UNCHANGED <<pendingDispatch, pendingSteer, dispatched, retired>> /\ UNCHANGED sessionVars
      /\ Bump("restarts") /\ placement' = placement /\ pendingInject' = pendingInject
      /\ \E open \in SUBSET taken : taken' = taken \ open /\ lost' = lost \cup open
  BY DEF ProviderRestart, sessionVars, storeVars, history
<1>3. verifyOf' = verifyOf /\ steerOf' = steerOf
  BY <1>2, ViewsKept
<1>4. Doubted' \subseteq Doubted
  BY <1>2, <1>3 DEF Doubted, ToBeVerified
<1>5. (Calm' => Calm) /\ (Lossless' => Lossless) /\ used.steers <= used'.steers
  BY <1>1, <1>2, CountersGrow
<1>6. ~Lossless'
  BY <1>1, <1>2 DEF Lossless, CounterTypes, Bump
<1>7. Spent' = Spent
  BY <1>2 DEF Spent
<1>8. Landed' = Landed /\ Got' = Got /\ Clean' = Clean
  BY <1>2, <1>7 DEF Landed, Got, Clean
<1>9. Quiet
  BY <1>4, <1>5, <1>7, <1>8 DEF Quiet, Later, Free
<1>10. RowOnce /\ SeenOnce /\ EntriesOnce /\ MailOnce
  BY DEF OnceInv, SeenOnce
<1>11. MailOnce'
  BY <1>2, <1>10 DEF MailOnce
<1>12. SessionStable /\ \A x \in Mail : Waits(x)
  BY <1>2, SameSession DEF Waits
<1>13. RowOnce'
  BY <1>2, <1>6, <1>7, <1>8, <1>9, <1>10 DEF RowOnce, Quiet, Later
<1>14. SeenOnce'
  BY <1>2, <1>9, <1>10, <1>11, SeenKept
<1>15. EntriesOnce'
  BY <1>1, <1>2, <1>3, <1>9, <1>10, <1>12, EntriesKept
<1>16. /\ ClaimsOnce' /\ SnapshotOnce' /\ ResultsOnce' /\ BatchOnce' /\ SteerIdOnce'
       /\ AskedOnce'
  BY <1>2, <1>3, <1>9, <1>12, DrainKept
<1>17. OpenOnce'
  BY <1>2, <1>7, <1>12, OpenStable
<1> QED
  BY <1>13, <1>14, <1>15, <1>16, <1>17 DEF OnceInv

(* A typed prompt forgets the id that was retired.  A claim's fallback may *)
(* be that id only after a bridge restarted, which is not calm.            *)
LEMMA TypedOnce ==
    ASSUME MailInv, MailInv', OnceInv, dispatchIntent
    PROVE  OnceInv'
<1>1. StoreInv /\ StoreInv' /\ RestInv /\ RestInv' /\ CounterTypes /\ CounterTypes'
  BY DEF MailInv, RestInv
<1>2. /\ UNCHANGED <<lost, steerLog, seen, resent, strays>> /\ drain' = drain
      /\ UNCHANGED <<pendingSteer, dispatched>>
      /\ Bump("typed") /\ placement' = placement /\ pendingInject' = pendingInject
      /\ taken' = taken \cup {Typed} /\ LeaseFree /\ pendingDispatch = NoDispatch
      /\ retired' \in {retired, NoRid}
      /\ pendingDispatch'.rid \in {NoRid, Typed} /\ pendingDispatch'.refused = FALSE
  BY DEF dispatchIntent, storeVars, history, NoDispatch
<1>3. verifyOf' = verifyOf /\ steerOf' = steerOf
  BY <1>2, ViewsKept
<1>4. Doubted' \subseteq Doubted
  BY <1>2, <1>3 DEF Doubted, ToBeVerified
<1>5. (Calm' => Calm) /\ (Lossless' => Lossless) /\ used.steers <= used'.steers
  BY <1>1, <1>2, CountersGrow
<1>6. Spent' = Spent \cup {Typed}
  BY <1>2 DEF Spent
<1>7. Landed' = Landed \cup {Typed} /\ Got' = Got /\ Clean' = Clean
  BY <1>2, <1>6 DEF Landed, Got, Clean
<1>8. Free \subseteq Free'
  BY <1>4, <1>5, <1>6, <1>7, IdsApart DEF Free, Clean
<1>9. Quiet
  BY <1>5, <1>6, <1>7, <1>8 DEF Quiet, Later
<1>10. RowOnce /\ SeenOnce /\ EntriesOnce /\ MailOnce /\ OpenOnce
  BY DEF OnceInv, SeenOnce
<1>11. MailOnce'
  BY <1>2, <1>10 DEF MailOnce
<1>12. \A x \in Mail : Waits(x)
  BY <1>2 DEF Waits
<1>13. RowOnce'
  <2>1. \A r \in Mail : ~Unsettled(r)
    BY <1>2, IdsApart DEF Unsettled, NoDispatch
  <2>2. \A r \in Mail \cap Spent' : r \in Mail \cap Spent
    BY <1>6, IdsApart
  <2> QED
    BY <1>2, <1>5, <1>7, <1>10, <2>1, <2>2 DEF RowOnce
<1>14. SeenOnce'
  BY <1>2, <1>9, <1>10, <1>11, SeenKept
<1>15. EntriesOnce'
  <2>1. ASSUME NEW m \in Mail PROVE VerifyOnce(m)' /\ SteerOnce(m)' /\ SteerClaim(m)'
    <3>1. VerifyOnce(m) /\ SteerOnce(m) /\ SteerClaim(m)
      BY <1>10 DEF EntriesOnce
    <3>2. VerifyOnce(m)'
      BY <1>2, <1>3, <1>9, <3>1, VerifyKept
    <3>3. SteerOnce(m)'
      BY <1>1, <1>3, <1>9, <3>1, SteerKept
    <3>4. m # Typed /\ m # NoRid /\ ~Unsettled(m)
      BY <1>2, IdsApart DEF Unsettled, NoDispatch
    <3>5. ASSUME Calm', steerOf[m] # NoRid PROVE retired # m
      <4>1. steerOf[m] \in SteerIds
        BY <1>1, <3>5, StoreViews
      <4>2. steerOf[m] \in Nat /\ steerOf[m] >= 1 /\ steerOf[m] <= used.steers
        BY <3>1, <3>5, <4>1, IdsApart DEF SteerOnce
      <4>3. used.steers \in Nat /\ used.steers # 0 /\ used.typed \in Nat
        BY <1>1, <4>2 DEF CounterTypes
      <4>4. used'.typed = used.typed + 1 /\ used'.steers = used.steers
            /\ used'.restarts = used.restarts /\ used'.recoveries = used.recoveries
        BY <1>1, <1>2 DEF CounterTypes, Bump
      <4>5. Lossless
        BY <3>5, <4>3, <4>4 DEF Calm, Lossless
      <4> QED
        BY <1>10, <3>4, <4>5 DEF RowOnce
    <3>6. SteerClaim(m)'
      BY <1>2, <1>3, <1>5, <1>6, <1>7, <1>8, <3>1, <3>4, <3>5 DEF SteerClaim
    <3> QED
      BY <3>2, <3>3, <3>6
  <2>2. \A s \in SteerIds : s > used'.steers => steerLog'[s] = "none"
    BY <1>1, <1>2, <1>5, <1>10, StepsUnused
  <2> QED
    BY <2>1, <2>2 DEF EntriesOnce
<1>16. /\ ClaimsOnce' /\ SnapshotOnce' /\ ResultsOnce' /\ BatchOnce' /\ SteerIdOnce'
       /\ AskedOnce'
  BY <1>2, <1>3, <1>9, <1>12, DrainKept
<1>17. OpenOnce'
  <2>1. drain'.at \notin {"sending", "record", "refused", "steering", "steered"}
    BY <1>2 DEF LeaseFree
  <2>2. pendingDispatch'.rid \notin Mail
    BY <1>2, IdsApart
  <2> QED
    BY <2>1, <2>2 DEF OpenOnce
<1> QED
  BY <1>13, <1>14, <1>15, <1>16, <1>17 DEF OnceInv

(* A decision on a parked dispatch is a disturbance. *)
LEMMA DecisionsDisturb ==
    ASSUME MailInv,
           retryRecoverableDispatch \/ retryRecoverableSteer \/ discardRecoverableDispatch
    PROVE  ~Undisturbed'
<1>1. Bump("recoveries") /\ CounterTypes
  BY DEF retryRecoverableDispatch, retryRecoverableSteer, discardRecoverableDispatch, MailInv, RestInv
<1>2. used'.recoveries # 0
  BY <1>1 DEF Bump, CounterTypes
<1> QED
  BY <1>2 DEF Undisturbed, Lossless, Calm

-----------------------------------------------------------------------------
(* The pass. *)

(* Between two messages. *)
LEMMA RestOnce ==
    ASSUME drain'.at \in {"idle", "down", "next"}, drain'.batch = <<>>, drain'.steer = NoRid,
           drain'.at = "down" => drain'.pos = 0,
           \A m \in Mail : placement'[m] = "submitting" => drain'.at = "down"
    PROVE  ClaimsOnce' /\ ResultsOnce' /\ BatchOnce' /\ SteerIdOnce' /\ OpenOnce' /\ AskedOnce'
<1>1. InHand' = {} /\ Extra' = {}
  BY DEF InHand, Extra, Offering
<1>2. ClaimsOnce'
  BY <1>1 DEF ClaimsOnce, Recovering, Offering
<1>3. ResultsOnce' /\ BatchOnce' /\ SteerIdOnce' /\ OpenOnce' /\ AskedOnce'
  BY DEF ResultsOnce, BatchOnce, SteerIdOnce, OpenOnce, AskedOnce, Offering
<1> QED
  BY <1>2, <1>3

LEMMA AdvanceFacts ==
    ASSUME drain \in Drains, Advance
    PROVE  /\ drain'.batch = <<>> /\ drain'.steer = NoRid /\ drain'.result.what = "held"
           /\ drain'.at \in {"idle", "down", "next"}
           /\ drain.pos = 0 => drain'.at = "down" /\ drain'.pos = 0
           /\ drain.pos # 0 => drain'.at # "down"
           /\ drain'.at # "next" => drain'.list = <<>> /\ drain'.known = {}
           /\ drain'.at = "next" => /\ drain'.list = drain.list /\ drain'.known = drain.known
                                    /\ drain'.pos = drain.pos + 1
BY DEF Advance, Off, Result

LEMMA NoSnapshot ==
    ASSUME drain'.list = <<>>, drain'.known = {}
    PROVE  SnapshotOnce'
BY DEF SnapshotOnce, ToVerify

(* The entries ahead of the pass that it has to verify. *)
StillAhead == {k \in ToVerify : k > drain.pos}

(* They stay as they are. *)
AheadKept ==
    \A m \in Mail : placement[m] = "pending" /\ (\E k \in StillAhead : drain.list[k].id = m) =>
        placement'[m] = "pending" /\ verifyOf'[m] = verifyOf[m] /\ steerOf'[m] = steerOf[m]

LEMMA AdvanceOnce ==
    ASSUME MailInv, SnapshotOnce, Later, Advance, AheadKept,
           \A m \in Mail : placement'[m] = "submitting" => drain.pos = 0
    PROVE  /\ ClaimsOnce' /\ SnapshotOnce' /\ ResultsOnce' /\ BatchOnce' /\ SteerIdOnce' /\ OpenOnce'
           /\ AskedOnce'
<1>1. drain \in Drains
  BY DEF MailInv, DrainInv
<1>2. /\ drain'.batch = <<>> /\ drain'.steer = NoRid
      /\ drain'.at \in {"idle", "down", "next"}
      /\ drain.pos = 0 => drain'.at = "down" /\ drain'.pos = 0
      /\ drain.pos # 0 => drain'.at # "down"
      /\ drain'.at # "next" => drain'.list = <<>> /\ drain'.known = {}
      /\ drain'.at = "next" => /\ drain'.list = drain.list /\ drain'.known = drain.known
                               /\ drain'.pos = drain.pos + 1
  BY <1>1, AdvanceFacts
<1>3. ClaimsOnce' /\ ResultsOnce' /\ BatchOnce' /\ SteerIdOnce' /\ OpenOnce' /\ AskedOnce'
  BY <1>2, RestOnce
<1>4. SnapshotOnce'
  <2>1. CASE drain'.at # "next"
    BY <1>2, <2>1, NoSnapshot
  <2>2. CASE drain'.at = "next"
    <3>1. drain.pos \in Nat
      BY <1>1, DrainFields
    <3>2. ToVerify' \subseteq StillAhead
      BY <1>2, <2>2, <3>1 DEF ToVerify, StillAhead
    <3>3. ToVerify' \subseteq ToVerify
      BY <3>2 DEF StillAhead
    <3> QED
      BY <1>1, <1>2, <2>2, <3>2, <3>3, SnapshotKept DEF AheadKept
  <2> QED
    BY <2>1, <2>2
<1> QED
  BY <1>3, <1>4

(* At "idle", "next", "verdict" and "claim" nothing is claimed. *)
LEMMA NothingClaimed ==
    ASSUME ClaimsOnce, drain.at \in {"idle", "next", "verdict", "claim"}
    PROVE  \A m \in Mail : placement[m] # "submitting"
BY DEF ClaimsOnce, InHand, Extra, Recovering, Offering

LEMMA ListWaits ==
    ASSUME StoreTypes, NEW d \in BOOLEAN, NEW list \in listPendingAgentMailInjects(d)
    PROVE  \A k \in 1..Len(list) : placement[list[k].id] = "pending"
<1> DEFINE listed == Listed(d)
           places == 1..Cardinality(listed)
<1>1. PICK order \in [places -> listed] : list = [n \in places |-> pendingInject[order[n]]]
  BY DEF listPendingAgentMailInjects
<1>2. \A n \in places : placement[pendingInject[order[n]].id] = "pending"
  BY <1>1 DEF Listed
<1>3. Cardinality(listed) \in Nat
  <2>1. listed \subseteq 1..Len(pendingInject) /\ Len(pendingInject) \in Nat
    BY DEF Listed, StoreTypes
  <2>2. IsFiniteSet(1..Len(pendingInject))
    BY <2>1, FS_Interval
  <2> QED
    BY <2>1, <2>2, FS_Subset, FS_CardinalityType
<1> HIDE DEF listed
<1>4. 1..Len(list) = places
  BY <1>1, <1>3
<1> QED
  BY <1>1, <1>2, <1>4

LEMMA DrainStartOnce ==
    ASSUME MailInv, MailInv', OnceInv, drainInjects
    PROVE  OnceInv'
<1>1. StoreInv /\ StoreInv' /\ drain.at = "idle"
  BY DEF MailInv, drainInjects, At
<1>2. /\ Kept /\ used' = used /\ placement' = placement /\ pendingInject' = pendingInject
      /\ UNCHANGED sessionVars
  BY DEF drainInjects, Kept, storeVars, providerVars, history
<1>3. verifyOf' = verifyOf /\ steerOf' = steerOf /\ SessionStable
  BY <1>2, ViewsKept, SameSession
<1>d. PICK d \in BOOLEAN : \E list \in listPendingAgentMailInjects(d) :
         drain' = [Off EXCEPT !.at = "next", !.pos = 1, !.list = list]
  BY DEF drainInjects
<1>4. PICK list \in listPendingAgentMailInjects(d) :
         drain' = [Off EXCEPT !.at = "next", !.pos = 1, !.list = list]
  BY <1>d
<1>5. /\ drain'.at = "next" /\ drain'.batch = <<>> /\ drain'.steer = NoRid
      /\ drain'.list = list /\ drain'.known = {}
  BY <1>4 DEF Off
<1>6. Doubted' \subseteq Doubted
  BY <1>3, <1>5, NotVerifying
<1>7. Quiet /\ RowOnce' /\ SeenOnce' /\ EntriesOnce'
  BY <1>2, <1>3, <1>6, QuietOnce
<1>8. ClaimsOnce' /\ ResultsOnce' /\ BatchOnce' /\ SteerIdOnce' /\ OpenOnce' /\ AskedOnce'
  BY <1>1, <1>2, <1>5, NothingClaimed, RestOnce DEF OnceInv
<1>9. SnapshotOnce'
  <2>1. ASSUME NEW k \in ToVerify'
        PROVE  /\ placement[list[k].id] = "pending"
               /\ verifyOf[list[k].id] = list[k].verify /\ steerOf[list[k].id] = list[k].steerId
    <3>1. k \in 1..Len(list)
      BY <1>5, <2>1 DEF ToVerify
    <3>2. list[k] \in Pending /\ placement[list[k].id] = "pending"
      BY <1>1, <3>1, ListFacts, ListWaits DEF StoreInv
    <3> QED
      BY <1>1, <3>2, StoreViews
  <2> QED
    BY <1>2, <1>3, <1>5, <2>1 DEF SnapshotOnce
<1> QED
  BY <1>7, <1>8, <1>9 DEF OnceInv

(* What a pass is told of an id is so: one that is not delivered may be   *)
(* offered again, one that is has reached the agent.                      *)
LEMMA AskedInject ==
    ASSUME MailInv, OnceInv, NEW r \in Mail, NEW x \in Mail, verifyOf[x] = r, NEW status,
           reconcileMailInject(r, FALSE, status)
    PROVE  /\ status = "dispatched" => r \in Landed
           /\ status = "not-dispatched" => ~Calm /\ r \notin Landed
<1>1. RowOnce /\ SessionTypes
  BY DEF OnceInv, MailInv, RestInv
<1>2. status = "dispatched" => r \in dispatched \/ r \in taken
  BY DEF reconcileMailInject, confirmNativeAgentDispatch
<1>3. status = "not-dispatched" => pendingDispatch.rid = r /\ ~Unsettled(r)
  BY DEF reconcileMailInject
<1>4. pendingDispatch.rid = r /\ ~Unsettled(r) => pendingDispatch.refused
  BY DEF Unsettled
<1>5. r \in Doubted
  BY DEF Doubted
<1>6. dispatched \subseteq Landed /\ taken \subseteq Landed
  BY <1>1 DEF RowOnce, Landed, Spent
<1>7. status = "not-dispatched" => r \in Free \ Spent
  BY <1>1, <1>3, <1>4 DEF RowOnce
<1> QED
  BY <1>2, <1>5, <1>6, <1>7, SetFacts

LEMMA AskedSteer ==
    ASSUME OnceInv, NEW s \in SteerIds, NEW status, reconcileMailSteer(s, status)
    PROVE  /\ status = "dispatched" => s \in Landed
           /\ status = "not-dispatched" => s \notin Landed
<1>1. RowOnce /\ SeenOnce
  BY DEF OnceInv
<1>2. CASE s \in dispatched /\ status = "dispatched"
  BY <1>1, <1>2 DEF RowOnce
<1>3. CASE \E answer \in SteerStatus(s) : status = IF answer = "absent" THEN "not-dispatched" ELSE answer
  <2>1. PICK answer \in SteerStatus(s) : status = IF answer = "absent" THEN "not-dispatched" ELSE answer
    BY <1>3
  <2>2. answer = "unknown" \/ (answer = steerLog[s] /\ answer # "none")
    BY DEF SteerStatus
  <2>3. status = "dispatched" => steerLog[s] = "dispatched"
    BY <2>1, <2>2
  <2>4. status = "not-dispatched" => steerLog[s] # "dispatched"
    BY <2>1, <2>2
  <2>5. s \notin Spent
    BY <1>1 DEF SeenOnce
  <2> QED
    BY <2>3, <2>4, <2>5, SetFacts
<1> QED
  BY <1>2, <1>3 DEF reconcileMailSteer

LEMMA VerifyAskOnce ==
    ASSUME MailInv, MailInv', OnceInv, VerifyAsk
    PROVE  OnceInv'
<1> DEFINE v == Here.verify
           x == Here.id
<1>1. /\ StoreInv /\ StoreInv' /\ RestInv /\ CounterTypes /\ CounterTypes' /\ SessionTypes
      /\ DrainInv /\ drain \in Drains
  BY DEF MailInv, RestInv, DrainInv
<1>2. drain.at = "next" /\ v # NoRid
  BY DEF VerifyAsk, At
<1>3. /\ Kept /\ used' = used /\ placement' = placement /\ pendingInject' = pendingInject
  BY DEF VerifyAsk, Kept, storeVars, providerVars, history
<1>4. verifyOf' = verifyOf /\ steerOf' = steerOf
  BY <1>3, ViewsKept
<1>5. PICK status \in Statuses :
         /\ IF \E p \in drain.known : p[1] = v
            THEN <<v, status>> \in drain.known /\ UNCHANGED sessionVars
            ELSE IF Here.steerId = v
            THEN reconcileMailSteer(v, status)
            ELSE reconcileMailInject(v, FALSE, status)
         /\ drain' = [drain EXCEPT !.at = "verdict", !.known = @ \cup {<<v, status>>},
                                   !.result = VerifyResult(Here, status)]
  BY DEF VerifyAsk, Statuses
<1>6. /\ drain'.at = "verdict" /\ drain'.known = drain.known \cup {<<v, status>>}
      /\ drain'.result = VerifyResult(Here, status) /\ drain'.list = drain.list
      /\ drain'.pos = drain.pos /\ drain'.batch = drain.batch /\ drain'.steer = drain.steer
  BY <1>1, <1>5 DEF Drains
<1>7. drain.pos \in 1..Len(drain.list) /\ x \in Mail /\ drain.pos \in ToVerify
  BY <1>1, <1>2, HereTyped DEF ToVerify, Here
<1>8. /\ RowOnce /\ EntriesOnce /\ SnapshotOnce /\ ClaimsOnce /\ SteerIdOnce
  BY DEF OnceInv
<1>9. placement[x] = "pending" /\ verifyOf[x] = v /\ steerOf[x] = Here.steerId
  BY <1>7, <1>8 DEF SnapshotOnce, Here
<1>10. /\ v # Typed /\ Here.steerId = (IF v \in Mail THEN NoRid ELSE v)
       /\ Doubtful(x, v) /\ (Calm /\ v \in Landed => x \in Got)
  BY <1>2, <1>7, <1>8, <1>9 DEF EntriesOnce, VerifyOnce
<1>11. v \in Mail \cup SteerIds /\ v \in Rids
  <2>1. v \in RidsOrNone
    BY <1>1, <1>2, HereTyped
  <2> QED
    BY <1>2, <1>10, <2>1, IdsApart
<1>12. Here.steerId = v <=> v \in SteerIds
  BY <1>2, <1>10, <1>11, IdsApart
<1> HIDE DEF v, x
<1>13. SessionStable
  BY <1>1, <1>5, <1>11, <1>12, InjectStable, SteerStable, SameSession
<1>14. Doubted' \subseteq Doubted
  BY <1>4, <1>6, NotVerifying
<1>15. Quiet /\ RowOnce' /\ SeenOnce' /\ EntriesOnce'
  BY <1>3, <1>4, <1>13, <1>14, QuietOnce
<1>16. status = "dispatched" => v \in Landed
  <2>1. CASE <<v, status>> \in drain.known
    BY <1>8, <1>11, <2>1 DEF SnapshotOnce
  <2>2. CASE v \in SteerIds /\ reconcileMailSteer(v, status)
    BY <2>2, AskedSteer
  <2>3. CASE v \in Mail /\ reconcileMailInject(v, FALSE, status)
    BY <1>7, <1>9, <2>3, AskedInject
  <2> QED
    BY <1>5, <1>11, <1>12, <2>1, <2>2, <2>3
<1>17. ASSUME status = "not-dispatched", NEW k \in ToVerify, drain.list[k].verify = v
       PROVE  drain.list[k].id \in Free
  <2> DEFINE y == drain.list[k].id
  <2>1. k \in 1..Len(drain.list)
    BY DEF ToVerify
  <2>2. y \in Mail /\ verifyOf[y] = v
    BY <1>1, <1>8, <1>17, <2>1, DrainFields DEF SnapshotOnce
  <2>3. Doubtful(y, v)
    BY <1>2, <1>8, <2>2 DEF EntriesOnce, VerifyOnce, v
  <2>4. CASE <<v, status>> \in drain.known
    BY <1>8, <1>17, <2>4 DEF SnapshotOnce
  <2>5. CASE v \in SteerIds /\ reconcileMailSteer(v, status)
    BY <1>17, <2>3, <2>5, AskedSteer, IdsApart DEF Doubtful
  <2>6. CASE v \in Mail /\ reconcileMailInject(v, FALSE, status)
    BY <1>7, <1>9, <1>17, <2>3, <2>6, AskedInject, SetFacts DEF Doubtful
  <2> QED
    BY <1>5, <1>11, <1>12, <2>4, <2>5, <2>6
<1>18. ToVerify' = ToVerify
  BY <1>2, <1>6 DEF ToVerify
<1>19. SnapshotOnce'
  <2>1. ASSUME NEW k \in ToVerify
        PROVE  /\ placement'[drain.list[k].id] = "pending"
               /\ verifyOf'[drain.list[k].id] = drain.list[k].verify
               /\ steerOf'[drain.list[k].id] = drain.list[k].steerId
               /\ <<drain.list[k].verify, "not-dispatched">> \in drain'.known => drain.list[k].id \in Free'
    <3>1. /\ placement[drain.list[k].id] = "pending"
          /\ verifyOf[drain.list[k].id] = drain.list[k].verify
          /\ steerOf[drain.list[k].id] = drain.list[k].steerId
          /\ <<drain.list[k].verify, "not-dispatched">> \in drain.known => drain.list[k].id \in Free
      BY <1>8 DEF SnapshotOnce
    <3>2. <<drain.list[k].verify, "not-dispatched">> \in drain'.known => drain.list[k].id \in Free
      BY <1>6, <1>17, <3>1
    <3> QED
      BY <1>3, <1>4, <1>15, <3>1, <3>2 DEF Quiet, Later
  <2>2. \A r \in Rids : <<r, "dispatched">> \in drain'.known => r \in Landed'
    BY <1>6, <1>8, <1>15, <1>16 DEF SnapshotOnce, Quiet, Later
  <2> QED
    BY <1>6, <1>18, <2>1, <2>2 DEF SnapshotOnce
<1>20. ResultsOnce'
  <2>0. Here' = Here /\ x' = x /\ v' = v
    BY <1>6 DEF Here, x, v
  <2>1. status = "not-dispatched" => x \in Free
    BY <1>7, <1>17 DEF x, v, Here
  <2>2. CASE status = "dispatched"
    <3>1. drain'.result.what = "accepted" /\ (Calm' => x \in Got')
      BY <1>6, <1>10, <1>15, <1>16, <2>2 DEF VerifyResult, Result, Quiet, Later
    <3> QED
      BY <1>2, <1>6, <2>0, <3>1 DEF ResultsOnce, ResultOnce, x, v
  <2>3. CASE status = "not-dispatched"
    <3>1. drain'.result.what = "held" /\ x \in Free'
      BY <1>6, <1>15, <2>1, <2>3 DEF VerifyResult, Result, Quiet, Later
    <3> QED
      BY <1>2, <1>6, <2>0, <3>1 DEF ResultsOnce, ResultOnce, x, v
  <2>4. CASE status = "unknown"
    <3> DEFINE b == Here.steerId = v
    <3>0. b \in BOOLEAN
      OBVIOUS
    <3>a. drain'.result \in {Result("failed", NoRid, FALSE), Result("verify", v, b)}
      BY <1>6, <2>4 DEF VerifyResult, v
    <3> HIDE DEF b
    <3>1. \/ drain'.result.what = "failed"
          \/ drain'.result.what = "verify" /\ drain'.result.rid = v /\ drain'.result.steer = b
      BY <3>0, <3>a DEF Result
    <3>2. v \in SteerIds => v <= used'.steers
      BY <1>2, <1>3, <1>7, <1>8, <1>9, <1>10, <1>12 DEF EntriesOnce, SteerOnce, v
    <3>3. Doubtful(x, v)'
      BY <1>10, <1>15, <1>7, <1>11, <2>0, IdsApart DEF Doubtful, Quiet, Later
    <3>4. Calm' /\ v \in Landed' => x \in Got'
      BY <1>10, <1>15 DEF Quiet, Later
    <3> DEFINE res == drain'.result
    <3>5. res.what = "verify" => /\ res.rid = v /\ (res.steer <=> v \in SteerIds)
      BY <3>1, <1>12 DEF b
    <3>6. res.what \notin {"held", "retry", "accepted"}
      BY <3>1
    <3>7. ResultOnce(x)'
      BY <1>11, <2>0, <3>2, <3>3, <3>4, <3>5, <3>6 DEF ResultOnce, Doubtful
    <3> QED
      BY <1>2, <1>6, <2>0, <3>7 DEF ResultsOnce, x, v
  <2> QED
    BY <2>2, <2>3, <2>4 DEF Statuses
<1>21. ClaimsOnce'
  <2>1. \A m \in Mail : placement'[m] # "submitting"
    BY <1>2, <1>3, <1>8, NothingClaimed
  <2>2. InHand' = {} /\ Extra' = {}
    BY <1>6 DEF InHand, Extra, Offering
  <2> QED
    BY <1>6, <1>8, <2>1, <2>2 DEF ClaimsOnce, Offering
<1>22. BatchOnce' /\ SteerIdOnce' /\ OpenOnce' /\ AskedOnce'
  BY <1>2, <1>6, <1>8 DEF BatchOnce, SteerIdOnce, OpenOnce, AskedOnce, Offering
<1> QED
  BY <1>15, <1>19, <1>20, <1>21, <1>22 DEF OnceInv

(* A step that changes the place of one message in the store. *)
LEMMA ChangeOnce ==
    ASSUME MailInv, MailInv', OnceInv, Kept, used' = used, UNCHANGED sessionVars, Quiet, NEW x \in Mail,
           \A y \in Mail : y # x => /\ placement'[y] = placement[y] /\ verifyOf'[y] = verifyOf[y]
                                    /\ steerOf'[y] = steerOf[y],
           placement'[x] # "unsent", Calm' /\ placement'[x] = "injected" => x \in Got',
           VerifyOnce(x)', SteerOnce(x)', SteerClaim(x)'
    PROVE  RowOnce' /\ SeenOnce' /\ EntriesOnce'
<1>1. StoreInv /\ ProviderTypes /\ SessionTypes /\ CounterTypes /\ CounterTypes'
  BY DEF MailInv, RestInv
<1>2. RowOnce /\ SeenOnce /\ EntriesOnce /\ MailOnce
  BY DEF OnceInv, SeenOnce
<1>3. SessionStable /\ Spent' = Spent
  BY SameSession, SameSets
<1>4. RowOnce'
  BY <1>1, <1>2, <1>3, RowStable DEF Quiet, Kept
<1>5. MailOnce'
  BY <1>2, OnceKept
<1>6. SeenOnce'
  BY <1>2, <1>5, SeenKept
<1>7. ASSUME NEW y \in Mail, y # x PROVE VerifyOnce(y)' /\ SteerOnce(y)' /\ SteerClaim(y)'
  <2>1. VerifyOnce(y) /\ SteerOnce(y) /\ SteerClaim(y)
    BY <1>2 DEF EntriesOnce
  <2>2. VerifyOnce(y)'
    BY <1>7, <2>1, VerifyKept
  <2>3. SteerOnce(y)'
    BY <1>1, <1>7, <2>1, SteerKept
  <2>4. SteerClaim(y)'
    BY <1>1, <1>3, <1>7, <2>1, ClaimStable DEF Quiet
  <2> QED
    BY <2>2, <2>3, <2>4
<1>8. \A s \in SteerIds : s > used'.steers => steerLog'[s] = "none"
  BY <1>2 DEF EntriesOnce, Kept
<1>9. EntriesOnce'
  BY <1>7, <1>8 DEF EntriesOnce
<1> QED
  BY <1>4, <1>6, <1>9

(* The pass goes on without a claim. *)
LEMMA PassesOn ==
    ASSUME MailInv, MailInv', OnceInv, Kept, SessionStable, used' = used, placement' = placement,
           pendingInject' = pendingInject, Advance, drain.at \in {"next", "verdict", "claim"}
    PROVE  OnceInv'
<1>1. verifyOf' = verifyOf /\ steerOf' = steerOf
  BY ViewsKept
<1>2. drain \in Drains /\ DrainInv
  BY DEF MailInv, DrainInv
<1>3. drain'.at # "settle"
  BY <1>2, AdvanceFacts
<1>4. Doubted' \subseteq Doubted
  BY <1>1, <1>3, NotVerifying
<1>5. Quiet /\ RowOnce' /\ SeenOnce' /\ EntriesOnce'
  BY <1>1, <1>4, QuietOnce
<1>6. \A m \in Mail : placement'[m] # "submitting"
  BY NothingClaimed DEF OnceInv
<1>7. AheadKept
  BY <1>1 DEF AheadKept
<1>8. /\ ClaimsOnce' /\ SnapshotOnce' /\ ResultsOnce' /\ BatchOnce' /\ SteerIdOnce' /\ OpenOnce'
      /\ AskedOnce'
  BY <1>5, <1>6, <1>7, AdvanceOnce DEF OnceInv, Quiet
<1> QED
  BY <1>5, <1>8 DEF OnceInv

LEMMA ToSettle ==
    ASSUME drain'.at = "settle", drain'.steer = drain.steer, drain.at # "asked", SteerIdOnce, used' = used
    PROVE  BatchOnce' /\ SteerIdOnce' /\ OpenOnce' /\ AskedOnce'
BY DEF BatchOnce, SteerIdOnce, OpenOnce, AskedOnce, Offering

(* The entries ahead are of other messages than the one at hand. *)
LEMMA OthersAhead ==
    ASSUME DrainInv, drain.at \in {"verdict", "claim"}
    PROVE  \A k \in StillAhead : drain.list[k].id # Here.id
<1>1. drain.pos \in 1..Len(drain.list)
  BY HereTyped
<1>2. \A k \in StillAhead : k \in 1..Len(drain.list) /\ k > drain.pos
  BY DEF StillAhead, ToVerify
<1> QED
  BY <1>1, <1>2 DEF DrainInv, ListInv, Here

LEMMA OneClaim ==
    ASSUME NEW x \in Mail, drain'.batch = <<x>>, drain'.at \in (Offering \cup {"settle"}) \ {"full"},
           drain'.pos > 0, placement'[x] = "submitting",
           \A m \in Mail : placement'[m] = "submitting" => m = x
    PROVE  ClaimsOnce' /\ Batch' = {x} /\ Extra' = {}
<1>1. Batch' = {x}
  BY DEF Batch, Members
<1>2. Extra' = {} /\ InHand' = {x}
  BY <1>1 DEF Extra, InHand, Offering
<1>3. \A i, j \in 1..Len(drain'.batch) : drain'.batch[i] = drain'.batch[j] => i = j
  OBVIOUS
<1> QED
  BY <1>1, <1>2, <1>3 DEF ClaimsOnce, Offering

LEMMA VerifyClaimOnce ==
    ASSUME MailInv, MailInv', OnceInv, VerifyClaim
    PROVE  OnceInv'
<1>1. /\ StoreInv /\ StoreInv' /\ RestInv /\ CounterTypes /\ CounterTypes' /\ DrainInv /\ drain \in Drains
  BY DEF MailInv, RestInv, DrainInv
<1>2. drain.at = "verdict" /\ Kept /\ used' = used /\ UNCHANGED sessionVars
  BY DEF VerifyClaim, At, Kept, providerVars, history
<1>3. CASE ~Claimable(Here.id, Here.verify)
  <2>1. Advance /\ placement' = placement /\ pendingInject' = pendingInject
    BY <1>3 DEF VerifyClaim, storeVars
  <2> QED
    BY <1>2, <2>1, PassesOn, SameSession
<1>4. CASE Claimable(Here.id, Here.verify)
  <2>1. drain.pos \in 1..Len(drain.list) /\ Here.id \in Mail /\ Here.verify \in RidsOrNone
    BY <1>1, <1>2, HereTyped
  <2>2. PICK x \in Mail, v \in RidsOrNone : x = Here.id /\ v = Here.verify
    BY <2>1
  <2>3. /\ beginAgentMailInject(x, NoRid)
        /\ drain' = [drain EXCEPT !.at = "settle", !.batch = <<x>>]
    BY <1>4, <2>2 DEF VerifyClaim
  <2>4. /\ placement[x] = "pending" /\ verifyOf[x] = v
        /\ placement' = [placement EXCEPT ![x] = "submitting"]
        /\ verifyOf' = verifyOf /\ steerOf' = steerOf
    BY <1>1, <1>4, <2>2, <2>3, ClaimViews
  <2>5. /\ drain'.at = "settle" /\ drain'.list = drain.list /\ drain'.known = drain.known
        /\ drain'.pos = drain.pos /\ drain'.batch = <<x>> /\ drain'.result = drain.result
        /\ drain'.steer = drain.steer
    BY <1>1, <2>3 DEF Drains
  <2>6. placement'[x] = "submitting" /\ \A y \in Mail : y # x => placement'[y] = placement[y]
    BY <1>1, <2>4 DEF StoreInv, StoreTypes
  <2>7. Doubted' \subseteq Doubted
    <3>1. drain'.result.what = "verify" => drain'.result.rid = v
      BY <1>1, <1>2, <2>2, <2>5 DEF DrainInv, ResultInv
    <3> QED
      BY <2>4, <3>1 DEF Doubted, ToBeVerified
  <2>8. Quiet /\ Spent' = Spent
    BY <1>1, <1>2, <2>7, StillLater
  <2>9. RowOnce /\ EntriesOnce /\ SnapshotOnce /\ ClaimsOnce /\ ResultsOnce /\ SteerIdOnce
    BY DEF OnceInv
  <2>10. v # NoRid /\ ResultOnce(x)
    BY <1>2, <2>2, <2>9 DEF ResultsOnce
  <2>11. VerifyOnce(x) /\ SteerOnce(x)
    BY <2>9 DEF EntriesOnce
  <2>12. VerifyOnce(x)'
    BY <2>4, <2>6, <2>8, <2>11, VerifyKept
  <2>13. SteerOnce(x)'
    BY <1>1, <2>4, <2>8, <2>11, SteerKept
  <2>14. SteerClaim(x)'
    <3>1. steerOf[x] # NoRid => /\ steerOf[x] = v /\ v \notin Mail
      BY <2>4, <2>10, <2>11 DEF VerifyOnce
    <3>2. Doubtful(x, v)
      BY <2>4, <2>10, <2>11 DEF VerifyOnce
    <3>3. steerOf[x] # NoRid => (steerOf[x] \in Landed' \/ x \in Free') /\ (Calm' => x \notin Spent')
      BY <2>8, <3>1, <3>2 DEF Doubtful, Quiet, Later
    <3> QED
      BY <2>4, <3>3 DEF SteerClaim
  <2>15. RowOnce' /\ SeenOnce' /\ EntriesOnce'
    BY <1>2, <2>4, <2>6, <2>8, <2>12, <2>13, <2>14, ChangeOnce
  <2>16. ClaimsOnce' /\ Batch' = {x}
    BY <1>2, <2>1, <2>5, <2>6, <2>9, NothingClaimed, OneClaim
  <2>17. SnapshotOnce'
    <3>1. ToVerify' \subseteq StillAhead
      BY <1>2, <2>5 DEF ToVerify, StillAhead
    <3>2. \A k \in StillAhead : drain.list[k].id # x
      BY <1>1, <1>2, <2>2, OthersAhead
    <3>3. ToVerify' \subseteq ToVerify
      BY <3>1 DEF StillAhead
    <3> QED
      BY <1>1, <2>4, <2>5, <2>6, <2>8, <2>9, <3>1, <3>2, <3>3, SnapshotKept DEF Quiet
  <2>18. ResultsOnce'
    <3>1. ResultOnce(x)'
      BY <1>1, <2>5, <2>8, <2>10, ResultKept
    <3> QED
      BY <2>5, <2>16, <3>1 DEF ResultsOnce
  <2>19. BatchOnce' /\ SteerIdOnce' /\ OpenOnce' /\ AskedOnce'
    BY <1>2, <2>5, <2>9, ToSettle
  <2> QED
    BY <2>15, <2>16, <2>17, <2>18, <2>19 DEF OnceInv
<1> QED
  BY <1>3, <1>4

LEMMA SkipOnce ==
    ASSUME MailInv, MailInv', OnceInv, Skip
    PROVE  OnceInv'
<1>1. /\ drain.at = "next" /\ Advance /\ Kept /\ used' = used /\ placement' = placement
      /\ pendingInject' = pendingInject
  BY DEF Skip, At, Kept, storeVars, providerVars, history
<1>2. SessionStable
  BY PresenceStable DEF Skip
<1> QED
  BY <1>1, <1>2, PassesOn

(* The pass turns to a message. *)
LEMMA ApproachesOnce ==
    ASSUME MailInv, MailInv', OnceInv, Kept, SessionStable, placement' = placement,
           verifyOf' = verifyOf, steerOf' = steerOf, drain.at = "next", drain'.at = "claim",
           drain'.list = drain.list, drain'.pos = drain.pos, drain'.known = drain.known,
           drain'.batch = drain.batch,
           \/ used' = used
           \/ \E c \in {"steers", "releases", "recoveries", "typed", "crashes", "restarts"} : Bump(c)
    PROVE  /\ RowOnce' /\ SeenOnce' /\ EntriesOnce' /\ ClaimsOnce' /\ SnapshotOnce'
           /\ ResultsOnce' /\ BatchOnce' /\ AskedOnce'
<1>1. drain \in Drains /\ ClaimsOnce /\ SnapshotOnce
  BY DEF MailInv, DrainInv, OnceInv
<1>2. Doubted' \subseteq Doubted
  BY NotVerifying
<1>3. Quiet /\ RowOnce' /\ SeenOnce' /\ EntriesOnce'
  BY <1>2, QuietOnce
<1>4. ClaimsOnce'
  <2>1. \A m \in Mail : placement'[m] # "submitting"
    BY <1>1, NothingClaimed
  <2>2. InHand' = {} /\ Extra' = {}
    BY DEF InHand, Extra, Offering
  <2> QED
    BY <1>1, <2>1, <2>2 DEF ClaimsOnce, Offering
<1>5. SnapshotOnce'
  <2>1. ToVerify' \subseteq ToVerify
    BY DEF ToVerify
  <2> QED
    BY <1>1, <1>3, <2>1, SnapshotKept DEF Quiet
<1>6. ResultsOnce' /\ BatchOnce' /\ AskedOnce'
  BY DEF ResultsOnce, BatchOnce, AskedOnce, Offering
<1> QED
  BY <1>3, <1>4, <1>5, <1>6

LEMMA ApproachOnce ==
    ASSUME MailInv, MailInv', OnceInv, Approach
    PROVE  OnceInv'
<1>1. StoreInv /\ StoreInv' /\ drain \in Drains
  BY DEF MailInv, DrainInv
<1>2. /\ drain.at = "next" /\ Kept /\ used' = used /\ placement' = placement
      /\ drain' = [drain EXCEPT !.at = "claim"]
      /\ pendingInject' = resetBackoff \/ pendingInject' = pendingInject
  BY DEF Approach, At, Goto, Kept, providerVars, history
<1>3. /\ drain'.at = "claim" /\ drain'.list = drain.list /\ drain'.pos = drain.pos
      /\ drain'.known = drain.known /\ drain'.batch = drain.batch /\ drain'.steer = drain.steer
  BY <1>1, <1>2 DEF Drains
<1>4. verifyOf' = verifyOf /\ steerOf' = steerOf
  BY <1>1, <1>2, ViewsKept, ResetViews
<1>5. SessionStable
  BY PresenceStable DEF Approach
<1>6. /\ RowOnce' /\ SeenOnce' /\ EntriesOnce' /\ ClaimsOnce' /\ SnapshotOnce'
      /\ ResultsOnce' /\ BatchOnce' /\ AskedOnce'
  BY <1>2, <1>3, <1>4, <1>5, ApproachesOnce
<1>7. SteerIdOnce'
  BY <1>2, <1>3 DEF OnceInv, SteerIdOnce
<1>8. OpenOnce'
  <2>1. PICK p \in {"idle", "unknown"} : Presence(p)
    BY DEF Approach
  <2>2. pendingDispatch' = NoDispatch
    BY <2>1 DEF Presence, mailInjectPresence
  <2> QED
    BY <1>3, <2>2, IdsApart DEF OpenOnce, NoDispatch
<1> QED
  BY <1>6, <1>7, <1>8 DEF OnceInv

(* A steer id that is taken was never used. *)
LEMMA ApproachSteerOnce ==
    ASSUME MailInv, MailInv', OnceInv, ApproachSteer
    PROVE  OnceInv'
<1>1. StoreInv /\ drain \in Drains /\ CounterTypes /\ EntriesOnce
  BY DEF MailInv, DrainInv, RestInv, OnceInv
<1>2. /\ drain.at = "next" /\ Kept /\ placement' = placement /\ pendingInject' = pendingInject
      /\ drain' = [drain EXCEPT !.at = "claim", !.steer = used.steers + 1]
      /\ Bump("steers") /\ used.steers < MaxSteers
  BY DEF ApproachSteer, Steering, At, Kept, storeVars, providerVars, history
<1>3. /\ drain'.at = "claim" /\ drain'.list = drain.list /\ drain'.pos = drain.pos
      /\ drain'.known = drain.known /\ drain'.batch = drain.batch
      /\ drain'.steer = used.steers + 1
  BY <1>1, <1>2 DEF Drains
<1>4. verifyOf' = verifyOf /\ steerOf' = steerOf
  BY <1>2, ViewsKept
<1>5. SessionStable
  BY PresenceStable DEF ApproachSteer
<1>6. /\ RowOnce' /\ SeenOnce' /\ EntriesOnce' /\ ClaimsOnce' /\ SnapshotOnce'
      /\ ResultsOnce' /\ BatchOnce' /\ AskedOnce'
  BY <1>2, <1>3, <1>4, <1>5, ApproachesOnce
<1>7. used.steers \in Nat /\ used'.steers = used.steers + 1
  BY <1>1, <1>2 DEF CounterTypes, Bump
<1>8. used.steers + 1 \in SteerIds
  BY <1>2, <1>7, IdsApart DEF SteerIds
<1>9. SteerIdOnce'
  <2>1. ASSUME NEW m \in Mail PROVE steerOf'[m] # used.steers + 1
    <3>1. steerOf[m] \in SteerIds \cup {NoRid} /\ SteerOnce(m)
      BY <1>1, StoreViews DEF EntriesOnce
    <3>2. CASE steerOf[m] = NoRid
      BY <1>4, <1>8, <3>2, IdsApart
    <3>3. CASE steerOf[m] # NoRid
      BY <1>4, <1>7, <3>1, <3>3, IdsApart DEF SteerOnce
    <3> QED
      BY <3>2, <3>3
  <2>2. steerLog'[used.steers + 1] = "none"
    BY <1>1, <1>2, <1>7, <1>8 DEF EntriesOnce, Kept
  <2> QED
    BY <1>3, <1>7, <2>1, <2>2 DEF SteerIdOnce, Offering
<1>10. OpenOnce'
  BY <1>3, <1>8, IdsApart DEF OpenOnce
<1> QED
  BY <1>6, <1>9, <1>10 DEF OnceInv

-----------------------------------------------------------------------------
(* Claims. *)

(* A claim of a message that waits and is not verified. *)
LEMMA ClaimedOnce ==
    ASSUME MailInv, MailInv', OnceInv, Kept, used' = used, UNCHANGED sessionVars,
           drain'.at # "settle" \/ drain'.result.what # "verify", NEW x \in Mail,
           Claimable(x, NoRid), beginAgentMailInject(x, drain.steer),
           drain.steer # NoRid => drain.steer <= used.steers /\ steerLog[drain.steer] = "none"
    PROVE  /\ Quiet /\ Spent' = Spent /\ RowOnce' /\ SeenOnce' /\ EntriesOnce'
           /\ placement[x] = "pending" /\ placement'[x] = "submitting"
           /\ \A y \in Mail : y # x => placement'[y] = placement[y] /\ steerOf'[y] = steerOf[y]
           /\ verifyOf' = verifyOf /\ verifyOf[x] = NoRid /\ steerOf'[x] = drain.steer
           /\ steerOf[x] = NoRid /\ x \in Free'
<1>1. /\ StoreInv /\ StoreInv' /\ RestInv /\ CounterTypes /\ drain \in Drains
  BY DEF MailInv, RestInv, DrainInv
<1>2. drain.steer \in SteerIds \cup {NoRid} /\ NoRid \in RidsOrNone
  BY <1>1, DrainFields, IdFacts
<1>3. /\ placement[x] = "pending" /\ verifyOf[x] = NoRid
      /\ placement' = [placement EXCEPT ![x] = "submitting"]
      /\ verifyOf' = verifyOf
      /\ steerOf' = IF drain.steer = NoRid THEN steerOf ELSE [steerOf EXCEPT ![x] = drain.steer]
  BY <1>1, <1>2, ClaimViews
<1>4. SeenOnce /\ VerifyOnce(x)
  BY DEF OnceInv, EntriesOnce
<1>5. steerOf[x] = NoRid /\ x \in Free
  BY <1>3, <1>4 DEF VerifyOnce
<1>6. /\ placement'[x] = "submitting" /\ steerOf'[x] = drain.steer
      /\ \A y \in Mail : y # x => placement'[y] = placement[y] /\ steerOf'[y] = steerOf[y]
  BY <1>1, <1>3, <1>5, StoreViews DEF StoreInv, StoreTypes
<1>7. Doubted' \subseteq Doubted
  BY <1>3, NotVerifying
<1>8. Quiet /\ Spent' = Spent /\ Landed' = Landed
  BY <1>1, <1>7, StillLater
<1>9. x \in Free'
  BY <1>5, <1>8 DEF Quiet, Later
<1>10. VerifyOnce(x)'
  BY <1>3, <1>6 DEF VerifyOnce
<1>11. SteerOnce(x)'
  <2>1. drain.steer # NoRid => drain.steer \notin Landed
    BY <1>2, <1>4, SetFacts DEF SeenOnce
  <2> QED
    BY <1>6, <1>8, <2>1 DEF SteerOnce
<1>12. SteerClaim(x)'
  <2>1. Calm' => x \notin Spent'
    BY <1>9, NextSets DEF SetsRight
  <2> QED
    BY <1>9, <2>1 DEF SteerClaim
<1>13. RowOnce' /\ SeenOnce' /\ EntriesOnce'
  BY <1>3, <1>6, <1>8, <1>10, <1>11, <1>12, ChangeOnce
<1> QED
  BY <1>3, <1>5, <1>6, <1>8, <1>9, <1>13

LEMMA ClaimOnce ==
    ASSUME MailInv, MailInv', OnceInv, Claim
    PROVE  OnceInv'
<1>1. /\ StoreInv /\ StoreInv' /\ DrainInv /\ drain \in Drains
  BY DEF MailInv, DrainInv
<1>2. drain.at = "claim" /\ Kept /\ used' = used /\ UNCHANGED sessionVars
  BY DEF Claim, At, Kept, providerVars, history
<1>3. CASE ~Claimable(Here.id, NoRid)
  <2>1. Advance /\ placement' = placement /\ pendingInject' = pendingInject
    BY <1>3 DEF Claim, storeVars
  <2> QED
    BY <1>2, <2>1, PassesOn, SameSession
<1>4. CASE Claimable(Here.id, NoRid)
  <2>1. drain.pos \in 1..Len(drain.list) /\ Here.id \in Mail
    BY <1>1, <1>2, HereTyped
  <2>2. PICK x \in Mail : x = Here.id
    BY <2>1
  <2>3. PICK next \in {"gather"} \cup (IF drain.steer # NoRid THEN {"settle"} ELSE {}) :
           drain' = [drain EXCEPT !.at = next, !.batch = <<x>>, !.from = 1,
                                  !.result = Result("held", NoRid, FALSE)]
    BY <1>4, <2>2 DEF Claim
  <2>4. next \in {"gather", "settle"}
    OBVIOUS
  <2>5. /\ drain'.at = next /\ drain'.list = drain.list /\ drain'.known = drain.known
        /\ drain'.pos = drain.pos /\ drain'.batch = <<x>> /\ drain'.result.what = "held"
        /\ drain'.steer = drain.steer
    BY <1>1, <2>3 DEF Drains, Result
  <2>6. SnapshotOnce /\ ClaimsOnce /\ SteerIdOnce /\ OpenOnce /\ SeenOnce
    BY DEF OnceInv
  <2>7. drain.steer # NoRid => /\ drain.steer <= used.steers /\ steerLog[drain.steer] = "none"
                               /\ \A m \in Mail : steerOf[m] # drain.steer
    BY <1>2, <2>6 DEF SteerIdOnce
  <2>8. beginAgentMailInject(x, drain.steer)
    BY <1>4, <2>2 DEF Claim
  <2>9. /\ Quiet /\ Spent' = Spent /\ RowOnce' /\ SeenOnce' /\ EntriesOnce'
        /\ placement[x] = "pending" /\ placement'[x] = "submitting"
        /\ \A y \in Mail : y # x => placement'[y] = placement[y] /\ steerOf'[y] = steerOf[y]
        /\ verifyOf' = verifyOf /\ verifyOf[x] = NoRid /\ steerOf'[x] = drain.steer
        /\ x \in Free'
    BY <1>2, <1>4, <2>2, <2>5, <2>7, <2>8, ClaimedOnce
  <2>10. ClaimsOnce' /\ Batch' = {x} /\ Extra' = {}
    BY <1>2, <2>1, <2>4, <2>5, <2>6, <2>9, NothingClaimed, OneClaim DEF Offering
  <2>11. SnapshotOnce'
    <3>1. ToVerify' \subseteq StillAhead
      BY <2>4, <2>5 DEF ToVerify, StillAhead
    <3>1a. StillAhead \subseteq ToVerify
      BY DEF StillAhead
    <3>2. \A k \in StillAhead : drain.list[k].id # x
      BY <1>1, <1>2, <2>2, OthersAhead
    <3> QED
      BY <1>1, <2>5, <2>6, <2>9, <3>1, <3>1a, <3>2, SnapshotKept DEF Quiet
  <2>12. ResultsOnce'
    BY <2>4, <2>5, <2>9, <2>10 DEF ResultsOnce, ResultOnce
  <2>13. BatchOnce'
    BY <2>4, <2>5, <2>9, <2>10 DEF BatchOnce, Offering
  <2>14. SteerIdOnce'
    <3>1. \A m \in Mail : steerOf'[m] = drain.steer /\ drain.steer # NoRid => m = x
      BY <2>7, <2>9
    <3> QED
      BY <1>2, <2>4, <2>5, <2>7, <2>10, <3>1 DEF SteerIdOnce, Offering, Kept
  <2>15. OpenOnce' /\ AskedOnce'
    BY <1>2, <2>4, <2>5, <2>6 DEF OpenOnce, AskedOnce, sessionVars
  <2> QED
    BY <2>9, <2>10, <2>11, <2>12, <2>13, <2>14, <2>15 DEF OnceInv
<1> QED
  BY <1>3, <1>4

(* The offer goes on: the batch and the store stay as they are. *)
LEMMA OfferGoesOn ==
    ASSUME MailInv, OnceInv, placement' = placement, verifyOf' = verifyOf, steerOf' = steerOf,
           drain.at \in Offering \ {"full"}, drain'.at \in (Offering \cup {"settle"}) \ {"full"},
           drain'.list = drain.list, drain'.pos = drain.pos, drain'.known = drain.known,
           drain'.batch = drain.batch, Landed \subseteq Landed', Free \ Batch \subseteq Free'
    PROVE  ClaimsOnce' /\ SnapshotOnce' /\ AskedOnce' /\ Batch' = Batch /\ Extra' = {} /\ Extra = {}
<1>1. drain \in Drains /\ ClaimsOnce /\ SnapshotOnce
  BY DEF MailInv, DrainInv, OnceInv
<1>2. Batch' = Batch /\ Extra' = {} /\ Extra = {}
  BY DEF Batch, Members, Extra
<1>3. InHand' = Batch /\ InHand = Batch
  BY <1>2 DEF InHand
<1>4. ClaimsOnce'
  BY <1>1, <1>2, <1>3 DEF ClaimsOnce, Recovering, Offering
<1>5. ToVerify' \subseteq ToVerify
  BY DEF ToVerify, Offering
<1>6. \A m \in Mail : placement[m] = "pending" => m \notin Batch
  BY <1>1, <1>3 DEF ClaimsOnce
<1>7. SnapshotOnce'
  BY <1>1, <1>5, <1>6, SnapshotPast
<1>8. AskedOnce'
  BY DEF AskedOnce, Offering
<1> QED
  BY <1>2, <1>4, <1>7, <1>8

LEMMA GatheredOnce ==
    ASSUME MailInv, MailInv', OnceInv, Kept, used' = used, UNCHANGED sessionVars, placement' = placement,
           pendingInject' = pendingInject, drain.at = "gather",
           drain'.at \in {"gather", "dispatch", "steer"}, drain'.at = "dispatch" => drain.steer = NoRid,
           drain'.list = drain.list, drain'.pos = drain.pos, drain'.known = drain.known,
           drain'.batch = drain.batch, drain'.steer = drain.steer
    PROVE  OnceInv'
<1>1. verifyOf' = verifyOf /\ steerOf' = steerOf /\ SessionStable
  BY ViewsKept, SameSession
<1>2. Doubted' \subseteq Doubted
  BY <1>1, NotVerifying
<1>3. Quiet /\ RowOnce' /\ SeenOnce' /\ EntriesOnce'
  BY <1>1, <1>2, QuietOnce
<1>4. ClaimsOnce' /\ SnapshotOnce' /\ AskedOnce' /\ Batch' = Batch /\ Extra' = {} /\ Extra = {}
  BY <1>1, <1>3, OfferGoesOn DEF Offering, Quiet, Later
<1>5. BatchOnce /\ SteerIdOnce /\ OpenOnce
  BY DEF OnceInv
<1>6. ResultsOnce' /\ OpenOnce'
  BY <1>5 DEF ResultsOnce, OpenOnce, sessionVars
<1>7. BatchOnce'
  BY <1>1, <1>3, <1>4, <1>5 DEF BatchOnce, Offering, Quiet, Later
<1>8. SteerIdOnce'
  BY <1>1, <1>4, <1>5 DEF SteerIdOnce, Offering, Kept
<1> QED
  BY <1>3, <1>4, <1>6, <1>7, <1>8 DEF OnceInv

(* The batch with one message more. *)
LEMMA AppendBatch ==
    ASSUME drain \in Drains, NEW x \in Mail, drain'.batch = Append(drain.batch, x)
    PROVE  /\ Batch' = Batch \cup {x}
           /\ x \notin Batch /\ (\A i, j \in 1..Len(drain.batch) : drain.batch[i] = drain.batch[j] => i = j) =>
                 \A i, j \in 1..Len(drain'.batch) : drain'.batch[i] = drain'.batch[j] => i = j
<1> DEFINE n == Len(drain.batch)
<1>1. drain.batch \in Seq(Mail) /\ n \in Nat
  BY DrainFields
<1>2. /\ Len(drain'.batch) = n + 1 /\ drain'.batch[n + 1] = x
      /\ \A k \in 1..n : drain'.batch[k] = drain.batch[k]
  BY <1>1
<1> HIDE DEF n
<1>3. Batch = {drain.batch[k] : k \in 1..n} /\ Batch' = {drain'.batch[k] : k \in 1..(n + 1)}
  BY <1>2 DEF Batch, Members, n
<1>4. Batch' = Batch \cup {x}
  BY <1>1, <1>2, <1>3
<1>5. ASSUME x \notin Batch, \A i, j \in 1..n : drain.batch[i] = drain.batch[j] => i = j,
             NEW i \in 1..(n + 1), NEW j \in 1..(n + 1), drain'.batch[i] = drain'.batch[j]
      PROVE  i = j
  <2>1. \A k \in 1..n : drain.batch[k] # x
    BY <1>3, <1>5
  <2> QED
    BY <1>1, <1>2, <1>5, <2>1
<1> QED
  BY <1>2, <1>4, <1>5 DEF n

LEMMA GatherOnce ==
    ASSUME MailInv, MailInv', OnceInv, Gather
    PROVE  OnceInv'
<1>1. /\ DrainInv /\ drain \in Drains /\ ListInv
  BY DEF MailInv, DrainInv
<1>2. drain.at = "gather" /\ Kept /\ used' = used /\ UNCHANGED sessionVars
  BY DEF Gather, At, Kept, providerVars, history
<1> DEFINE over == drain.from > Len(drain.list) \/ Len(drain.batch) >= MaxBatch
           e == drain.list[drain.from]
           joins == e.id # Claimed /\ ~e.deferred /\ e.verify = NoRid /\ Claimable(e.id, NoRid)
<1>3. CASE over
  <2>1. Goto(Offer) /\ UNCHANGED storeVars
    BY <1>3 DEF Gather
  <2>2. /\ drain'.at = Offer /\ drain'.list = drain.list /\ drain'.pos = drain.pos
        /\ drain'.known = drain.known /\ drain'.batch = drain.batch /\ drain'.steer = drain.steer
    BY <1>1, <2>1 DEF Goto, Drains
  <2> QED
    BY <1>2, <2>1, <2>2, GatheredOnce DEF Offer, storeVars
<1>4. CASE ~over /\ ~joins
  <2>1. drain' = [drain EXCEPT !.from = @ + 1] /\ UNCHANGED storeVars
    BY <1>4 DEF Gather
  <2>2. /\ drain'.at = "gather" /\ drain'.list = drain.list /\ drain'.pos = drain.pos
        /\ drain'.known = drain.known /\ drain'.batch = drain.batch /\ drain'.steer = drain.steer
    BY <1>1, <1>2, <2>1 DEF Drains
  <2> QED
    BY <1>2, <2>1, <2>2, GatheredOnce DEF storeVars
<1>5. CASE ~over /\ joins
  <2>1. drain.from \in 1..Len(drain.list)
    BY <1>1, <1>2, <1>5, DrainFields DEF ListInv
  <2>2. e.id \in Mail
    BY <1>1, <2>1, DrainFields
  <2>3. PICK x \in Mail : x = e.id
    BY <2>2
  <2>4. /\ Claimable(x, NoRid) /\ e.verify = NoRid /\ beginAgentMailInject(x, drain.steer)
        /\ \/ drain' = [drain EXCEPT !.batch = Append(@, x), !.from = @ + 1]
           \/ drain' = [drain EXCEPT !.at = "full"]
    BY <1>5, <2>3 DEF Gather, Goto
  <2>5. /\ drain'.list = drain.list /\ drain'.known = drain.known
        /\ drain'.pos = drain.pos /\ drain'.steer = drain.steer
        /\ \/ drain'.at = "gather" /\ drain'.batch = Append(drain.batch, x)
           \/ drain'.at = "full" /\ drain'.batch = drain.batch /\ drain'.from = drain.from
    BY <1>1, <1>2, <2>4 DEF Drains
  <2>6. SnapshotOnce /\ ClaimsOnce /\ BatchOnce /\ SteerIdOnce /\ OpenOnce /\ SeenOnce
    BY DEF OnceInv
  <2>7. drain.steer # NoRid => /\ drain.steer <= used.steers /\ steerLog[drain.steer] = "none"
                               /\ \A m \in Mail : steerOf[m] = drain.steer => m \in Batch \cup Extra
    BY <1>2, <2>6 DEF SteerIdOnce, Offering
  <2>8. /\ Quiet /\ Spent' = Spent /\ RowOnce' /\ SeenOnce' /\ EntriesOnce'
        /\ placement[x] = "pending" /\ placement'[x] = "submitting"
        /\ \A y \in Mail : y # x => placement'[y] = placement[y] /\ steerOf'[y] = steerOf[y]
        /\ verifyOf' = verifyOf /\ verifyOf[x] = NoRid /\ steerOf'[x] = drain.steer
        /\ x \in Free'
    BY <1>2, <2>4, <2>5, <2>7, ClaimedOnce
  <2>9. Extra = {} /\ InHand = Batch /\ drain.pos > 0 /\ Batch \subseteq Mail
    BY <1>1, <1>2, <2>6, DrainFields DEF Extra, InHand, ClaimsOnce, Offering, Batch, Members
  <2>10. x \notin Batch /\ \A m \in Mail : placement[m] = "submitting" <=> m \in Batch
    BY <1>2, <2>6, <2>8, <2>9 DEF ClaimsOnce, Recovering
  <2>11. \A m \in Mail : placement'[m] = "submitting" <=> m \in Batch \cup {x}
    BY <2>8, <2>10
  <2>12. \/ drain'.at = "gather" /\ Batch' = Batch \cup {x} /\ Extra' = {}
         \/ drain'.at = "full" /\ Batch' = Batch /\ Extra' = {x}
    <3>1. drain'.at = "gather" => Extra' = {}
      BY DEF Extra
    <3>2. drain'.at = "gather" => Batch' = Batch \cup {x}
      BY <1>1, <2>5, AppendBatch
    <3>3. drain'.at = "full" => Batch' = Batch /\ Extra' = {x}
      BY <2>3, <2>5 DEF Batch, Members, Extra
    <3> QED
      BY <2>5, <3>1, <3>2, <3>3
  <2>13. InHand' = Batch' /\ Batch' \cup Extra' = Batch \cup {x}
    BY <2>12 DEF InHand, Offering
  <2>14. ClaimsOnce'
    <3>1. \A i, j \in 1..Len(drain'.batch) : drain'.batch[i] = drain'.batch[j] => i = j
      BY <1>1, <2>5, <2>6, <2>10, AppendBatch DEF ClaimsOnce
    <3>2. InHand' \cap Extra' = {}
      BY <2>10, <2>12, <2>13
    <3>3. drain'.at \in {"gather", "full"} /\ drain'.pos > 0
      BY <2>5, <2>9
    <3> QED
      BY <2>9, <2>11, <2>13, <3>1, <3>2, <3>3 DEF ClaimsOnce
  <2>15. SnapshotOnce'
    <3>1. ToVerify' \subseteq ToVerify
      BY <1>2, <2>5 DEF ToVerify
    <3>2. ASSUME NEW k \in ToVerify PROVE drain.list[k].id # x
      <4>1. k \in 1..Len(drain.list) /\ drain.list[k].verify # NoRid
        BY DEF ToVerify
      <4> QED
        BY <1>1, <2>1, <2>3, <2>4, <4>1 DEF ListInv
    <3> QED
      BY <1>1, <2>5, <2>6, <2>8, <3>1, <3>2, SnapshotKept DEF Quiet
  <2>16. ResultsOnce' /\ AskedOnce'
    BY <2>5 DEF ResultsOnce, AskedOnce
  <2>17. BatchOnce'
    <3>1. Batch \subseteq Free' /\ \A m \in Batch : steerOf[m] = drain.steer /\ verifyOf[m] = NoRid
      BY <1>2, <2>6, <2>8 DEF BatchOnce, Offering, Quiet, Later
    <3>2. \A m \in Batch : steerOf'[m] = drain.steer
      BY <2>8, <2>9, <2>10, <3>1
    <3> QED
      BY <2>5, <2>8, <2>13, <3>1, <3>2 DEF BatchOnce, Offering
  <2>18. SteerIdOnce'
    <3>1. drain.steer # NoRid => \A m \in Mail : steerOf'[m] = drain.steer => m \in Batch \cup {x}
      BY <2>7, <2>8, <2>9
    <3> QED
      BY <1>2, <2>5, <2>7, <2>13, <3>1 DEF SteerIdOnce, Offering, Kept
  <2>19. OpenOnce'
    BY <1>2, <2>5, <2>6 DEF OpenOnce, sessionVars
  <2> QED
    BY <2>8, <2>14, <2>15, <2>16, <2>17, <2>18, <2>19 DEF OnceInv
<1> QED
  BY <1>3, <1>4, <1>5

LEMMA GiveBackOnce ==
    ASSUME MailInv, MailInv', OnceInv, GiveBack
    PROVE  OnceInv'
<1>1. /\ StoreInv /\ StoreInv' /\ RestInv /\ CounterTypes /\ DrainInv /\ drain \in Drains /\ ListInv
  BY DEF MailInv, DrainInv, RestInv
<1>2. drain.at = "full" /\ Kept /\ used' = used /\ UNCHANGED sessionVars
  BY DEF GiveBack, At, Kept, providerVars, history
<1>3. drain.list[drain.from].id \in Mail
  BY <1>1, <1>2, DrainFields DEF ListInv
<1>4. PICK x \in Mail : x = drain.list[drain.from].id
  BY <1>3
<1> DEFINE res == Result("held", NoRid, FALSE)
<1>5. finishAgentMailInject(x, res) /\ Goto(Offer)
  BY <1>4 DEF GiveBack
<1>6. res \in Outcomes /\ res.what = "held" /\ ~res.steer
  BY PlainResult DEF Results
<1> HIDE DEF res
<1>7. /\ drain'.at = Offer /\ drain'.list = drain.list /\ drain'.pos = drain.pos
      /\ drain'.known = drain.known /\ drain'.batch = drain.batch /\ drain'.steer = drain.steer
  BY <1>1, <1>5 DEF Goto, Drains
<1>8. Offer = (IF drain.steer = NoRid THEN "dispatch" ELSE "steer")
  BY DEF Offer
<1>9. SnapshotOnce /\ ClaimsOnce /\ BatchOnce /\ SteerIdOnce /\ OpenOnce
  BY DEF OnceInv
<1>10. Extra = {x} /\ InHand = Batch /\ Batch \subseteq Mail
  BY <1>1, <1>2, <1>4, DrainFields DEF Extra, InHand, Offering, Batch, Members
<1>11. placement[x] = "submitting" /\ x \notin Batch /\ x \in Free /\ drain.pos > 0
  BY <1>2, <1>9, <1>10 DEF ClaimsOnce, BatchOnce, Offering
<1>12. /\ placement' = [placement EXCEPT ![x] = "pending"]
       /\ verifyOf' = [verifyOf EXCEPT ![x] = NoRid] /\ steerOf' = [steerOf EXCEPT ![x] = NoRid]
  BY <1>1, <1>5, <1>6, <1>11, FinishViews
<1>13. /\ placement'[x] = "pending" /\ verifyOf'[x] = NoRid /\ steerOf'[x] = NoRid
       /\ \A y \in Mail : y # x => /\ placement'[y] = placement[y] /\ verifyOf'[y] = verifyOf[y]
                                   /\ steerOf'[y] = steerOf[y]
  BY <1>1, <1>12, StoreViews DEF StoreInv, StoreTypes
<1>14. Doubted' \subseteq Doubted
  <2>1. drain'.at # "settle"
    BY <1>7, <1>8
  <2> QED
    BY <1>13, <2>1, IdsApart DEF Doubted, ToBeVerified
<1>15. Quiet /\ Spent' = Spent
  BY <1>1, <1>2, <1>14, StillLater
<1>16. VerifyOnce(x)' /\ SteerOnce(x)' /\ SteerClaim(x)'
  BY <1>11, <1>13, <1>15 DEF VerifyOnce, SteerOnce, SteerClaim, Quiet, Later
<1>17. RowOnce' /\ SeenOnce' /\ EntriesOnce'
  BY <1>2, <1>13, <1>15, <1>16, ChangeOnce
<1>18. Batch' = Batch /\ Extra' = {} /\ InHand' = Batch
  BY <1>7, <1>8 DEF Batch, Members, Extra, InHand, Offering
<1>19. ClaimsOnce'
  <2>1. \A m \in Mail : placement[m] = "submitting" <=> m \in Batch \cup {x}
    BY <1>2, <1>9, <1>10, <1>11 DEF ClaimsOnce, Recovering
  <2>2. \A m \in Mail : placement'[m] = "submitting" <=> m \in Batch
    BY <1>11, <1>13, <2>1
  <2> QED
    BY <1>7, <1>8, <1>9, <1>10, <1>11, <1>18, <2>2 DEF ClaimsOnce
<1>20. SnapshotOnce'
  <2>1. ToVerify' \subseteq ToVerify
    BY <1>2, <1>7, <1>8 DEF ToVerify
  <2> QED
    BY <1>1, <1>7, <1>9, <1>11, <1>13, <1>15, <2>1, SnapshotKept DEF Quiet
<1>21. ResultsOnce' /\ AskedOnce'
  BY <1>7, <1>8 DEF ResultsOnce, AskedOnce
<1>22. BatchOnce'
  <2>1. Batch \subseteq Free' /\ \A m \in Batch : steerOf[m] = drain.steer /\ verifyOf[m] = NoRid
    BY <1>2, <1>9, <1>15 DEF BatchOnce, Offering, Quiet, Later
  <2>2. \A m \in Batch : steerOf'[m] = drain.steer /\ verifyOf'[m] = NoRid
    BY <1>10, <1>11, <1>13, <2>1
  <2> QED
    BY <1>7, <1>8, <1>18, <2>1, <2>2 DEF BatchOnce, Offering
<1>23. SteerIdOnce'
  <2>1. drain.steer # NoRid => /\ drain.steer <= used.steers /\ steerLog[drain.steer] = "none"
                               /\ \A m \in Mail : steerOf[m] = drain.steer => m \in Batch \cup {x}
    BY <1>2, <1>9, <1>10 DEF SteerIdOnce, Offering
  <2>2. drain.steer # NoRid => \A m \in Mail : steerOf'[m] = drain.steer => m \in Batch
    BY <1>13, <2>1
  <2> QED
    BY <1>2, <1>7, <1>8, <1>18, <2>1, <2>2 DEF SteerIdOnce, Offering, Kept
<1>24. OpenOnce'
  BY <1>2, <1>7, <1>8, <1>9 DEF OpenOnce, sessionVars
<1> QED
  BY <1>17, <1>19, <1>20, <1>21, <1>22, <1>23, <1>24 DEF OnceInv

(* The batch with one message less. *)
Distinct(s) == \A i, j \in 1..Len(s) : s[i] = s[j] => i = j

LEMMA OneLess ==
    ASSUME NEW s \in Seq(Mail), NEW k \in 1..Len(s), NEW t, t = Seqs!RemoveAt(s, k), Distinct(s)
    PROVE  Members(t) = Members(s) \ {s[k]} /\ Distinct(t)
<1> DEFINE n == Len(s)
           p(j) == IF j < k THEN j ELSE j + 1
<1>1. n \in Nat /\ k \in 1..n
  BY LenProperties
<1>2. Len(t) = n - 1 /\ \A j \in 1..(n - 1) : t[j] = IF j < k THEN s[j] ELSE s[j + 1]
  BY RemoveAtFacts
<1>2a. \A i, j \in 1..n : s[i] = s[j] => i = j
  BY DEF Distinct
<1> HIDE DEF n
<1>3. \A j \in 1..(n - 1) : t[j] = s[p(j)] /\ p(j) \in (1..n) \ {k}
  BY <1>1, <1>2
<1>4. \A i, j \in 1..(n - 1) : p(i) = p(j) => i = j
  BY <1>1
<1>5. \A j \in (1..n) \ {k} : \E i \in 1..(n - 1) : p(i) = j
  <2> SUFFICES ASSUME NEW j \in (1..n) \ {k} PROVE \E i \in 1..(n - 1) : p(i) = j
    OBVIOUS
  <2>0. j \in Nat /\ j >= 1 /\ j <= n /\ j # k /\ k \in Nat /\ k >= 1 /\ k <= n
    BY <1>1
  <2>1. CASE j < k
    <3>1. p(j) = j /\ j \in 1..(n - 1)
      BY <1>1, <2>0, <2>1
    <3> QED
      BY <3>1
  <2>2. CASE j > k
    <3>1. p(j - 1) = j /\ j - 1 \in 1..(n - 1)
      BY <1>1, <2>0, <2>2
    <3> QED
      BY <3>1
  <2> QED
    BY <2>0, <2>1, <2>2
<1> HIDE DEF p
<1>6. \A i, j \in 1..Len(t) : t[i] = t[j] => i = j
  BY <1>2, <1>2a, <1>3, <1>4
<1>7. ASSUME NEW i \in 1..Len(t) PROVE t[i] \in {s[j] : j \in 1..n} \ {s[k]}
  <2>1. i \in 1..(n - 1)
    BY <1>2
  <2>2. PICK j \in 1..n : j = p(i) /\ j # k /\ t[i] = s[j]
    BY <1>3, <2>1
  <2>3. s[j] # s[k]
    BY <1>1, <1>2a, <2>2
  <2> QED
    BY <2>2, <2>3
<1>8. ASSUME NEW j \in 1..n, s[j] # s[k] PROVE s[j] \in {t[i] : i \in 1..Len(t)}
  <2>1. PICK i \in 1..(n - 1) : p(i) = j
    BY <1>5, <1>8
  <2> QED
    BY <1>2, <1>3, <2>1
<1>9. {t[i] : i \in 1..Len(t)} = {s[j] : j \in 1..n} \ {s[k]}
  BY <1>7, <1>8
<1> QED
  BY <1>6, <1>9 DEF n, Members, Distinct

LEMMA RemoveBatch ==
    ASSUME drain \in Drains, NEW k \in 1..Len(drain.batch),
           \A i, j \in 1..Len(drain.batch) : drain.batch[i] = drain.batch[j] => i = j,
           drain'.batch = Seqs!RemoveAt(drain.batch, k)
    PROVE  /\ Batch' = Batch \ {drain.batch[k]}
           /\ \A i, j \in 1..Len(drain'.batch) : drain'.batch[i] = drain'.batch[j] => i = j
<1>1. drain.batch \in Seq(Mail)
  BY DrainFields
<1>2. PICK s, t : s = drain.batch /\ t = drain'.batch
  OBVIOUS
<1>3. /\ s \in Seq(Mail) /\ k \in 1..Len(s)
      /\ t = Seqs!RemoveAt(s, k) /\ Distinct(s)
  BY <1>1, <1>2 DEF Distinct
<1>4. Members(t) = Members(s) \ {s[k]} /\ Distinct(t)
  BY <1>3, OneLess
<1>5. Batch' = Batch \ {s[k]}
  BY <1>2, <1>4 DEF Batch
<1> QED
  BY <1>2, <1>4, <1>5 DEF Distinct

LEMMA SettleOneOnce ==
    ASSUME MailInv, MailInv', OnceInv, SettleOne
    PROVE  OnceInv'
<1>1. /\ StoreInv /\ StoreInv' /\ RestInv /\ CounterTypes /\ CounterTypes' /\ DrainInv /\ drain \in Drains
      /\ ResultInv
  BY DEF MailInv, DrainInv, RestInv
<1>2. drain.at = "settle" /\ Kept /\ used' = used /\ UNCHANGED sessionVars
  BY DEF SettleOne, At, Kept, providerVars, history
<1>3. PICK k \in 1..Len(drain.batch) :
          /\ finishAgentMailInject(drain.batch[k], drain.result)
          /\ IF Len(drain.batch) = 1 THEN Advance
             ELSE drain' = [drain EXCEPT !.batch = Seqs!RemoveAt(@, k)]
  BY DEF SettleOne
<1>4. drain.batch[k] \in Mail /\ drain.result \in Outcomes
  BY <1>1, DrainFields
<1>5. PICK x \in Mail, res \in Outcomes : x = drain.batch[k] /\ res = drain.result
  BY <1>4
<1>6. SnapshotOnce /\ ClaimsOnce /\ ResultsOnce /\ SteerIdOnce
  BY DEF OnceInv
<1>7. InHand = Batch /\ Extra = {} /\ x \in Batch /\ Batch \subseteq Mail
  BY <1>1, <1>2, <1>5, DrainFields DEF InHand, Extra, Batch, Members
<1>8. placement[x] = "submitting" /\ ResultOnce(x)
  BY <1>2, <1>6, <1>7 DEF ClaimsOnce, ResultsOnce
<1>9. res.steer => res.rid \in SteerIds
  BY <1>1, <1>5 DEF ResultInv
<1>10. PICK r \in RidsOrNone : r = res.rid
  BY DEF Outcomes
<1>11. /\ placement' = [placement EXCEPT ![x] =
              IF res.what = "accepted" THEN "injected"
              ELSE IF res.what = "failed" THEN "failed" ELSE "pending"]
       /\ verifyOf' = [verifyOf EXCEPT ![x] = IF res.what = "verify" THEN res.rid ELSE NoRid]
       /\ steerOf' = [steerOf EXCEPT ![x] =
              IF res.what = "verify" /\ res.steer THEN res.rid ELSE NoRid]
  BY <1>1, <1>3, <1>5, <1>8, <1>9, FinishViews
<1>12. /\ placement'[x] = IF res.what = "accepted" THEN "injected"
                          ELSE IF res.what = "failed" THEN "failed" ELSE "pending"
       /\ verifyOf'[x] = (IF res.what = "verify" THEN r ELSE NoRid)
       /\ steerOf'[x] = (IF res.what = "verify" /\ res.steer THEN r ELSE NoRid)
       /\ \A y \in Mail : y # x => /\ placement'[y] = placement[y] /\ verifyOf'[y] = verifyOf[y]
                                   /\ steerOf'[y] = steerOf[y]
  BY <1>1, <1>10, <1>11, StoreViews DEF StoreInv, StoreTypes
<1>14. Doubted' \subseteq Doubted
  <2>1. ToBeVerified' => res.what = "verify" /\ drain'.result.rid = r
    <3>1. CASE Advance
      BY <1>1, <3>1, AdvanceFacts DEF ToBeVerified
    <3>2. CASE drain' = [drain EXCEPT !.batch = Seqs!RemoveAt(@, k)]
      BY <1>1, <1>5, <1>10, <3>2 DEF ToBeVerified, Drains
    <3> QED
      BY <1>3, <3>1, <3>2
  <2>2. res.what = "verify" /\ r \in Mail => r \in Doubted
    BY <1>2, <1>5, <1>10 DEF Doubted, ToBeVerified
  <2>3. \A y \in Mail : verifyOf'[y] \in {NoRid, verifyOf[y]} \/ (res.what = "verify" /\ verifyOf'[y] = r)
    BY <1>12
  <2>4. \A y \in Mail, d \in Mail : verifyOf[y] = d => d \in Doubted
    BY DEF Doubted
  <2>5. ASSUME NEW d \in Doubted' PROVE d \in Doubted
    <3>1. d \in Mail /\ d # NoRid
      BY <2>5, IdsApart DEF Doubted
    <3>2. (\E y \in Mail : verifyOf'[y] = d) \/ (ToBeVerified' /\ drain'.result.rid = d)
      BY <2>5 DEF Doubted
    <3> QED
      BY <2>1, <2>2, <2>3, <2>4, <3>1, <3>2
  <2> QED
    BY <2>5
<1>15. Quiet /\ Spent' = Spent
  BY <1>1, <1>2, <1>14, StillLater
<1>16. VerifyOnce(x)' /\ SteerOnce(x)' /\ SteerClaim(x)'
  <2>1. SteerClaim(x)'
    BY <1>12 DEF SteerClaim
  <2>2. CASE res.what # "verify"
    <3>1. res.what \in {"held", "retry", "accepted", "failed"}
      BY <2>2 DEF Outcomes, Results
    <3>2. res.what \in {"held", "retry"} => x \in Free'
      BY <1>5, <1>8, <1>15 DEF ResultOnce, Quiet, Later
    <3>3. VerifyOnce(x)' /\ SteerOnce(x)'
      BY <1>12, <3>1, <3>2 DEF VerifyOnce, SteerOnce
    <3> QED
      BY <2>1, <3>3
  <2>3. CASE res.what = "verify"
    <3>1. /\ r \in Mail \cup SteerIds /\ (res.steer <=> r \in SteerIds)
          /\ r \in SteerIds => r <= used.steers
          /\ Doubtful(x, r) /\ (Calm /\ r \in Landed => x \in Got)
      BY <1>5, <1>8, <1>10, <2>3 DEF ResultOnce
    <3>2. r # NoRid /\ r # Typed /\ (r \in SteerIds <=> r \notin Mail) /\ x # Typed
      BY <3>1, IdsApart
    <3>3. Doubtful(x, r)' /\ (Calm' /\ r \in Landed' => x \in Got')
      BY <1>15, <3>1, <3>2 DEF Doubtful, Quiet, Later
    <3>4. verifyOf'[x] = r /\ steerOf'[x] = IF r \in Mail THEN NoRid ELSE r
      BY <1>12, <2>3, <3>1, <3>2
    <3>5. VerifyOnce(x)'
      BY <3>2, <3>3, <3>4 DEF VerifyOnce, Doubtful
    <3>6. SteerOnce(x)'
      BY <1>2, <3>1, <3>2, <3>3, <3>4 DEF SteerOnce
    <3> QED
      BY <2>1, <3>5, <3>6
  <2> QED
    BY <2>2, <2>3
<1>17. RowOnce' /\ SeenOnce' /\ EntriesOnce'
  <2>1. Calm' /\ placement'[x] = "injected" => x \in Got'
    BY <1>5, <1>8, <1>12, <1>15 DEF ResultOnce, Quiet, Later
  <2>2. placement'[x] # "unsent"
    BY <1>12
  <2> QED
    BY <1>2, <1>12, <1>15, <1>16, <2>1, <2>2, ChangeOnce
<1>18. placement'[x] # "submitting"
  BY <1>12
<1>19. CASE Len(drain.batch) = 1
  <2>1. Advance
    BY <1>3, <1>19
  <2>2. Batch = {x}
    BY <1>5, <1>19 DEF Batch, Members
  <2>3. \A m \in Mail : placement'[m] = "submitting" => drain.pos = 0
    BY <1>2, <1>6, <1>7, <1>12, <1>18, <2>2 DEF ClaimsOnce, Recovering
  <2>4. AheadKept
    BY <1>8, <1>12 DEF AheadKept
  <2>5. /\ ClaimsOnce' /\ SnapshotOnce' /\ ResultsOnce' /\ BatchOnce' /\ SteerIdOnce' /\ OpenOnce'
        /\ AskedOnce'
    BY <1>6, <1>15, <2>1, <2>3, <2>4, AdvanceOnce DEF Quiet
  <2> QED
    BY <1>17, <2>5 DEF OnceInv
<1>20. CASE Len(drain.batch) # 1
  <2>1. drain' = [drain EXCEPT !.batch = Seqs!RemoveAt(@, k)]
    BY <1>3, <1>20
  <2>2. /\ drain'.at = "settle" /\ drain'.list = drain.list /\ drain'.pos = drain.pos
        /\ drain'.known = drain.known /\ drain'.batch = Seqs!RemoveAt(drain.batch, k)
        /\ drain'.steer = drain.steer /\ drain'.result = drain.result
    BY <1>1, <1>2, <2>1 DEF Drains
  <2>3. /\ Batch' = Batch \ {x}
        /\ \A i, j \in 1..Len(drain'.batch) : drain'.batch[i] = drain'.batch[j] => i = j
    BY <1>1, <1>5, <1>6, <2>2, RemoveBatch DEF ClaimsOnce
  <2>4. InHand' = Batch' /\ Extra' = {}
    BY <2>2 DEF InHand, Extra, Offering
  <2>5. ClaimsOnce'
    <3>1. \A m \in Mail : placement'[m] = "submitting" => Recovering' \/ m \in Batch'
      BY <1>2, <1>6, <1>7, <1>12, <1>18, <2>2, <2>3 DEF ClaimsOnce, Recovering
    <3>2. \A m \in Batch' : placement'[m] = "submitting"
      BY <1>6, <1>7, <1>12, <2>3 DEF ClaimsOnce
    <3> QED
      BY <2>2, <2>3, <2>4, <3>1, <3>2 DEF ClaimsOnce, Offering
  <2>6. SnapshotOnce'
    <3>1. ToVerify' \subseteq ToVerify
      BY <1>2, <2>2 DEF ToVerify
    <3> QED
      BY <1>1, <1>6, <1>8, <1>12, <1>15, <2>2, <3>1, SnapshotKept DEF Quiet
  <2>7. ResultsOnce'
    <3>1. ASSUME NEW m \in Batch' PROVE ResultOnce(m)'
      <4>1. m \in Mail /\ ResultOnce(m)
        BY <1>2, <1>6, <1>7, <2>3 DEF ResultsOnce
      <4> QED
        BY <1>1, <1>15, <2>2, <4>1, ResultKept
    <3> QED
      BY <2>2, <3>1 DEF ResultsOnce
  <2>8. BatchOnce' /\ SteerIdOnce' /\ OpenOnce' /\ AskedOnce'
    BY <1>2, <1>6, <2>2, ToSettle
  <2> QED
    BY <1>17, <2>5, <2>6, <2>7, <2>8 DEF OnceInv
<1> QED
  BY <1>19, <1>20

-----------------------------------------------------------------------------
(* The offer: what goes out under the lease, and how it ends. *)

LEMMA OfferFacts ==
    ASSUME MailInv, OnceInv, drain.at \in Offering \ {"full"}
    PROVE  /\ Extra = {} /\ InHand = Batch /\ Claimed \in Batch /\ Batch \subseteq Mail
           /\ \A m \in Mail : placement[m] = "submitting" => m \in Batch
           /\ \A m \in Batch : verifyOf[m] = NoRid /\ steerOf[m] = drain.steer
<1>1. drain \in Drains /\ ClaimsOnce /\ BatchOnce /\ BatchInv
  BY DEF MailInv, DrainInv, OnceInv
<1>2. Extra = {} /\ InHand = Batch
  BY DEF Extra, InHand
<1>3. drain.batch \in Seq(Mail) /\ Len(drain.batch) >= 1
  BY <1>1, DrainFields DEF BatchInv
<1>4. Claimed \in Batch /\ Batch \subseteq Mail
  BY <1>3 DEF Claimed, Batch, Members
<1>5. ~Recovering
  BY DEF Recovering, Offering
<1> QED
  BY <1>1, <1>2, <1>4, <1>5 DEF ClaimsOnce, BatchOnce

(* What an offer changes of the injector. *)
OfferMoves ==
    /\ drain.at \in Offering \ {"full"} /\ drain'.list = drain.list /\ drain'.pos = drain.pos
    /\ drain'.known = drain.known /\ drain'.batch = drain.batch /\ drain'.steer = drain.steer
    /\ placement' = placement /\ pendingInject' = pendingInject /\ used' = used

LEMMA OfferedOnce ==
    ASSUME MailInv, MailInv', OnceInv, Kept, OfferMoves, SessionStable,
           drain'.at \in Offering \ {"full"} \/ (drain'.at = "settle" /\ drain'.result.what # "verify")
    PROVE  /\ Quiet /\ RowOnce' /\ SeenOnce' /\ EntriesOnce' /\ ClaimsOnce' /\ SnapshotOnce'
           /\ AskedOnce' /\ Batch' = Batch /\ Extra' = {} /\ Extra = {}
           /\ verifyOf' = verifyOf /\ steerOf' = steerOf
<1>1. verifyOf' = verifyOf /\ steerOf' = steerOf
  BY ViewsKept DEF OfferMoves
<1>2. Doubted' \subseteq Doubted
  BY <1>1, NotVerifying DEF Offering
<1>3. Quiet /\ RowOnce' /\ SeenOnce' /\ EntriesOnce'
  BY <1>1, <1>2, QuietOnce DEF OfferMoves
<1>4. ClaimsOnce' /\ SnapshotOnce' /\ AskedOnce' /\ Batch' = Batch /\ Extra' = {} /\ Extra = {}
  BY <1>1, <1>3, OfferGoesOn DEF OfferMoves, Quiet, Later
<1> QED
  BY <1>1, <1>3, <1>4

(* An offer that ended without a doubt. *)
LEMMA OfferEndsOnce ==
    ASSUME MailInv, MailInv', OnceInv, Kept, OfferMoves, SessionStable, drain'.at = "settle",
           drain'.result.what \in {"held", "retry", "accepted"},
           drain'.result.what # "accepted" => Batch \subseteq Free,
           drain'.result.what = "accepted" /\ Calm => Batch \subseteq Got
    PROVE  OnceInv'
<1>1. /\ Quiet /\ RowOnce' /\ SeenOnce' /\ EntriesOnce' /\ ClaimsOnce' /\ SnapshotOnce'
      /\ AskedOnce' /\ Batch' = Batch
  BY OfferedOnce
<1>2. BatchOnce' /\ SteerIdOnce' /\ OpenOnce'
  <2>1. SteerIdOnce /\ drain.at # "asked"
    BY DEF OnceInv, OfferMoves, Offering
  <2> QED
    BY <2>1, ToSettle DEF OfferMoves
<1>3. \A m \in Batch : /\ drain'.result.what \in {"held", "retry"} => m \in Free'
                       /\ drain'.result.what = "accepted" => (Calm' => m \in Got')
  BY <1>1 DEF Quiet, Later
<1>4. ResultsOnce'
  BY <1>1, <1>3 DEF ResultsOnce, ResultOnce
<1> QED
  BY <1>1, <1>2, <1>4 DEF OnceInv

LEMMA SteerRecordOnce ==
    ASSUME MailInv, MailInv', OnceInv, SteerRecord
    PROVE  OnceInv'
<1>1. drain \in Drains /\ drain.at = "steer" /\ Kept /\ used' = used
  BY DEF MailInv, DrainInv, SteerRecord, At, Kept, providerVars
<1>2. placement' = placement /\ pendingInject' = pendingInject
  BY DEF SteerRecord, storeVars
<1>3. BatchOnce /\ SteerIdOnce /\ OpenOnce
  BY DEF OnceInv
<1>4. Batch \subseteq Free
  BY <1>1, <1>3 DEF BatchOnce, Offering
<1>5. CASE Settle(Result("held", NoRid, FALSE)) /\ UNCHANGED sessionVars
  <2>1. OfferMoves /\ drain'.at = "settle" /\ drain'.result.what = "held"
    BY <1>1, <1>2, <1>5 DEF OfferMoves, Settle, Result, Drains, Offering
  <2>2. SessionStable
    BY <1>5, SameSession
  <2> QED
    BY <1>1, <1>4, <2>1, <2>2, OfferEndsOnce
<1>6. CASE pendingDispatch = NoDispatch /\ Goto("dispatch") /\ UNCHANGED sessionVars
  <2>1. OfferMoves /\ drain'.at = "dispatch"
    BY <1>1, <1>2, <1>6 DEF OfferMoves, Goto, Drains, Offering
  <2>2. SessionStable
    BY <1>6, SameSession
  <2>3. /\ Quiet /\ RowOnce' /\ SeenOnce' /\ EntriesOnce' /\ ClaimsOnce' /\ SnapshotOnce'
        /\ AskedOnce' /\ Batch' = Batch /\ Extra' = {} /\ Extra = {}
        /\ verifyOf' = verifyOf /\ steerOf' = steerOf
    BY <1>1, <2>1, <2>2, OfferedOnce DEF Offering
  <2>4. ResultsOnce'
    BY <2>1 DEF ResultsOnce
  <2>5. BatchOnce'
    BY <1>1, <1>3, <1>4, <2>1, <2>3 DEF BatchOnce, Offering, OfferMoves, Quiet, Later
  <2>6. SteerIdOnce'
    BY <1>1, <1>3, <2>1, <2>3 DEF SteerIdOnce, Offering, OfferMoves
  <2>7. OpenOnce'
    BY <1>6, <2>1, IdsApart DEF OpenOnce, sessionVars, NoDispatch
  <2> QED
    BY <2>3, <2>4, <2>5, <2>6, <2>7 DEF OnceInv
<1>7. CASE /\ pendingDispatch = NoDispatch /\ Goto("steering")
           /\ pendingSteer' = [rid |-> drain.steer, mail |-> Batch]
           /\ UNCHANGED <<pendingDispatch, dispatched, retired>>
  <2>1. OfferMoves /\ drain'.at = "steering"
    BY <1>1, <1>2, <1>7 DEF OfferMoves, Goto, Drains, Offering
  <2>2. SessionStable
    BY <1>7 DEF SessionStable
  <2>3. /\ Quiet /\ RowOnce' /\ SeenOnce' /\ EntriesOnce' /\ ClaimsOnce' /\ SnapshotOnce'
        /\ AskedOnce' /\ Batch' = Batch /\ Extra' = {} /\ Extra = {}
        /\ verifyOf' = verifyOf /\ steerOf' = steerOf
    BY <1>1, <2>1, <2>2, OfferedOnce DEF Offering
  <2>4. ResultsOnce'
    BY <2>1 DEF ResultsOnce
  <2>5. BatchOnce'
    BY <1>1, <1>3, <1>4, <2>1, <2>3 DEF BatchOnce, Offering, OfferMoves, Quiet, Later
  <2>6. SteerIdOnce'
    BY <1>1, <1>3, <2>1, <2>3 DEF SteerIdOnce, Offering, OfferMoves, Kept
  <2>7. OpenOnce'
    BY <1>7, <2>1 DEF OpenOnce, OfferMoves
  <2> QED
    BY <2>3, <2>4, <2>5, <2>6, <2>7 DEF OnceInv
<1> QED
  BY <1>5, <1>6, <1>7 DEF SteerRecord

LEMMA SteerOutcomeOnce ==
    ASSUME MailInv, MailInv', OnceInv, SteerOutcome
    PROVE  OnceInv'
<1>1. /\ drain \in Drains /\ drain.at = "steered" /\ Kept /\ used' = used
      /\ drain.answer \in {"applied", "unknown", "refused", "idle"}
  <2>1. drain \in Drains /\ LeaseInv
    BY DEF MailInv, DrainInv
  <2> QED
    BY <2>1 DEF SteerOutcome, At, Kept, providerVars, history, LeaseInv
<1>2. placement' = placement /\ pendingInject' = pendingInject
  BY DEF SteerOutcome, storeVars
<1>3. BatchOnce /\ SteerIdOnce /\ OpenOnce /\ EntriesOnce
  BY DEF OnceInv
<1>4. pendingDispatch = NoDispatch /\ pendingSteer.rid = drain.steer
  BY <1>1, <1>3 DEF OpenOnce
<1>5. SessionStable /\ pendingDispatch' = NoDispatch
  <2>1. CASE drain.answer = "unknown"
    BY <1>4, <2>1, SameSession DEF SteerOutcome, sessionVars
  <2>2. CASE drain.answer # "unknown"
    <3> DEFINE b == drain.answer = "applied"
    <3>1. completePendingSteer(b) /\ b \in BOOLEAN
      BY <2>2 DEF SteerOutcome
    <3>2. b => pendingSteer.rid \in Landed
      BY <1>1, <1>3, <1>4 DEF SteerIdOnce
    <3> HIDE DEF b
    <3>3. pendingDispatch' = NoDispatch
      BY <1>4, <3>1 DEF completePendingSteer
    <3> QED
      BY <3>1, <3>2, <3>3, CompleteStable
  <2> QED
    BY <2>1, <2>2
<1>6. drain.steer \in SteerIds
  <2>1. LeaseInv
    BY DEF MailInv, DrainInv
  <2> QED
    BY <1>1, <2>1 DEF LeaseInv
<1>7. CASE drain.answer = "applied"
  <2>0. Settle(Result("accepted", NoRid, FALSE))
    BY <1>7 DEF SteerOutcome
  <2>1. OfferMoves /\ drain'.at = "settle" /\ drain'.result.what = "accepted"
    BY <1>1, <1>2, <2>0 DEF OfferMoves, Settle, Result, Drains, Offering
  <2>2. drain.steer \in Landed /\ \A m \in Batch : m \in Mail /\ steerOf[m] = drain.steer
    BY <1>1, <1>3, <1>7, OfferFacts DEF SteerIdOnce, Offering
  <2>3. Calm => Batch \subseteq Got
    BY <1>3, <1>6, <2>2, IdsApart DEF EntriesOnce, SteerOnce
  <2> QED
    BY <1>1, <1>5, <2>1, <2>3, OfferEndsOnce
<1>8. CASE drain.answer = "refused"
  <2>0. Settle(Result("held", NoRid, FALSE))
    BY <1>8 DEF SteerOutcome
  <2>1. OfferMoves /\ drain'.at = "settle" /\ drain'.result.what = "held"
    BY <1>1, <1>2, <2>0 DEF OfferMoves, Settle, Result, Drains, Offering
  <2>2. Batch \subseteq Free
    BY <1>1, <1>3, <1>8 DEF SteerIdOnce
  <2> QED
    BY <1>1, <1>5, <2>1, <2>2, OfferEndsOnce
<1>9. CASE drain.answer = "idle"
  <2>1. OfferMoves /\ drain'.at = "dispatch"
    BY <1>1, <1>2, <1>9 DEF SteerOutcome, OfferMoves, Drains, Offering
  <2>2. Batch \subseteq Free
    BY <1>1, <1>3, <1>9 DEF SteerIdOnce
  <2>3. /\ Quiet /\ RowOnce' /\ SeenOnce' /\ EntriesOnce' /\ ClaimsOnce' /\ SnapshotOnce'
        /\ AskedOnce' /\ Batch' = Batch /\ Extra' = {} /\ Extra = {}
        /\ verifyOf' = verifyOf /\ steerOf' = steerOf
    BY <1>1, <1>5, <2>1, OfferedOnce DEF Offering
  <2>4. ResultsOnce'
    BY <2>1 DEF ResultsOnce
  <2>5. BatchOnce'
    BY <1>1, <1>3, <2>1, <2>2, <2>3 DEF BatchOnce, Offering, OfferMoves, Quiet, Later
  <2>6. SteerIdOnce'
    BY <1>1, <1>3, <2>1, <2>3 DEF SteerIdOnce, Offering, OfferMoves
  <2>7. OpenOnce'
    BY <1>5, <2>1, IdsApart DEF OpenOnce, NoDispatch
  <2> QED
    BY <2>3, <2>4, <2>5, <2>6, <2>7 DEF OnceInv
<1>10. CASE drain.answer = "unknown"
  <2>0. Settle(Result("verify", drain.steer, TRUE))
    BY <1>10 DEF SteerOutcome
  <2>1. /\ OfferMoves /\ drain'.at = "settle" /\ drain'.result.what = "verify"
        /\ drain'.result.rid = drain.steer /\ drain'.result.steer = TRUE
    BY <1>1, <1>2, <2>0 DEF OfferMoves, Settle, Result, Drains, Offering
  <2>2. verifyOf' = verifyOf /\ steerOf' = steerOf
    BY <1>2, ViewsKept
  <2>3. drain.steer \notin Mail
    BY <1>6, IdsApart
  <2>4. Doubted' \subseteq Doubted
    BY <2>1, <2>2, <2>3 DEF Doubted
  <2>5. Quiet /\ RowOnce' /\ SeenOnce' /\ EntriesOnce'
    BY <1>1, <1>2, <1>5, <2>2, <2>4, QuietOnce
  <2>6. ClaimsOnce' /\ SnapshotOnce' /\ AskedOnce' /\ Batch' = Batch
    BY <2>1, <2>2, <2>5, OfferGoesOn DEF OfferMoves, Quiet, Later
  <2>7. BatchOnce' /\ SteerIdOnce' /\ OpenOnce'
    BY <1>1, <1>3, <2>1, ToSettle DEF OfferMoves
  <2>8. ASSUME NEW m \in Batch PROVE ResultOnce(m)'
    <3>1. PICK s \in SteerIds : s = drain.steer
      BY <1>6
    <3>2. s <= used'.steers
      BY <1>1, <1>3, <1>6, <3>1, IdsApart DEF SteerIdOnce
    <3>3. s \in Landed \/ m \in Free
      BY <1>1, <1>3, <1>10, <3>1 DEF SteerIdOnce
    <3>4. Calm => m \notin Spent
      BY <1>1, <1>3 DEF SteerIdOnce
    <3>5. m \in Mail /\ steerOf[m] = s /\ m # Typed
      BY <1>1, <3>1, OfferFacts, IdsApart DEF Offering
    <3>6. Calm /\ s \in Landed => m \in Got
      BY <1>3, <3>5, IdsApart DEF EntriesOnce, SteerOnce
    <3>7. s \in Landed' => s \in Landed
      BY <2>5, IdsApart DEF Quiet
    <3>8. Doubtful(m, s)'
      BY <2>5, <3>3, <3>4, <3>5, IdsApart DEF Doubtful, Quiet, Later
    <3>9. Calm' /\ s \in Landed' => m \in Got'
      BY <2>5, <3>6, <3>7 DEF Quiet, Later
    <3> QED
      BY <2>1, <3>1, <3>2, <3>8, <3>9 DEF ResultOnce, Doubtful
  <2>9. ResultsOnce'
    BY <2>1, <2>6, <2>8 DEF ResultsOnce
  <2> QED
    BY <2>5, <2>6, <2>7, <2>9 DEF OnceInv
<1> QED
  BY <1>1, <1>7, <1>8, <1>9, <1>10

LEMMA DispatchEarlyOnce ==
    ASSUME MailInv, MailInv', OnceInv, DispatchEarly
    PROVE  OnceInv'
<1>1. /\ drain \in Drains /\ drain.at = "dispatch" /\ Kept /\ used' = used /\ SessionTypes
      /\ placement' = placement /\ pendingInject' = pendingInject
  BY DEF MailInv, DrainInv, RestInv, DispatchEarly, At, Kept, providerVars, history, storeVars
<1>2. BatchOnce /\ OpenOnce /\ RowOnce /\ SeenOnce
  BY DEF OnceInv
<1>3. Batch \subseteq Free /\ pendingDispatch.rid \notin Mail /\ Claimed \in Batch /\ Batch \subseteq Mail
  BY <1>1, <1>2, OfferFacts DEF BatchOnce, OpenOnce, Offering
<1>4. PICK what \in {"retry", "held", "accepted"} :
          /\ Settle(Result(what, NoRid, FALSE))
          /\ \/ UNCHANGED sessionVars /\ what # "accepted"
             \/ /\ what = "accepted" /\ pendingDispatch.rid \in {NoRid, Claimed}
                /\ Claimed \in dispatched /\ pendingDispatch' = NoDispatch
                /\ UNCHANGED <<pendingSteer, dispatched, retired>>
  BY DEF DispatchEarly
<1>5. OfferMoves /\ drain'.at = "settle" /\ drain'.result.what = what
  BY <1>1, <1>4 DEF OfferMoves, Settle, Result, Drains, Offering
<1>6. SessionStable
  <2>1. CASE UNCHANGED sessionVars
    BY <2>1, SameSession
  <2>2. CASE what = "accepted"
    <3>1. pendingDispatch = NoDispatch
      BY <1>1, <1>3, <1>4, <2>2, IdsApart DEF SessionTypes, Rows
    <3> QED
      BY <1>4, <2>2, <3>1 DEF SessionStable
  <2> QED
    BY <1>4, <2>1, <2>2
<1>7. what = "accepted" /\ Calm => Batch \subseteq Got
  <2>1. SUFFICES ASSUME what = "accepted", Calm PROVE FALSE
    OBVIOUS
  <2>2. Claimed \in dispatched
    BY <1>4, <2>1
  <2>3. Claimed \in Spent
    BY <1>2, <1>3, <2>2, SetFacts DEF RowOnce
  <2> QED
    BY <1>3, <2>1, <2>3, SetFacts
<1> QED
  BY <1>1, <1>3, <1>5, <1>6, <1>7, OfferEndsOnce

LEMMA ReleaseOnce ==
    ASSUME MailInv, MailInv', OnceInv, Release
    PROVE  OnceInv'
<1>1. /\ drain \in Drains /\ drain.at = "release" /\ Kept /\ used' = used
      /\ placement' = placement /\ pendingInject' = pendingInject
      /\ Settle(Result("held", NoRid, FALSE))
  BY DEF MailInv, DrainInv, Release, At, Kept, providerVars, history, storeVars
<1>2. SessionStable
  BY DEF Release, SessionStable
<1>3. OfferMoves /\ drain'.at = "settle" /\ drain'.result.what = "held"
  BY <1>1 DEF OfferMoves, Settle, Result, Drains, Offering
<1>4. Batch \subseteq Free
  BY <1>1 DEF OnceInv, BatchOnce, Offering
<1> QED
  BY <1>1, <1>2, <1>3, <1>4, OfferEndsOnce

(* The row is opened and closed under the lease. *)
LEMMA RowStepOnce ==
    ASSUME MailInv, MailInv', OnceInv, Kept, OfferMoves, RowOnce',
           \A m \in Batch : steerOf[m] # NoRid => SteerClaim(m)',
           drain'.at \in Offering \ {"full"} \/ (drain'.at = "settle" /\ drain'.result.what # "verify")
    PROVE  /\ Quiet /\ Spent' = Spent /\ SeenOnce' /\ EntriesOnce' /\ ClaimsOnce' /\ SnapshotOnce'
           /\ AskedOnce' /\ Batch' = Batch /\ Extra' = {} /\ Extra = {}
           /\ verifyOf' = verifyOf /\ steerOf' = steerOf
<1>1. /\ StoreInv /\ CounterTypes /\ CounterTypes' /\ SeenOnce /\ EntriesOnce
  BY DEF MailInv, RestInv, OnceInv
<1>2. verifyOf' = verifyOf /\ steerOf' = steerOf /\ used' = used /\ placement' = placement
  BY ViewsKept DEF OfferMoves
<1>3. Doubted' \subseteq Doubted
  BY <1>2, NotVerifying DEF Offering
<1>4. Quiet /\ Spent' = Spent /\ Landed' = Landed
  BY <1>1, <1>2, <1>3, StillLater
<1>5. MailOnce'
  BY <1>1, OnceKept DEF SeenOnce
<1>6. SeenOnce'
  BY <1>1, <1>2, <1>4, <1>5, SeenKept
<1>7. \A m \in Mail : VerifyOnce(m)'
  BY <1>1, <1>2, <1>4, VerifyKept DEF EntriesOnce
<1>8. \A m \in Mail : SteerOnce(m)'
  BY <1>1, <1>2, <1>4, SteerKept DEF EntriesOnce
<1>9. \A m \in Mail : SteerClaim(m)'
  <2>1. drain.at \in Offering \ {"full"}
    BY DEF OfferMoves
  <2>2. \A m \in Mail : placement[m] = "submitting" => m \in Batch
    BY <2>1, OfferFacts
  <2> QED
    BY <1>2, <2>2 DEF SteerClaim
<1>10. EntriesOnce'
  <2>1. \A s \in SteerIds : s > used'.steers => steerLog'[s] = "none"
    BY <1>1, <1>2 DEF EntriesOnce, Kept
  <2> QED
    BY <1>7, <1>8, <1>9, <2>1 DEF EntriesOnce
<1>11. ClaimsOnce' /\ SnapshotOnce' /\ AskedOnce' /\ Batch' = Batch /\ Extra' = {} /\ Extra = {}
  BY <1>2, <1>4, OfferGoesOn DEF OfferMoves, Quiet, Later
<1> QED
  BY <1>2, <1>4, <1>6, <1>10, <1>11

(* What may be offered keeps its claim, whatever happens to the row. *)
LEMMA FreeClaim ==
    ASSUME MailInv, Kept, used' = used, Doubted' \subseteq Doubted, NEW m \in Free
    PROVE  SteerClaim(m)' /\ m \in Free' /\ (Calm => m \notin Spent)
<1>1. Quiet /\ Spent' = Spent
  BY StillLater DEF MailInv, RestInv
<1>2. m \in Free' /\ (Calm' => Calm)
  BY <1>1 DEF Quiet, Later
<1>3. (Calm => m \notin Spent)
  BY SetFacts
<1> QED
  BY <1>1, <1>2, <1>3 DEF SteerClaim

LEMMA DispatchOnce ==
    ASSUME MailInv, MailInv', OnceInv, Undisturbed, Dispatch
    PROVE  OnceInv'
<1>1. /\ drain \in Drains /\ drain.at = "dispatch" /\ Kept /\ used' = used /\ SessionTypes
      /\ placement' = placement /\ pendingInject' = pendingInject
      /\ UNCHANGED <<pendingSteer, dispatched, retired, lost>> /\ Claimed \notin dispatched
  BY DEF MailInv, DrainInv, RestInv, Dispatch, At, Kept, providerVars, history, storeVars
<1>2. BatchOnce /\ OpenOnce /\ RowOnce /\ SteerIdOnce
  BY DEF OnceInv
<1>3. Batch \subseteq Free /\ pendingDispatch.rid \notin Mail /\ Claimed \in Batch /\ Batch \subseteq Mail
  BY <1>1, <1>2, OfferFacts DEF BatchOnce, OpenOnce, Offering
<1>4. Claimed \notin Spent
  <2>1. CASE Calm
    BY <1>3, <2>1, SetFacts
  <2>2. CASE Lossless
    BY <1>1, <1>2, <1>3, <2>2 DEF RowOnce, Unsettled
  <2> QED
    BY <2>1, <2>2 DEF Undisturbed
<1>5. PICK x \in Mail : x = Claimed
  BY <1>3
<1>6. pendingDispatch' = [rid |-> x, mail |-> Batch, refused |-> FALSE]
  BY <1>5 DEF Dispatch
<1>7. OfferMoves /\ drain'.at = "sending"
  BY <1>1 DEF Dispatch, OfferMoves, Drains, Offering
<1>8. Spent' = Spent /\ Landed' = Landed /\ (Lossless' <=> Lossless)
  BY <1>1, SameSets DEF Lossless
<1>9. RowOnce'
  <2>1. Lossless' => lost' = {} /\ retired' = NoRid
    BY <1>1, <1>2, <1>8 DEF RowOnce
  <2>2. Lossless' => \A r \in Mail \cap Spent' : r \in dispatched'
    BY <1>1, <1>2, <1>3, <1>8 DEF RowOnce, Unsettled
  <2>3. dispatched' \subseteq Landed'
    BY <1>1, <1>2, <1>8 DEF RowOnce
  <2>4. ~pendingDispatch'.refused
    BY <1>6
  <2> QED
    BY <2>1, <2>2, <2>3, <2>4 DEF RowOnce
<1>10. verifyOf' = verifyOf
  BY <1>1, ViewsKept
<1>11. Doubted' \subseteq Doubted
  BY <1>7, <1>10, NotVerifying
<1>12. \A m \in Batch : SteerClaim(m)'
  BY <1>1, <1>3, <1>11, FreeClaim
<1>13. /\ Quiet /\ SeenOnce' /\ EntriesOnce' /\ ClaimsOnce' /\ SnapshotOnce'
       /\ AskedOnce' /\ Batch' = Batch /\ Extra' = {} /\ Extra = {}
       /\ verifyOf' = verifyOf /\ steerOf' = steerOf
  BY <1>1, <1>7, <1>9, <1>12, RowStepOnce DEF Offering
<1>14. ResultsOnce'
  BY <1>7 DEF ResultsOnce
<1>15. BatchOnce'
  BY <1>1, <1>2, <1>3, <1>7, <1>13 DEF BatchOnce, Offering, OfferMoves, Quiet, Later
<1>16. SteerIdOnce'
  BY <1>1, <1>2, <1>7, <1>13 DEF SteerIdOnce, Offering, OfferMoves
<1>17. Claimed' = x
  BY <1>5, <1>7 DEF Claimed, OfferMoves
<1>18. OpenOnce'
  <2>1. Unsettled(Claimed)'
    BY <1>6, <1>17 DEF Unsettled
  <2> QED
    BY <1>4, <1>5, <1>7, <1>8, <1>17, <2>1 DEF OpenOnce
<1> QED
  BY <1>9, <1>13, <1>14, <1>15, <1>16, <1>18 DEF OnceInv

LEMMA HoldOnce ==
    ASSUME MailInv, MailInv', OnceInv, Hold
    PROVE  OnceInv'
<1>1. /\ drain \in Drains /\ drain.at = "sending" /\ Kept /\ used' = used
      /\ placement' = placement /\ pendingInject' = pendingInject
      /\ UNCHANGED <<pendingSteer, dispatched, retired, lost>> /\ pendingDispatch' = NoDispatch
      /\ Settle(Result("held", NoRid, FALSE))
  BY DEF MailInv, DrainInv, Hold, At, Kept, providerVars, history, storeVars
<1>2. BatchOnce /\ OpenOnce /\ RowOnce /\ SteerIdOnce
  BY DEF OnceInv
<1>3. Batch \subseteq Free /\ Unsettled(Claimed) /\ Claimed \notin Spent
  BY <1>1, <1>2 DEF BatchOnce, OpenOnce, Offering
<1>4. OfferMoves /\ drain'.at = "settle" /\ drain'.result.what = "held"
  BY <1>1 DEF OfferMoves, Settle, Result, Drains, Offering
<1>5. Spent' = Spent /\ Landed' = Landed /\ (Lossless' <=> Lossless)
  BY <1>1, SameSets DEF Lossless
<1>6. RowOnce'
  BY <1>1, <1>2, <1>3, <1>5 DEF RowOnce, Unsettled, NoDispatch
<1>7. verifyOf' = verifyOf
  BY <1>1, ViewsKept
<1>8. Doubted' \subseteq Doubted
  BY <1>4, <1>7, NotVerifying
<1>9. \A m \in Batch : SteerClaim(m)' /\ m \in Free'
  BY <1>1, <1>3, <1>8, FreeClaim
<1>10. /\ SeenOnce' /\ EntriesOnce' /\ ClaimsOnce' /\ SnapshotOnce' /\ AskedOnce' /\ Batch' = Batch
  BY <1>1, <1>4, <1>6, <1>9, RowStepOnce
<1>11. ResultsOnce'
  BY <1>4, <1>9, <1>10 DEF ResultsOnce, ResultOnce
<1>12. BatchOnce' /\ SteerIdOnce' /\ OpenOnce'
  BY <1>1, <1>2, <1>4, ToSettle DEF OfferMoves
<1> QED
  BY <1>6, <1>10, <1>11, <1>12 DEF OnceInv

LEMMA RecordRefusalOnce ==
    ASSUME MailInv, MailInv', OnceInv, RecordRefusal
    PROVE  OnceInv'
<1>1. /\ drain \in Drains /\ drain.at = "refused" /\ Kept /\ used' = used
      /\ placement' = placement /\ pendingInject' = pendingInject
      /\ UNCHANGED <<pendingSteer, dispatched, retired, lost>>
      /\ pendingDispatch' = [pendingDispatch EXCEPT !.refused = TRUE] /\ Goto("release")
      /\ SessionTypes
  BY DEF MailInv, DrainInv, RestInv, RecordRefusal, At, Kept, providerVars, history, storeVars
<1>2. BatchOnce /\ OpenOnce /\ RowOnce /\ SteerIdOnce
  BY DEF OnceInv
<1>3. /\ Batch \subseteq Free /\ Unsettled(Claimed) /\ Claimed \notin Spent
      /\ Claimed \in Batch /\ Batch \subseteq Mail
  BY <1>1, <1>2, OfferFacts DEF BatchOnce, OpenOnce, Offering
<1>4. OfferMoves /\ drain'.at = "release"
  BY <1>1 DEF OfferMoves, Goto, Drains, Offering
<1>5. Spent' = Spent /\ Landed' = Landed /\ (Lossless' <=> Lossless)
  BY <1>1, SameSets DEF Lossless
<1>6. verifyOf' = verifyOf
  BY <1>1, ViewsKept
<1>7. Doubted' \subseteq Doubted
  BY <1>4, <1>6, NotVerifying
<1>8. \A m \in Batch : SteerClaim(m)' /\ m \in Free'
  BY <1>1, <1>3, <1>7, FreeClaim
<1>9. pendingDispatch'.rid = pendingDispatch.rid /\ pendingDispatch'.refused
  BY <1>1 DEF SessionTypes, Rows, NoDispatch
<1>10. RowOnce'
  <2>1. Lossless' => lost' = {} /\ retired' = NoRid
    BY <1>1, <1>2, <1>5 DEF RowOnce
  <2>2. Lossless' => \A r \in Mail \cap Spent' : r \in dispatched'
    BY <1>1, <1>2, <1>3, <1>5 DEF RowOnce, Unsettled
  <2>3. dispatched' \subseteq Landed'
    BY <1>1, <1>2, <1>5 DEF RowOnce
  <2>4. pendingDispatch'.rid \in Free' \ Spent'
    BY <1>3, <1>5, <1>8, <1>9 DEF Unsettled
  <2> QED
    BY <2>1, <2>2, <2>3, <2>4 DEF RowOnce
<1>11. /\ Quiet /\ SeenOnce' /\ EntriesOnce' /\ ClaimsOnce' /\ SnapshotOnce'
       /\ AskedOnce' /\ Batch' = Batch /\ Extra' = {} /\ Extra = {}
       /\ verifyOf' = verifyOf /\ steerOf' = steerOf
  BY <1>1, <1>4, <1>8, <1>10, RowStepOnce DEF Offering
<1>12. ResultsOnce'
  BY <1>4 DEF ResultsOnce
<1>13. BatchOnce'
  BY <1>1, <1>2, <1>3, <1>4, <1>11 DEF BatchOnce, Offering, OfferMoves, Quiet, Later
<1>14. SteerIdOnce'
  BY <1>1, <1>2, <1>4, <1>11 DEF SteerIdOnce, Offering, OfferMoves
<1>15. OpenOnce'
  BY <1>4, <1>9 DEF OpenOnce
<1> QED
  BY <1>10, <1>11, <1>12, <1>13, <1>14, <1>15 DEF OnceInv

LEMMA RecordOnce ==
    ASSUME MailInv, MailInv', OnceInv, Record
    PROVE  OnceInv'
<1>1. /\ drain \in Drains /\ drain.at = "record" /\ Kept /\ used' = used
      /\ placement' = placement /\ pendingInject' = pendingInject
      /\ UNCHANGED <<pendingSteer, lost>> /\ pendingDispatch' = NoDispatch /\ retired' = NoRid
      /\ Settle(Result("accepted", NoRid, FALSE))
  BY DEF MailInv, DrainInv, Record, At, Kept, providerVars, history, storeVars
<1>2. BatchOnce /\ OpenOnce /\ RowOnce /\ SteerIdOnce /\ EntriesOnce /\ ClaimsOnce
  BY DEF OnceInv
<1>3. /\ Unsettled(Claimed) /\ Claimed \in Spent /\ (Calm => Batch \subseteq Got)
      /\ Batch \subseteq Mail /\ Claimed \in Batch /\ InHand = Batch
  BY <1>1, <1>2, OfferFacts DEF BatchOnce, OpenOnce, Offering
<1>4. PICK x \in Mail : x = Claimed
  BY <1>3
<1>4a. dispatched' = dispatched \cup {x}
  BY <1>4 DEF Record
<1>5. OfferMoves /\ drain'.at = "settle" /\ drain'.result.what = "accepted"
  BY <1>1 DEF OfferMoves, Settle, Result, Drains, Offering
<1>6. Spent' = Spent /\ Landed' = Landed /\ Got' = Got /\ (Lossless' <=> Lossless) /\ (Calm' <=> Calm)
  BY <1>1, SameSets DEF Lossless, Calm
<1>7. RowOnce'
  <2>1. Lossless' => lost' = {} /\ retired' = NoRid
    BY <1>1, <1>2, <1>6 DEF RowOnce
  <2>2. Lossless' => \A r \in Mail \cap Spent' : r \in dispatched'
    BY <1>2, <1>3, <1>4, <1>4a, <1>6 DEF RowOnce, Unsettled
  <2>3. dispatched' \subseteq Landed'
    BY <1>2, <1>3, <1>4, <1>4a, <1>6, SetFacts DEF RowOnce
  <2> QED
    BY <1>1, <2>1, <2>2, <2>3 DEF RowOnce, NoDispatch
<1>8. verifyOf' = verifyOf /\ steerOf' = steerOf
  BY <1>1, ViewsKept
<1>9. Doubted' \subseteq Doubted
  BY <1>5, <1>8, NotVerifying
<1>10. Free \subseteq Free'
  BY <1>1, <1>9, StillLater DEF MailInv, RestInv, Quiet, Later
<1>11. ASSUME NEW m \in Batch, steerOf[m] # NoRid PROVE SteerClaim(m)'
  <2>1. m \in Mail /\ placement[m] = "submitting" /\ SteerClaim(m)
    BY <1>2, <1>3, <1>11 DEF ClaimsOnce, EntriesOnce
  <2>2. Unsettled(m) => m = x
    BY <1>3, <1>4 DEF Unsettled
  <2>3. pendingDispatch # NoDispatch
    BY <1>3, IdsApart DEF Unsettled, NoDispatch
  <2>4. m \in Free' \/ m \in Spent' \/ steerOf'[m] \in Landed'
    BY <1>3, <1>4, <1>6, <1>8, <1>10, <1>11, <2>1, <2>2 DEF SteerClaim
  <2>5. Calm' /\ m \in Spent' => m \in dispatched'
    BY <1>4a, <1>6, <1>11, <2>1, <2>2, <2>3 DEF SteerClaim
  <2> QED
    BY <2>4, <2>5 DEF SteerClaim
<1>12. /\ SeenOnce' /\ EntriesOnce' /\ ClaimsOnce' /\ SnapshotOnce' /\ AskedOnce' /\ Batch' = Batch
  BY <1>1, <1>5, <1>7, <1>11, RowStepOnce
<1>13. ResultsOnce'
  BY <1>3, <1>5, <1>6, <1>12 DEF ResultsOnce, ResultOnce
<1>14. BatchOnce' /\ SteerIdOnce' /\ OpenOnce'
  BY <1>1, <1>2, <1>5, ToSettle DEF OfferMoves
<1> QED
  BY <1>7, <1>12, <1>13, <1>14 DEF OnceInv

-----------------------------------------------------------------------------
(* The batch goes out under the id z, and may reach the agent. *)

LEMMA CarriedOnce ==
    ASSUME MailInv, MailInv', OnceInv, OfferMoves, UNCHANGED sessionVars, lost' = lost,
           drain'.at \in (Offering \cup {"settle"}) \ {"full"},
           NEW z \in Mail \cup SteerIds,
           Spent \subseteq Spent', Spent' \subseteq Spent \cup (Batch \cap {z}),
           Landed \subseteq Landed', Landed' \subseteq Landed \cup {z},
           Got \subseteq Got', z \in Landed' /\ z \notin Landed => Batch \subseteq Got',
           Clean \ Batch \subseteq Clean', Free \ Batch \subseteq Free', MailOnce',
           ~pendingDispatch.refused, z \in Spent' => z \in Spent \/ Unsettled(z),
           \A m \in Mail \ Batch : /\ Calm => verifyOf[m] # z
                                   /\ steerOf[m] # z,
           \A m \in Batch : steerOf[m] # NoRid => SteerClaim(m)',
           \A s \in SteerIds : s > used.steers => steerLog'[s] = "none"
    PROVE  /\ RowOnce' /\ SeenOnce' /\ EntriesOnce' /\ ClaimsOnce' /\ SnapshotOnce'
           /\ AskedOnce' /\ Batch' = Batch /\ Extra' = {} /\ Extra = {}
           /\ verifyOf' = verifyOf /\ steerOf' = steerOf
<1>1. /\ verifyOf' = verifyOf /\ steerOf' = steerOf /\ used' = used /\ placement' = placement
      /\ drain.at \in Offering \ {"full"}
  BY ViewsKept DEF OfferMoves
<1>2. (Calm' <=> Calm) /\ (Lossless' <=> Lossless)
  BY <1>1 DEF Calm, Lossless
<1>3. RowOnce /\ SeenOnce /\ EntriesOnce /\ ClaimsOnce
  BY DEF OnceInv
<1>4. /\ Batch \subseteq Mail /\ (\A m \in Mail : placement[m] = "submitting" => m \in Batch)
      /\ (\A m \in Batch : placement[m] = "submitting" /\ verifyOf[m] = NoRid)
  BY <1>1, <1>3, OfferFacts DEF ClaimsOnce
<1>5. RowOnce'
  <2>1. Lossless' => lost' = {} /\ retired' = NoRid
    BY <1>2, <1>3 DEF RowOnce, sessionVars
  <2>2. Lossless' => \A r \in Mail \cap Spent' : r \in dispatched' \/ Unsettled(r)'
    BY <1>2, <1>3 DEF RowOnce, Unsettled, sessionVars
  <2>3. dispatched' \subseteq Landed' /\ ~pendingDispatch'.refused
    BY <1>3 DEF RowOnce, sessionVars
  <2> QED
    BY <2>1, <2>2, <2>3 DEF RowOnce
<1>6. SeenOnce'
  <2>1. Mail \cap Spent' \subseteq Got'
    BY <1>3, <1>4, NextSets, SetFacts DEF SeenOnce, SetsRight
  <2>2. SteerIds \cap Spent' = {}
    BY <1>3, <1>4, IdsApart DEF SeenOnce
  <2>3. \A m \in Mail : placement'[m] = "unsent" => m \in Free'
    BY <1>1, <1>3, <1>4 DEF SeenOnce
  <2>4. Calm' => \A m \in Mail : placement'[m] = "injected" => m \in Got'
    BY <1>1, <1>2, <1>3 DEF SeenOnce
  <2> QED
    BY <2>1, <2>2, <2>3, <2>4 DEF SeenOnce
<1>7. ASSUME NEW m \in Mail PROVE VerifyOnce(m)'
  <2>0. VerifyOnce(m)
    BY <1>3 DEF EntriesOnce
  <2>1. CASE m \in Batch
    BY <1>1, <1>4, <2>1 DEF VerifyOnce
  <2>2. CASE m \notin Batch /\ verifyOf[m] = NoRid
    BY <1>1, <2>0, <2>2 DEF VerifyOnce
  <2>3. CASE m \notin Batch /\ verifyOf[m] # NoRid
    <3>1. PICK v : v = verifyOf[m]
      OBVIOUS
    <3>2. /\ v # Typed /\ steerOf[m] = (IF v \in Mail THEN NoRid ELSE v)
          /\ Doubtful(m, v) /\ (Calm /\ v \in Landed => m \in Got)
      BY <2>0, <2>3, <3>1 DEF VerifyOnce
    <3>3. Doubtful(m, v)'
      BY <1>2, <2>3, <3>2 DEF Doubtful
    <3>4. Calm' /\ v \in Landed' => m \in Got'
      BY <1>2, <2>3, <3>1, <3>2
    <3> QED
      BY <1>1, <2>3, <3>1, <3>2, <3>3, <3>4 DEF VerifyOnce, Doubtful
  <2> QED
    BY <2>1, <2>2, <2>3
<1>8. ASSUME NEW m \in Mail PROVE SteerOnce(m)'
  <2>0. SteerOnce(m)
    BY <1>3 DEF EntriesOnce
  <2>1. steerOf[m] = z => m \in Batch
    OBVIOUS
  <2> QED
    BY <1>1, <1>2, <2>0, <2>1 DEF SteerOnce
<1>9. \A m \in Mail : SteerClaim(m)'
  BY <1>1, <1>4 DEF SteerClaim
<1>10. EntriesOnce'
  BY <1>1, <1>7, <1>8, <1>9 DEF EntriesOnce
<1>11. ClaimsOnce' /\ SnapshotOnce' /\ AskedOnce' /\ Batch' = Batch /\ Extra' = {} /\ Extra = {}
  BY <1>1, OfferGoesOn DEF OfferMoves
<1> QED
  BY <1>1, <1>5, <1>6, <1>10, <1>11

LEMMA SteerSendOnce ==
    ASSUME MailInv, MailInv', OnceInv, SteerSend
    PROVE  OnceInv'
<1>1. /\ drain \in Drains /\ drain.at = "steering" /\ UNCHANGED sessionVars
      /\ used' = used /\ ProviderTypes /\ HistoryTypes /\ LeaseInv /\ CounterTypes
      /\ placement' = placement /\ pendingInject' = pendingInject
      /\ UNCHANGED <<taken, lost, resent, strays>>
  BY DEF MailInv, DrainInv, RestInv, SteerSend, At, history, storeVars
<1>2. BatchOnce /\ OpenOnce /\ SeenOnce /\ SteerIdOnce /\ EntriesOnce
  BY DEF OnceInv
<1>3. PICK s \in SteerIds : s = drain.steer
  BY <1>1 DEF LeaseInv
<1>4. PICK answer \in {"applied", "idle", "refused", "unknown"} :
          PerformSteer(s, Batch, answer) /\ drain' = [drain EXCEPT !.at = "steered", !.answer = answer]
  BY <1>3 DEF SteerSend
<1>5. OfferMoves /\ drain'.at = "steered" /\ drain'.answer = answer
  BY <1>1, <1>4 DEF OfferMoves, Drains, Offering
<1>6. /\ Batch \subseteq Free /\ Batch \subseteq Mail /\ Extra = {}
      /\ \A m \in Batch : steerOf[m] = s /\ verifyOf[m] = NoRid
  BY <1>1, <1>2, <1>3, OfferFacts DEF BatchOnce, Offering
<1>7. steerLog[s] = "none" /\ s <= used.steers /\ s \in Nat /\ used.steers \in Nat
  BY <1>1, <1>2, <1>3, IdsApart DEF SteerIdOnce, CounterTypes
<1>8. pendingDispatch = NoDispatch /\ pendingSteer.rid = s
  BY <1>1, <1>2, <1>3 DEF OpenOnce
<1>9. /\ steerLog' = steerLog \/ steerLog' = [steerLog EXCEPT ![s] = "absent"]
         \/ steerLog' = [steerLog EXCEPT ![s] = "dispatched"]
      /\ \/ seen' = seen /\ steerLog'[s] # "dispatched" /\ answer # "applied"
         \/ Give(Batch) /\ steerLog'[s] = "dispatched" /\ answer \in {"applied", "unknown"}
  BY <1>1, <1>4, <1>7 DEF PerformSteer, ProviderTypes
<1>10. /\ \A t \in SteerIds : t # s => steerLog'[t] = steerLog[t]
       /\ steerLog'[s] \in {"none", "absent", "dispatched"}
  BY <1>1, <1>7, <1>9 DEF ProviderTypes
<1>11. /\ Spent' = Spent /\ Landed \subseteq Landed' /\ Landed' \subseteq Landed \cup {s}
       /\ s \in Landed' <=> steerLog'[s] = "dispatched"
       /\ s \notin Landed
  <2>1. Spent' = Spent /\ s \notin Spent
    BY <1>1, <1>2, IdsApart DEF Spent, SeenOnce
  <2> QED
    BY <1>7, <1>10, <2>1 DEF Landed
<1>12. \A m \in Mail : seen[m] \in Nat /\ resent[m] \in Nat
  BY <1>1 DEF ProviderTypes, HistoryTypes
<1>13. /\ \A m \in Mail \ Batch : seen'[m] = seen[m]
       /\ \A m \in Mail : seen'[m] = seen[m] \/ (m \in Batch /\ seen'[m] = seen[m] + 1)
       /\ steerLog'[s] = "dispatched" => \A m \in Batch : seen'[m] = seen[m] + 1
  BY <1>6, <1>9 DEF Give
<1>14. Got \subseteq Got' /\ (s \in Landed' => Batch \subseteq Got')
  BY <1>6, <1>11, <1>12, <1>13 DEF Got
<1>15. Clean \ Batch \subseteq Clean' /\ (s \notin Landed' => Clean \subseteq Clean')
  BY <1>1, <1>9, <1>11, <1>13 DEF Clean
<1>16. verifyOf' = verifyOf /\ steerOf' = steerOf /\ (Calm' <=> Calm)
  BY <1>1, ViewsKept DEF Calm
<1>17. Doubted' \subseteq Doubted
  BY <1>5, <1>16, NotVerifying
<1>18. Free \ Batch \subseteq Free' /\ (s \notin Landed' => Free \subseteq Free')
  BY <1>11, <1>15, <1>16, <1>17, NextSets, SetFacts DEF SetsRight
<1>19. MailOnce'
  BY <1>1, <1>2, <1>6, <1>12, <1>13, SetFacts DEF MailOnce, SeenOnce, Clean
<1>20. ASSUME NEW m \in Mail \ Batch PROVE steerOf[m] # s /\ verifyOf[m] # s
  <2>1. steerOf[m] # s
    BY <1>1, <1>2, <1>3, <1>6, IdsApart DEF SteerIdOnce, Offering
  <2>2. VerifyOnce(m)
    BY <1>2 DEF EntriesOnce
  <2> QED
    BY <2>1, <2>2, IdsApart DEF VerifyOnce
<1>21. ASSUME NEW m \in Batch PROVE SteerClaim(m)' /\ (Calm => m \notin Spent)
  <2>1. Calm => m \notin Spent
    BY <1>6, SetFacts
  <2>2. steerOf'[m] \in Landed' \/ m \in Free'
    BY <1>6, <1>16, <1>18
  <2> QED
    BY <1>11, <1>16, <2>1, <2>2 DEF SteerClaim
<1>22. \A t \in SteerIds : t > used.steers => steerLog'[t] = "none"
  BY <1>2, <1>7, <1>10, IdsApart DEF EntriesOnce
<1>23. /\ RowOnce' /\ SeenOnce' /\ EntriesOnce' /\ ClaimsOnce' /\ SnapshotOnce'
       /\ AskedOnce' /\ Batch' = Batch /\ Extra' = {}
  <2>1. ~pendingDispatch.refused /\ s \notin Spent'
    BY <1>2, <1>8, <1>11 DEF NoDispatch, SeenOnce
  <2>2. drain'.at \in (Offering \cup {"settle"}) \ {"full"}
    BY <1>5 DEF Offering
  <2>3. Spent' \subseteq Spent \cup (Batch \cap {s}) /\ lost' = lost
    BY <1>1, <1>11
  <2> QED
    BY <1>1, <1>5, <1>11, <1>14, <1>15, <1>18, <1>19, <1>20, <1>21, <1>22, <2>1, <2>2, <2>3, CarriedOnce
<1>24. ResultsOnce'
  BY <1>5 DEF ResultsOnce
<1>25. BatchOnce'
  BY <1>5, <1>6, <1>3, <1>16, <1>23 DEF BatchOnce, Offering, OfferMoves
<1>26. SteerIdOnce'
  <2>1. drain'.steer = s /\ s # NoRid
    BY <1>3, <1>5, IdsApart DEF OfferMoves
  <2>2. \A m \in Mail : steerOf'[m] = s => m \in Batch'
    BY <1>16, <1>20, <1>23
  <2>3. /\ answer = "applied" => s \in Landed'
        /\ answer \in {"idle", "refused"} => Batch' \subseteq Free'
        /\ answer = "unknown" => s \in Landed' \/ Batch' \subseteq Free'
        /\ Calm' => Batch' \cap Spent' = {}
    BY <1>6, <1>9, <1>11, <1>16, <1>18, <1>21, <1>23
  <2> QED
    BY <1>1, <1>5, <1>7, <2>1, <2>2, <2>3 DEF SteerIdOnce
<1>27. OpenOnce'
  BY <1>1, <1>2, <1>3, <1>5, <1>8 DEF OpenOnce, OfferMoves, sessionVars
<1> QED
  BY <1>23, <1>24, <1>25, <1>26, <1>27 DEF OnceInv

LEMMA SendOnce ==
    ASSUME MailInv, MailInv', OnceInv, Send
    PROVE  OnceInv'
<1>1. /\ drain \in Drains /\ drain.at = "sending" /\ UNCHANGED sessionVars
      /\ used' = used /\ ProviderTypes /\ HistoryTypes
      /\ placement' = placement /\ pendingInject' = pendingInject /\ resent' = resent
  BY DEF MailInv, DrainInv, RestInv, Send, At, storeVars
<1>2. BatchOnce /\ OpenOnce /\ SeenOnce /\ SteerIdOnce /\ EntriesOnce
  BY DEF OnceInv
<1>3. /\ Batch \subseteq Free /\ Batch \subseteq Mail /\ Extra = {} /\ Claimed \in Batch
      /\ \A m \in Batch : steerOf[m] = drain.steer /\ verifyOf[m] = NoRid
  BY <1>1, <1>2, OfferFacts DEF BatchOnce, Offering
<1>4. PICK x \in Batch : x = Claimed
  BY <1>3
<1>5. /\ Unsettled(x) /\ x \notin Spent /\ x \in Mail /\ x \notin SteerIds
      /\ ~pendingDispatch.refused
  BY <1>1, <1>2, <1>3, <1>4, IdsApart DEF OpenOnce, Unsettled
<1>6. strays' = IF drain.steer = NoRid THEN strays ELSE strays \cup (Batch \ {x})
  BY <1>4 DEF Send
<1>7. /\ lost' = lost /\ steerLog' = steerLog
      /\ \/ taken' = taken \cup {x} /\ Give(Batch)
         \/ taken' = taken /\ seen' = seen
      /\ \/ Goto("record") /\ taken' = taken \cup {x}
         \/ Settle(Result("verify", x, FALSE))
         \/ (Goto("refused") \/ Settle(Result("retry", NoRid, FALSE))) /\ taken' = taken
  BY <1>4, <1>5 DEF Send, Accept, providerVars, Spent
<1>8. /\ OfferMoves /\ drain'.at \in {"record", "refused", "settle"}
      /\ drain'.at = "record" => x \in taken'
      /\ drain'.at = "refused" => taken' = taken
      /\ drain'.at = "settle" => \/ /\ drain'.result.what = "verify" /\ drain'.result.rid = x
                                    /\ drain'.result.steer = FALSE
                                 \/ drain'.result.what = "retry" /\ taken' = taken
  <2>1. CASE Goto("record") /\ taken' = taken \cup {x}
    BY <1>1, <2>1 DEF OfferMoves, Goto, Drains, Offering
  <2>2. CASE Settle(Result("verify", x, FALSE))
    BY <1>1, <2>2 DEF OfferMoves, Settle, Result, Drains, Offering
  <2>3. CASE Goto("refused") /\ taken' = taken
    BY <1>1, <2>3 DEF OfferMoves, Goto, Drains, Offering
  <2>4. CASE Settle(Result("retry", NoRid, FALSE)) /\ taken' = taken
    BY <1>1, <2>4 DEF OfferMoves, Settle, Result, Drains, Offering
  <2> QED
    BY <1>7, <2>1, <2>2, <2>3, <2>4
<1>9. x \notin taken
  BY <1>5 DEF Spent
<1>10. /\ Spent \subseteq Spent' /\ Spent' \subseteq Spent \cup (Batch \cap {x})
       /\ Landed \subseteq Landed' /\ Landed' \subseteq Landed \cup {x} /\ x \notin Landed
       /\ x \in Landed' <=> x \in taken'
       /\ x \in Spent' <=> x \in taken'
       /\ taken' = taken => x \notin Spent' /\ x \notin Landed'
  <2>1. Spent' = Spent \/ Spent' = Spent \cup {x}
    BY <1>7 DEF Spent
  <2>2. x \in Spent' <=> x \in taken'
    BY <1>5, <1>7 DEF Spent
  <2> QED
    BY <1>5, <1>7, <1>9, <2>1, <2>2 DEF Landed
<1>11. \A m \in Mail : seen[m] \in Nat /\ resent[m] \in Nat
  BY <1>1 DEF ProviderTypes, HistoryTypes
<1>12. /\ \A m \in Mail \ Batch : seen'[m] = seen[m]
       /\ \A m \in Mail : seen'[m] = seen[m] \/ (m \in Batch /\ seen'[m] = seen[m] + 1)
       /\ x \in taken' => \A m \in Batch : seen'[m] = seen[m] + 1
       /\ x \notin taken' => seen' = seen
  BY <1>3, <1>7, <1>9 DEF Give
<1>13. Got \subseteq Got' /\ (x \in taken' => Batch \subseteq Got')
  BY <1>3, <1>11, <1>12 DEF Got
<1>14. /\ Clean \ Batch \subseteq Clean' /\ (x \notin taken' => Clean \subseteq Clean')
       /\ drain.steer # NoRid => Batch \ {x} \subseteq Clean'
  BY <1>1, <1>3, <1>6, <1>12 DEF Clean
<1>15. verifyOf' = verifyOf /\ steerOf' = steerOf /\ (Calm' <=> Calm)
  BY <1>1, ViewsKept DEF Calm
<1>16. /\ Doubted' \subseteq Doubted \cup {x}
       /\ drain'.at # "settle" \/ drain'.result.what # "verify" => Doubted' \subseteq Doubted
  BY <1>8, <1>15 DEF Doubted, ToBeVerified
<1>17. /\ Free \ Batch \subseteq Free'
       /\ drain.steer # NoRid => Batch \ {x} \subseteq Free'
       /\ x \notin taken' => Free \ {x} \subseteq Free'
       /\ x \notin taken' /\ (drain'.at # "settle" \/ drain'.result.what # "verify") => Free \subseteq Free'
  <2>1. \A m \in Free : m \in Clean /\ (Calm => m \notin Spent /\ m \notin Doubted)
    BY SetFacts
  <2>2. \A m \in Clean' : (Calm => m \notin Spent' /\ m \notin Doubted') => m \in Free'
    BY <1>15, NextSets DEF SetsRight
  <2>3. \A m \in Free : m # x => (Calm => m \notin Spent' /\ m \notin Doubted')
    BY <1>10, <1>16, <2>1
  <2>4. Free \ Batch \subseteq Free' /\ (drain.steer # NoRid => Batch \ {x} \subseteq Free')
    BY <1>3, <1>14, <2>1, <2>2, <2>3
  <2>5. x \notin taken' => Free \ {x} \subseteq Free'
    BY <1>14, <2>1, <2>2, <2>3
  <2>6. x \notin taken' /\ (drain'.at # "settle" \/ drain'.result.what # "verify") => Free \subseteq Free'
    <3>1. SUFFICES ASSUME x \notin taken', drain'.at # "settle" \/ drain'.result.what # "verify", NEW m \in Free
                   PROVE  m \in Free'
      OBVIOUS
    <3>2. Spent' \subseteq Spent /\ Doubted' \subseteq Doubted /\ m \in Clean'
      BY <1>10, <1>14, <1>16, <2>1, <3>1
    <3> QED
      BY <2>1, <2>2, <3>2
  <2> QED
    BY <2>4, <2>5, <2>6
<1>18. MailOnce'
  <2>1. ASSUME NEW m \in Mail \ strays' PROVE seen'[m] <= 1 + resent'[m]
    <3>1. m \notin strays
      BY <1>6
    <3>2. seen[m] <= 1 + resent[m] /\ (m \in Batch => seen[m] <= resent[m])
      BY <1>2, <1>3, <3>1, SetFacts DEF MailOnce, SeenOnce, Clean
    <3> QED
      BY <1>1, <1>11, <1>12, <3>2
  <2> QED
    BY <2>1 DEF MailOnce
<1>19. ASSUME NEW m \in Mail \ Batch PROVE (Calm => verifyOf[m] # x) /\ steerOf[m] # x
  <2>1. Calm => x \notin Doubted
    BY <1>3, SetFacts
  <2>2. verifyOf[m] = x => x \in Doubted
    BY <1>5 DEF Doubted
  <2>3. steerOf[m] \in SteerIds \cup {NoRid}
    BY StoreViews DEF MailInv
  <2> QED
    BY <1>5, <2>1, <2>2, <2>3, IdsApart
<1>20. ASSUME NEW m \in Batch, steerOf[m] # NoRid PROVE SteerClaim(m)'
  <2>0. drain.steer # NoRid /\ (Calm => m \notin Spent) /\ m \in Clean
    BY <1>3, <1>20, SetFacts
  <2>1. CASE m # x
    <3>1. m \in Free' /\ (Calm' => m \notin Spent')
      BY <1>10, <1>15, <1>17, <2>0, <2>1
    <3> QED
      BY <3>1 DEF SteerClaim
  <2>2. CASE m = x
    <3>1. Unsettled(m)'
      BY <1>1, <1>5, <2>2 DEF Unsettled, sessionVars
    <3>2. m \in Spent' \/ m \in Clean'
      BY <1>10, <1>14, <2>0, <2>2
    <3> QED
      BY <3>1, <3>2 DEF SteerClaim
  <2> QED
    BY <2>1, <2>2
<1>21. /\ RowOnce' /\ SeenOnce' /\ EntriesOnce' /\ ClaimsOnce' /\ SnapshotOnce'
       /\ AskedOnce' /\ Batch' = Batch /\ Extra' = {}
  <2>1. drain'.at \in (Offering \cup {"settle"}) \ {"full"}
    BY <1>8 DEF Offering
  <2>2. \A s \in SteerIds : s > used.steers => steerLog'[s] = "none"
    BY <1>2, <1>7 DEF EntriesOnce
  <2>3. x \in Mail \cup SteerIds /\ lost' = lost /\ (x \in Landed' => Batch \subseteq Got')
    BY <1>5, <1>7, <1>10, <1>13
  <2> QED
    BY <1>1, <1>5, <1>8, <1>10, <1>13, <1>14, <1>17, <1>18, <1>19, <1>20, <2>1, <2>2, <2>3, CarriedOnce
<1>22. Claimed' = x
  BY <1>4, <1>8 DEF Claimed, OfferMoves
<1>23. CASE drain'.at \in {"record", "refused"}
  <2>1. ResultsOnce'
    BY <1>23 DEF ResultsOnce
  <2>2. BatchOnce'
    <3>1. drain'.at = "record" => x \in Spent' /\ Batch' \subseteq Got'
      BY <1>8, <1>10, <1>13, <1>21
    <3>2. drain'.at = "refused" => Batch' \subseteq Free'
      BY <1>3, <1>8, <1>9, <1>17, <1>21
    <3> QED
      BY <1>3, <1>8, <1>15, <1>21, <1>22, <1>23, <3>1, <3>2 DEF BatchOnce, Offering, OfferMoves
  <2>3. SteerIdOnce'
    BY <1>1, <1>2, <1>3, <1>8, <1>15, <1>21, <1>23 DEF SteerIdOnce, Offering, OfferMoves
  <2>4. OpenOnce'
    <3>1. Unsettled(Claimed)'
      BY <1>1, <1>5, <1>22 DEF Unsettled, sessionVars
    <3>2. drain'.at = "refused" => Claimed' \notin Spent'
      BY <1>8, <1>10, <1>22
    <3> QED
      BY <1>23, <3>1, <3>2 DEF OpenOnce
  <2> QED
    BY <1>21, <2>1, <2>2, <2>3, <2>4 DEF OnceInv
<1>24. CASE drain'.at = "settle"
  <2>1. BatchOnce' /\ SteerIdOnce' /\ OpenOnce'
    BY <1>1, <1>2, <1>8, <1>24, ToSettle DEF OfferMoves
  <2>2. CASE drain'.result.what = "retry"
    <3>1. Batch \subseteq Free'
      BY <1>3, <1>8, <1>9, <1>17, <1>24, <2>2
    <3>2. ResultsOnce'
      BY <1>21, <1>24, <2>2, <3>1 DEF ResultsOnce, ResultOnce
    <3> QED
      BY <1>21, <2>1, <3>2 DEF OnceInv
  <2>3. CASE drain'.result.what = "verify"
    <3>1. drain'.result.rid = x /\ drain'.result.steer = FALSE
      BY <1>8, <1>24, <2>3
    <3>2. ASSUME NEW m \in Batch PROVE ResultOnce(m)'
      <4>1. x \in Landed' \/ m \in Clean'
        BY <1>3, <1>10, <1>14, SetFacts
      <4>2. x \in Landed' => m \in Got'
        BY <1>10, <1>13
      <4> QED
        BY <1>5, <2>3, <3>1, <4>1, <4>2 DEF ResultOnce, Doubtful
    <3>3. ResultsOnce'
      BY <1>21, <1>24, <3>2 DEF ResultsOnce
    <3> QED
      BY <1>21, <2>1, <3>3 DEF OnceInv
  <2> QED
    BY <1>8, <1>24, <2>2, <2>3
<1> QED
  BY <1>8, <1>23, <1>24

-----------------------------------------------------------------------------
(* The restart. *)

LEMMA CrashOnce ==
    ASSUME MailInv, MailInv', OnceInv, Crash
    PROVE  OnceInv'
<1>1. /\ Kept /\ placement' = placement /\ pendingInject' = pendingInject /\ UNCHANGED sessionVars
      /\ Bump("crashes")
  BY DEF Crash, Kept, storeVars, providerVars, history
<1>2. /\ drain'.at = "down" /\ drain'.batch = <<>> /\ drain'.steer = NoRid /\ drain'.pos = 0
      /\ drain'.list = <<>> /\ drain'.known = {}
  BY DEF Crash, Off
<1>3. verifyOf' = verifyOf /\ steerOf' = steerOf /\ SessionStable
  BY <1>1, ViewsKept, SameSession
<1>4. Doubted' \subseteq Doubted
  BY <1>2, <1>3, NotVerifying
<1>5. RowOnce' /\ SeenOnce' /\ EntriesOnce'
  BY <1>1, <1>3, <1>4, QuietOnce
<1> QED
  BY <1>2, <1>5, RestOnce, NoSnapshot DEF OnceInv

LEMMA InitDoneOnce ==
    ASSUME MailInv, MailInv', OnceInv, InitDone
    PROVE  OnceInv'
<1>1. /\ Kept /\ placement' = placement /\ pendingInject' = pendingInject /\ used' = used
  BY DEF InitDone, Kept, storeVars, providerVars, history
<1>2. /\ drain'.at = "idle" /\ drain'.batch = <<>> /\ drain'.steer = NoRid
      /\ drain'.list = <<>> /\ drain'.known = {}
  BY DEF InitDone, Off
<1>3. verifyOf' = verifyOf /\ steerOf' = steerOf /\ SessionStable
  BY <1>1, ViewsKept, PresenceStable DEF InitDone
<1>4. Doubted' \subseteq Doubted
  BY <1>2, <1>3, NotVerifying
<1>5. RowOnce' /\ SeenOnce' /\ EntriesOnce'
  BY <1>1, <1>3, <1>4, QuietOnce
<1>6. \A m \in Mail : placement'[m] # "submitting"
  BY <1>1 DEF InitDone, Interrupted
<1> QED
  BY <1>2, <1>5, <1>6, RestOnce, NoSnapshot DEF OnceInv

LEMMA InitAskOnce ==
    ASSUME MailInv, MailInv', OnceInv, Undisturbed, NEW m \in Mail, InitAsk(m)
    PROVE  OnceInv'
<1>1. /\ drain \in Drains /\ drain.at = "down" /\ placement[m] = "submitting" /\ SessionTypes /\ StoreInv
      /\ Kept /\ used' = used /\ placement' = placement /\ pendingInject' = pendingInject
  BY DEF MailInv, DrainInv, RestInv, InitAsk, At, Interrupted, Kept, storeVars, providerVars, history
<1>2. Queued(m) # {} /\ steerOf[m] = EntryOf(m).steerId /\ steerOf[m] \in SteerIds \cup {NoRid}
  BY <1>1, WaitingViews, StoreViews
<1>3. PICK s \in SteerIds \cup {NoRid} : s = steerOf[m]
  BY <1>2
<1> DEFINE recovery == s # NoRid
<1>4. PICK status \in Statuses :
          /\ reconcileMailInject(m, recovery, status)
          /\ drain' = [drain EXCEPT !.at = "asked", !.batch = <<m>>, !.steer = s, !.answer = status]
  BY <1>2, <1>3 DEF InitAsk, Statuses
<1>5. /\ drain'.at = "asked" /\ drain'.batch = <<m>> /\ drain'.steer = s /\ drain'.answer = status
      /\ drain'.list = drain.list /\ drain'.known = drain.known /\ drain'.pos = drain.pos
  BY <1>1, <1>4 DEF Drains
<1>6. verifyOf' = verifyOf /\ steerOf' = steerOf
  BY <1>1, ViewsKept
<1>7. SessionStable
  BY <1>1, <1>4, IdsApart, InjectStable
<1>8. Doubted' \subseteq Doubted
  BY <1>5, <1>6, NotVerifying
<1>9. Quiet /\ RowOnce' /\ SeenOnce' /\ EntriesOnce'
  BY <1>1, <1>6, <1>7, <1>8, QuietOnce
<1>10. RowOnce /\ SeenOnce /\ EntriesOnce /\ ClaimsOnce /\ SnapshotOnce
  BY DEF OnceInv
<1>11. Batch' = {m} /\ Claimed' = m /\ Len(drain'.batch) = 1
  BY <1>5 DEF Batch, Members, Claimed
<1>12. ClaimsOnce'
  <2>1. InHand' = {m} /\ Extra' = {} /\ Recovering' /\ drain'.pos = 0
    BY <1>1, <1>5, <1>10, <1>11 DEF InHand, Extra, Recovering, ClaimsOnce
  <2>2. \A i, j \in 1..Len(drain'.batch) : drain'.batch[i] = drain'.batch[j] => i = j
    BY <1>11
  <2> QED
    BY <1>1, <1>5, <2>1, <2>2 DEF ClaimsOnce, Offering
<1>13. SnapshotOnce'
  <2>1. ToVerify' \subseteq ToVerify
    BY <1>5 DEF ToVerify
  <2> QED
    BY <1>1, <1>5, <1>6, <1>9, <1>10, <2>1, SnapshotKept DEF Quiet
<1>14. ResultsOnce' /\ BatchOnce' /\ SteerIdOnce' /\ OpenOnce'
  BY <1>5 DEF ResultsOnce, BatchOnce, SteerIdOnce, OpenOnce, Offering
<1>15. status = "dispatched" => m \in Got
  <2>1. status = "dispatched" => m \in dispatched \/ m \in taken
    BY <1>4 DEF reconcileMailInject, confirmNativeAgentDispatch
  <2>2. dispatched \subseteq Landed /\ taken \subseteq Spent
    BY <1>10 DEF RowOnce, Spent
  <2> QED
    BY <1>10, <2>1, <2>2, SetFacts DEF SeenOnce
<1>16. ASSUME status = "not-dispatched" PROVE m \in Free \/ (s # NoRid /\ s \in Landed)
  <2>1. /\ m \notin dispatched /\ ~Unsettled(m) /\ retired # m
        /\ pendingDispatch.rid = m \/ s # NoRid
    BY <1>4, <1>16 DEF reconcileMailInject, confirmNativeAgentDispatch
  <2>2. CASE pendingDispatch.rid = m
    BY <1>10, <2>1, <2>2 DEF RowOnce, Unsettled
  <2>3. CASE s # NoRid
    <3>1. SteerClaim(m)
      BY <1>10 DEF EntriesOnce
    <3>2. m \in Free \/ m \in Spent \/ s \in Landed
      BY <1>1, <1>3, <2>1, <2>3, <3>1 DEF SteerClaim
    <3>3. m \notin Spent
      <4>1. CASE Calm
        BY <1>1, <1>3, <2>1, <2>3, <3>1, <4>1 DEF SteerClaim
      <4>2. CASE Lossless
        BY <1>10, <2>1, <4>2 DEF RowOnce
      <4> QED
        BY <4>1, <4>2 DEF Undisturbed
    <3> QED
      BY <2>3, <3>2, <3>3
  <2> QED
    BY <2>1, <2>2, <2>3
<1>17. AskedOnce'
  BY <1>3, <1>5, <1>6, <1>9, <1>11, <1>15, <1>16 DEF AskedOnce, Quiet, Later
<1> QED
  BY <1>9, <1>12, <1>13, <1>14, <1>17 DEF OnceInv

LEMMA InitSteerOnce ==
    ASSUME MailInv, MailInv', OnceInv, InitSteer
    PROVE  OnceInv'
<1>1. /\ drain \in Drains /\ drain.at = "asked" /\ StoreInv /\ Kept /\ used' = used
      /\ placement' = placement /\ pendingInject' = pendingInject
  BY DEF MailInv, DrainInv, InitSteer, At, Kept, storeVars, providerVars, history
<1>2. RowOnce /\ SeenOnce /\ EntriesOnce /\ ClaimsOnce /\ SnapshotOnce /\ AskedOnce
  BY DEF OnceInv
<1>3. /\ Len(drain.batch) = 1 /\ drain.steer = steerOf[Claimed] /\ drain.answer \in Statuses
      /\ drain.answer = "dispatched" => (Calm => Claimed \in Got)
      /\ drain.answer = "not-dispatched" =>
            Claimed \in Free \/ (drain.steer # NoRid /\ drain.steer \in Landed)
  BY <1>1, <1>2 DEF AskedOnce
<1>4. Claimed \in Mail /\ Batch = {Claimed}
  BY <1>1, <1>3, DrainFields DEF Claimed, Batch, Members
<1>5. PICK x \in Mail : x = Claimed
  BY <1>4
<1>6. PICK s \in SteerIds \cup {NoRid} : s = drain.steer
  BY <1>1 DEF Drains
<1>7. /\ steerOf[x] = s /\ Batch = {x}
      /\ s # NoRid => /\ s \in SteerIds /\ s <= used.steers
                      /\ Calm /\ s \in Landed => x \in Got
  BY <1>2, <1>3, <1>4, <1>5, <1>6 DEF EntriesOnce, SteerOnce
<1>8. PICK status \in Statuses :
         /\ Settle(InitResult(status)) /\ SessionStable
         /\ status = "dispatched" => (Calm => x \in Got)
         /\ status = "not-dispatched" => x \in Free
  <2>1. CASE s = NoRid \/ drain.answer = "dispatched"
    <3>1. Settle(InitResult(drain.answer)) /\ UNCHANGED sessionVars
      BY <1>6, <2>1 DEF InitSteer
    <3>2. drain.answer = "not-dispatched" => x \in Free
      BY <1>3, <1>5, <1>6, <2>1
    <3> QED
      BY <1>3, <1>5, <3>1, <3>2, SameSession
  <2>2. CASE s # NoRid /\ drain.answer # "dispatched"
    <3>1. PICK heard \in Statuses :
              /\ reconcileMailSteer(s, heard)
              /\ Settle(InitResult(IF heard = "not-dispatched" THEN drain.answer ELSE heard))
      BY <1>6, <2>2 DEF InitSteer, Statuses
    <3>2. SessionStable
      BY <1>7, <2>2, <3>1, SteerStable
    <3>3. (heard = "dispatched" => s \in Landed) /\ (heard = "not-dispatched" => s \notin Landed)
      BY <1>7, <2>2, <3>1, AskedSteer
    <3>4. PICK status \in Statuses : status = IF heard = "not-dispatched" THEN drain.answer ELSE heard
      BY <1>3
    <3>5. Settle(InitResult(status))
      BY <3>1, <3>4
    <3>6. status = "dispatched" => (Calm => x \in Got)
      BY <1>7, <2>2, <3>3, <3>4
    <3>7. status = "not-dispatched" => x \in Free
      BY <1>3, <1>5, <1>6, <3>3, <3>4
    <3> QED
      BY <3>2, <3>5, <3>6, <3>7
  <2> QED
    BY <2>1, <2>2
<1>9. /\ drain'.at = "settle" /\ drain'.result = InitResult(status) /\ drain'.batch = drain.batch
      /\ drain'.steer = s /\ drain'.list = drain.list /\ drain'.known = drain.known
      /\ drain'.pos = drain.pos
  BY <1>1, <1>6, <1>8 DEF Settle, Drains
<1>10. /\ drain'.result.what \in {"accepted", "held", "failed"}
       /\ drain'.result.what = "accepted" => status = "dispatched"
       /\ drain'.result.what = "held" => status = "not-dispatched"
  <2>1. status \in {"dispatched", "not-dispatched", "unknown"}
    BY DEF Statuses
  <2> QED
    BY <1>9, <2>1 DEF InitResult, Result
<1>11. verifyOf' = verifyOf /\ steerOf' = steerOf
  BY <1>1, ViewsKept
<1>12. Doubted' \subseteq Doubted
  BY <1>10, <1>11, NotVerifying
<1>13. Quiet /\ RowOnce' /\ SeenOnce' /\ EntriesOnce'
  BY <1>1, <1>8, <1>11, <1>12, QuietOnce
<1>14. Batch' = {x}
  BY <1>7, <1>9 DEF Batch
<1>15. ClaimsOnce'
  <2>1. InHand = {x} /\ InHand' = {x} /\ Extra' = {} /\ drain'.pos = 0 /\ Recovering'
    BY <1>1, <1>2, <1>7, <1>9, <1>14 DEF InHand, Extra, Recovering, ClaimsOnce
  <2> QED
    BY <1>1, <1>2, <1>9, <2>1 DEF ClaimsOnce, Offering
<1>16. SnapshotOnce'
  <2>1. ToVerify' \subseteq ToVerify
    BY <1>9 DEF ToVerify
  <2> QED
    BY <1>1, <1>2, <1>9, <1>11, <1>13, <2>1, SnapshotKept DEF Quiet
<1>17. ResultsOnce'
  <2>1. /\ drain'.result.what = "accepted" => (Calm' => x \in Got')
        /\ drain'.result.what = "held" => x \in Free'
    BY <1>8, <1>10, <1>13 DEF Quiet, Later
  <2> QED
    BY <1>9, <1>10, <1>14, <2>1 DEF ResultsOnce, ResultOnce
<1>18. BatchOnce' /\ OpenOnce' /\ AskedOnce'
  BY <1>9 DEF BatchOnce, OpenOnce, AskedOnce, Offering
<1>19. SteerIdOnce'
  BY <1>1, <1>7, <1>9 DEF SteerIdOnce, Offering
<1> QED
  BY <1>13, <1>15, <1>16, <1>17, <1>18, <1>19 DEF OnceInv

-----------------------------------------------------------------------------
(* Together. *)

Counted ==
    \/ used' = used
    \/ \E c \in {"steers", "releases", "recoveries", "typed", "crashes", "restarts"} : Bump(c)

LEMMA NextCounts ==
    ASSUME Next
    PROVE  Counted
<1>1. CASE \E m \in Mail, s \in BOOLEAN : sendAgentMail(m, s) \/ retryAgentMailInject(m, s)
  BY <1>1 DEF sendAgentMail, retryAgentMailInject, Counted
<1>2. CASE \E m \in Mail : clearAgentMailSteerRequest(m) \/ Elapse(m)
  BY <1>2 DEF clearAgentMailSteerRequest, Elapse, Counted
<1>3. CASE resetAgentMailInjectBackoff \/ refreshPresence
  BY <1>3 DEF resetAgentMailInjectBackoff, refreshPresence, Counted
<1>4. CASE drainInjects \/ Verify \/ Skip \/ Approach \/ ApproachSteer
  BY <1>4 DEF drainInjects, Verify, VerifyAsk, VerifyClaim, Skip, Approach, ApproachSteer, Counted
<1>5. CASE Batching \/ SettleOne
  BY <1>5 DEF Batching, Claim, Gather, GiveBack, SettleOne, Counted
<1>6. CASE Steer
  BY <1>6 DEF Steer, SteerRecord, SteerSend, SteerOutcome, Counted
<1>7. CASE Inject
  BY <1>7 DEF Inject, DispatchEarly, Dispatch, Hold, Send, Record, RecordRefusal, Release, Counted
<1>8. CASE Crash \/ Recovery
  BY <1>8 DEF Crash, Recovery, InitAsk, InitSteer, InitDone, Counted
<1>9. CASE settleAmbiguousDispatch \/ settleAmbiguousSteer
  BY <1>9 DEF settleAmbiguousDispatch, settleAmbiguousSteer, Counted
<1>10. CASE retryRecoverableDispatch \/ retryRecoverableSteer \/ discardRecoverableDispatch
  BY <1>10 DEF retryRecoverableDispatch, retryRecoverableSteer, discardRecoverableDispatch, Counted
<1>11. CASE dispatchIntent \/ TurnStart \/ TurnEnd \/ ProviderRestart
  BY <1>11 DEF dispatchIntent, TurnStart, TurnEnd, ProviderRestart, Counted
<1> QED
  BY <1>1, <1>2, <1>3, <1>4, <1>5, <1>6, <1>7, <1>8, <1>9, <1>10, <1>11 DEF Next

LEMMA OnceInit == Init => OnceInv
<1> SUFFICES ASSUME Init PROVE OnceInv
  OBVIOUS
<1>1. /\ placement = [m \in Mail |-> "unsent"] /\ pendingDispatch = NoDispatch /\ dispatched = {}
      /\ retired = NoRid /\ drain = Off /\ taken = {} /\ lost = {} /\ strays = {}
      /\ steerLog = [s \in SteerIds |-> "none"] /\ seen = [m \in Mail |-> 0]
      /\ resent = [m \in Mail |-> 0]
  BY DEF Init
<1>2. /\ drain.at = "idle" /\ drain.list = <<>> /\ drain.batch = <<>> /\ drain.steer = NoRid
      /\ drain.known = {}
  BY <1>1 DEF Off
<1>3. \A m \in Mail : verifyOf[m] = NoRid /\ steerOf[m] = NoRid
  <2>1. StoreInv
    BY MailInvInit DEF MailInv
  <2> QED
    BY <1>1, <2>1, StoreViews
<1>4. Doubted = {}
  BY <1>2, <1>3, IdsApart DEF Doubted, ToBeVerified
<1>5. Spent = {} /\ Landed = {}
  BY <1>1 DEF Spent, Landed
<1>6. \A m \in Mail : m \in Clean /\ m \in Free
  BY <1>1, <1>4, <1>5 DEF Clean, Free
<1>7. RowOnce
  BY <1>1, <1>5 DEF RowOnce, NoDispatch
<1>8. SeenOnce
  BY <1>1, <1>5, <1>6 DEF SeenOnce, MailOnce
<1>9. EntriesOnce
  BY <1>1, <1>3, <1>6 DEF EntriesOnce, VerifyOnce, SteerOnce, SteerClaim
<1>10. ClaimsOnce /\ AskedOnce /\ ResultsOnce /\ BatchOnce
  BY <1>1, <1>2 DEF ClaimsOnce, AskedOnce, ResultsOnce, BatchOnce, InHand, Extra, Offering
<1>11. SnapshotOnce /\ SteerIdOnce /\ OpenOnce
  BY <1>2 DEF SnapshotOnce, SteerIdOnce, OpenOnce, ToVerify
<1> QED
  BY <1>7, <1>8, <1>9, <1>10, <1>11 DEF OnceInv

LEMMA OnceStutter ==
    ASSUME MailInv, MailInv', OnceInv, UNCHANGED vars
    PROVE  OnceInv'
<1>1. /\ Kept /\ UNCHANGED sessionVars /\ drain' = drain /\ used' = used /\ placement' = placement
      /\ pendingInject' = pendingInject /\ UNCHANGED <<pendingDispatch, pendingSteer>>
  BY DEF vars, Kept, storeVars, sessionVars, providerVars, history
<1> QED
  BY <1>1, ViewsKept, SameSession, ElsewhereOnce

LEMMA OnceNext ==
    ASSUME MailInv, MailInv', Undisturbed => OnceInv, [Next]_vars
    PROVE  (Undisturbed => OnceInv)'
<1>1. Counted
  BY NextCounts DEF Counted, vars
<1>2. Undisturbed' => Undisturbed
  BY <1>1, CountersGrow DEF MailInv, RestInv, Counted, Undisturbed
<1> SUFFICES ASSUME Undisturbed', Undisturbed, OnceInv PROVE OnceInv'
  BY <1>2
<1>3. CASE UNCHANGED vars
  BY <1>3, OnceStutter
<1>4. CASE \E m \in Mail, s \in BOOLEAN : sendAgentMail(m, s) \/ retryAgentMailInject(m, s)
  BY <1>4, SendMailOnce, RetryMailOnce
<1>5. CASE \/ \E m \in Mail : clearAgentMailSteerRequest(m) \/ Elapse(m)
           \/ resetAgentMailInjectBackoff
  BY <1>5, WaitingOnce
<1>6. CASE refreshPresence \/ settleAmbiguousDispatch \/ settleAmbiguousSteer
  BY <1>6, SettlementsOnce
<1>7. CASE drainInjects \/ Verify \/ Skip \/ Approach \/ ApproachSteer
  BY <1>7, DrainStartOnce, VerifyAskOnce, VerifyClaimOnce, SkipOnce, ApproachOnce, ApproachSteerOnce
     DEF Verify
<1>8. CASE Batching \/ SettleOne
  BY <1>8, ClaimOnce, GatherOnce, GiveBackOnce, SettleOneOnce DEF Batching
<1>9. CASE Steer
  BY <1>9, SteerRecordOnce, SteerSendOnce, SteerOutcomeOnce DEF Steer
<1>10. CASE Inject
  BY <1>10, DispatchEarlyOnce, DispatchOnce, HoldOnce, SendOnce, RecordOnce, RecordRefusalOnce,
     ReleaseOnce DEF Inject
<1>11. CASE Crash \/ Recovery
  BY <1>11, CrashOnce, InitAskOnce, InitSteerOnce, InitDoneOnce DEF Recovery
<1>12. CASE retryRecoverableDispatch \/ retryRecoverableSteer \/ discardRecoverableDispatch
  BY <1>12, DecisionsDisturb
<1>13. CASE dispatchIntent \/ TurnStart \/ TurnEnd \/ ProviderRestart
  BY <1>13, TypedOnce, TurnOnce, RestartOnce
<1> QED
  BY <1>3, <1>4, <1>5, <1>6, <1>7, <1>8, <1>9, <1>10, <1>11, <1>12, <1>13 DEF Next

LEMMA OnceAlways == Spec => [](Undisturbed => OnceInv)
<1>1. Init => (Undisturbed => OnceInv)
  BY OnceInit
<1>2. MailInv /\ MailInv' /\ (Undisturbed => OnceInv) /\ [Next]_vars => (Undisturbed => OnceInv)'
  BY OnceNext
<1> QED
  BY <1>1, <1>2, MailInvAlways, PTL DEF Spec

(* No crash, lost answer, provider restart or late settlement makes the    *)
(* drain give the agent a message twice, a user's resend and the siblings  *)
(* of a refused steer aside (drainEnvironmentInjects, agent-mail-service). *)
(* This holds as long as nobody decides on a parked dispatch and either no *)
(* bridge has restarted, whatever users release and type, or bridges may   *)
(* restart but nobody releases a message.                                  *)
THEOREM MailOnceUndisturbed == Spec => [](Undisturbed => MailOnce)
<1>1. OnceInv => MailOnce
  BY DEF OnceInv, SeenOnce
<1> QED
  BY <1>1, OnceAlways, PTL

(* A message shown as delivered did reach the agent, as long as nobody     *)
(* releases a message or decides on a parked dispatch: the accepted result *)
(* of a prompt, a steer, a verification or a restart is a true one         *)
(* (finishAgentMailInject; reconcileMailInject, reconcileMailSteer).       *)
THEOREM InjectedWasSeenCalm == Spec => [](Calm => InjectedWasSeen)
<1>1. OnceInv /\ Calm => InjectedWasSeen
  BY DEF OnceInv, SeenOnce, InjectedWasSeen, Got
<1>2. Calm => Undisturbed
  BY DEF Undisturbed
<1> QED
  BY <1>1, <1>2, OnceAlways, PTL

-----------------------------------------------------------------------------
(* The bounded counters keep within their bounds, so a bound of zero says  *)
(* that what it counts never happens.                                      *)

WithinBounds ==
    /\ used.releases <= MaxReleases /\ used.recoveries <= MaxRecoveries
    /\ used.typed <= MaxTyped /\ used.restarts <= MaxRestarts /\ used.steers <= MaxSteers

Guarded ==
    \/ used' = used
    \/ Bump("crashes")
    \/ used.releases < MaxReleases /\ Bump("releases")
    \/ used.recoveries < MaxRecoveries /\ Bump("recoveries")
    \/ used.typed < MaxTyped /\ Bump("typed")
    \/ used.restarts < MaxRestarts /\ Bump("restarts")
    \/ used.steers < MaxSteers /\ Bump("steers")

LEMMA NextGuarded ==
    ASSUME Next
    PROVE  Guarded
<1>1. CASE \E m \in Mail, s \in BOOLEAN : sendAgentMail(m, s) \/ retryAgentMailInject(m, s)
  BY <1>1 DEF sendAgentMail, retryAgentMailInject, Guarded
<1>2. CASE \E m \in Mail : clearAgentMailSteerRequest(m) \/ Elapse(m)
  BY <1>2 DEF clearAgentMailSteerRequest, Elapse, Guarded
<1>3. CASE resetAgentMailInjectBackoff \/ refreshPresence
  BY <1>3 DEF resetAgentMailInjectBackoff, refreshPresence, Guarded
<1>4. CASE drainInjects \/ Verify \/ Skip \/ Approach
  BY <1>4 DEF drainInjects, Verify, VerifyAsk, VerifyClaim, Skip, Approach, Guarded
<1>5. CASE ApproachSteer
  BY <1>5 DEF ApproachSteer, Steering, Guarded
<1>6. CASE Batching \/ SettleOne
  BY <1>6 DEF Batching, Claim, Gather, GiveBack, SettleOne, Guarded
<1>7. CASE Steer
  BY <1>7 DEF Steer, SteerRecord, SteerSend, SteerOutcome, Guarded
<1>8. CASE Inject
  BY <1>8 DEF Inject, DispatchEarly, Dispatch, Hold, Send, Record, RecordRefusal, Release, Guarded
<1>9. CASE Crash \/ Recovery
  BY <1>9 DEF Crash, Recovery, InitAsk, InitSteer, InitDone, Guarded
<1>10. CASE settleAmbiguousDispatch \/ settleAmbiguousSteer
  BY <1>10 DEF settleAmbiguousDispatch, settleAmbiguousSteer, Guarded
<1>11. CASE retryRecoverableDispatch \/ retryRecoverableSteer \/ discardRecoverableDispatch
  BY <1>11 DEF retryRecoverableDispatch, retryRecoverableSteer, discardRecoverableDispatch, Guarded
<1>12. CASE dispatchIntent \/ TurnStart \/ TurnEnd \/ ProviderRestart
  BY <1>12 DEF dispatchIntent, TurnStart, TurnEnd, ProviderRestart, Guarded
<1> QED
  BY <1>1, <1>2, <1>3, <1>4, <1>5, <1>6, <1>7, <1>8, <1>9, <1>10, <1>11, <1>12 DEF Next

LEMMA BoundsAlways == Spec => [](MailInv /\ WithinBounds)
<1>1. Init => WithinBounds
  BY MailAssumption DEF Init, WithinBounds
<1>2. MailInv /\ WithinBounds /\ [Next]_vars => WithinBounds'
  <2> SUFFICES ASSUME MailInv, WithinBounds, [Next]_vars PROVE WithinBounds'
    OBVIOUS
  <2>1. Guarded
    BY NextGuarded DEF vars, Guarded
  <2>2. CounterTypes
    BY DEF MailInv, RestInv
  <2> QED
    BY <2>1, <2>2, MailAssumption DEF Guarded, Bump, WithinBounds, CounterTypes
<1> QED
  BY <1>1, <1>2, MailInvAlways, PTL DEF Spec

(* What no user can do with parked dispatches, and bridges or users cannot *)
(* do otherwise, keeps every message sent once: MailOnce for the constants *)
(* of run mail_queue and for any number of messages, crashes and batches.  *)
THEOREM MailOnceAlways ==
    ASSUME MaxRecoveries = 0,
           \/ MaxRestarts = 0
           \/ MaxReleases = 0 /\ (MaxTyped = 0 \/ MaxSteers = 0)
    PROVE  Spec => []MailOnce
<1>1. MailInv /\ WithinBounds => Undisturbed
  BY MailAssumption DEF MailInv, RestInv, CounterTypes, WithinBounds, Undisturbed, Lossless, Calm
<1> QED
  BY <1>1, BoundsAlways, MailOnceUndisturbed, PTL

(* Without releases and decisions on parked dispatches, what is shown as   *)
(* delivered did reach the agent: InjectedWasSeen for the constants of run *)
(* mail_queue and for any number of messages, crashes and batches.         *)
THEOREM InjectedWasSeenAlways ==
    ASSUME MaxRecoveries = 0, MaxReleases = 0,
           MaxRestarts = 0 \/ MaxTyped = 0 \/ MaxSteers = 0
    PROVE  Spec => []InjectedWasSeen
<1>1. MailInv /\ WithinBounds => Calm
  BY MailAssumption DEF MailInv, RestInv, CounterTypes, WithinBounds, Calm
<1> QED
  BY <1>1, BoundsAlways, InjectedWasSeenCalm, PTL
=============================================================================
