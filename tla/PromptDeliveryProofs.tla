------------------------ MODULE PromptDeliveryProofs ------------------------
(***************************************************************************)
(* Proofs about PromptDelivery for every set of items, prompts and steers, *)
(* every kind of provider and any number of crashes and restarts.          *)
(***************************************************************************)
EXTENDS PromptDelivery, SequenceTheorems, TLAPS

-----------------------------------------------------------------------------
(* The queue: removing, inserting, and one place for every item.           *)

(* The list without its k-th member. *)
LEMMA RemoveAtFacts ==
    ASSUME NEW S, NEW s \in Seq(S), NEW k \in 1..Len(s)
    PROVE  /\ Seqs!RemoveAt(s, k) \in Seq(S)
           /\ Len(Seqs!RemoveAt(s, k)) = Len(s) - 1
           /\ \A j \in 1..(Len(s) - 1) :
                 Seqs!RemoveAt(s, k)[j] = IF j < k THEN s[j] ELSE s[j + 1]
<1> DEFINE a == SubSeq(s, 1, k - 1)
           b == SubSeq(s, k + 1, Len(s))
<1>1. /\ a \in Seq(S) /\ Len(a) = k - 1
      /\ \A j \in 1..(k - 1) : a[j] = s[j]
  BY SubSeqProperties
<1>2. /\ b \in Seq(S) /\ Len(b) = Len(s) - k
      /\ \A j \in 1..(Len(s) - k) : b[j] = s[k + j]
  BY SubSeqProperties
<1>3. Seqs!RemoveAt(s, k) = a \o b
  BY DEF Seqs!RemoveAt
<1> HIDE DEF a, b
<1> QED
  BY <1>1, <1>2, <1>3, ConcatProperties

(* The list with e as its q-th member. *)
LEMMA InsertAtFacts ==
    ASSUME NEW S, NEW s \in Seq(S), NEW q \in 1..(Len(s) + 1), NEW e \in S
    PROVE  /\ Seqs!InsertAt(s, q, e) \in Seq(S)
           /\ Len(Seqs!InsertAt(s, q, e)) = Len(s) + 1
           /\ \A j \in 1..(Len(s) + 1) :
                 Seqs!InsertAt(s, q, e)[j] = IF j < q THEN s[j] ELSE IF j = q THEN e ELSE s[j - 1]
<1> DEFINE k == q - 1
           a == SubSeq(s, 1, k)
           b == SubSeq(s, k + 1, Len(s))
           c == a \o <<e>>
<1>0. k \in 0..Len(s) /\ k + 1 = q
  OBVIOUS
<1> HIDE DEF k
<1>1. /\ a \in Seq(S) /\ Len(a) = k
      /\ \A j \in 1..k : a[j] = s[j]
  BY <1>0, SubSeqProperties
<1>2. /\ b \in Seq(S) /\ Len(b) = Len(s) - k
      /\ \A j \in 1..(Len(s) - k) : b[j] = s[k + j]
  BY <1>0, SubSeqProperties
<1>3. <<e>> \in Seq(S) /\ Len(<<e>>) = 1 /\ <<e>>[1] = e
  OBVIOUS
<1> HIDE DEF a, b
<1>4. /\ c \in Seq(S) /\ Len(c) = k + 1
      /\ \A j \in 1..(k + 1) : c[j] = IF j <= k THEN s[j] ELSE e
  BY <1>0, <1>1, <1>3, ConcatProperties
<1> HIDE DEF c
<1> DEFINE n == Len(s)
           t == c \o b
<1>5. k \in Nat /\ n \in Nat /\ k <= n
  BY <1>0
<1> HIDE DEF n
<1>6. /\ t \in Seq(S) /\ Len(t) = Len(c) + Len(b)
      /\ \A j \in 1..(Len(c) + Len(b)) : t[j] = IF j <= Len(c) THEN c[j] ELSE b[j - Len(c)]
  BY <1>2, <1>4, ConcatProperties
<1> HIDE DEF t
<1>7. Len(c) + Len(b) = n + 1
  BY <1>2, <1>4, <1>5 DEF n
<1>8. ASSUME NEW j \in 1..(n + 1)
      PROVE  t[j] = IF j <= k THEN s[j] ELSE IF j = k + 1 THEN e ELSE s[j - 1]
  <2>1. CASE j <= k + 1
    BY <2>1, <1>4, <1>5, <1>6, <1>7
  <2>2. CASE j > k + 1
    <3> DEFINE l == j - (k + 1)
    <3>1. l \in 1..(n - k) /\ k + l = j - 1
      BY <2>2, <1>5
    <3>2. t[j] = b[l]
      BY <2>2, <1>4, <1>5, <1>6, <1>7
    <3> QED
      BY <2>2, <1>2, <1>5, <3>1, <3>2 DEF n
  <2> QED
    BY <2>1, <2>2, <1>5
<1>9. Seqs!InsertAt(s, q, e) = t
  BY <1>0 DEF Seqs!InsertAt, t, c, a, b, k
<1>10. \A j \in 1..(n + 1) : j <= k <=> j < q
  BY <1>0, <1>5
<1> QED
  BY <1>0, <1>6, <1>7, <1>8, <1>9, <1>10 DEF n

(* The queue: typed, and every item in one place. *)
QueueInv == QueueTypeOK /\ OnePlace

LEMMA PositionFacts ==
    ASSUME NEW ms \in Seq(Messages), NEW i \in Ids(ms)
    PROVE  Position(ms, i) \in 1..Len(ms) /\ ms[Position(ms, i)][1] = i
BY DEF Ids, Position

(* A message of the list, and its item. *)
LEMMA MessageFacts ==
    ASSUME NEW m \in Messages
    PROVE  m[1] \in Items /\ m # NoRid /\ m \in Rids
BY ItemAssumption DEF Messages, Rids

LEMMA FlyingFacts ==
    ASSUME QueueTypeOK
    PROVE  /\ inFlight = NotInFlight <=> inFlight.rid = NoRid
           /\ inFlight # NotInFlight => inFlight.rid \in Messages
           /\ inFlight.steer => inFlight # NotInFlight
<1>1. CASE inFlight = NotInFlight
  BY <1>1 DEF NotInFlight
<1>2. CASE inFlight \in [rid : Messages, steer : BOOLEAN, after : Items \cup {NoItem}]
  BY <1>2, MessageFacts DEF NotInFlight
<1> QED
  BY <1>1, <1>2 DEF QueueTypeOK, InFlights

(* The rest of a write of the list. *)
LEMMA NextQueue ==
    ASSUME QueueTypeOK, NEW ms \in Seq(Messages), nextPromptQueue(ms)
    PROVE  QueueTypeOK' /\ messages' = ms /\ inFlight' = inFlight
BY DEF QueueTypeOK, nextPromptQueue

LEMMA EnqueueStep ==
    ASSUME QueueInv, NEW i \in Items, enqueuePromptQueueMessage(i)
    PROVE  QueueInv' /\ HeldItems \cup {i} \subseteq HeldItems'
<1> DEFINE m == <<i, 0>>
           ms == Append(messages, m)
<1>1. m \in Messages /\ m[1] = i
  BY ItemAssumption DEF Messages
<1>2. messages \in Seq(Messages)
  BY DEF QueueInv, QueueTypeOK
<1>3. /\ ms \in Seq(Messages) /\ Len(ms) = Len(messages) + 1
      /\ \A k \in 1..Len(messages) : ms[k] = messages[k]
      /\ ms[Len(messages) + 1] = m
  BY <1>1, <1>2, AppendProperties
<1>4. QueueTypeOK' /\ messages' = ms /\ inFlight' = inFlight
  BY <1>3, NextQueue DEF QueueInv, enqueuePromptQueueMessage
<1> HIDE DEF m, ms
<1>5. \A k \in 1..Len(messages) : messages[k][1] # i
  BY DEF enqueuePromptQueueMessage, Held, Ids
<1>6. ~Flying(i)
  BY DEF enqueuePromptQueueMessage, Held
<1>7. OnePlace'
  BY <1>1, <1>2, <1>3, <1>4, <1>5, <1>6 DEF QueueInv, OnePlace, Flying
<1>8. HeldItems \cup {i} \subseteq HeldItems'
  BY <1>1, <1>2, <1>3, <1>4 DEF HeldItems, Ids, Flying
<1> QED
  BY <1>4, <1>7, <1>8 DEF QueueInv

LEMMA RemoveStep ==
    ASSUME QueueInv, NEW i \in Items, removePromptQueueMessage(i)
    PROVE  QueueInv' /\ HeldItems \subseteq HeldItems' \cup {i}
<1> DEFINE k == Position(messages, i)
           ms == Without(messages, i)
<1>1. messages \in Seq(Messages)
  BY DEF QueueInv, QueueTypeOK
<1>2. k \in 1..Len(messages) /\ messages[k][1] = i
  BY <1>1, PositionFacts DEF removePromptQueueMessage
<1> HIDE DEF k
<1>3. /\ ms \in Seq(Messages) /\ Len(ms) = Len(messages) - 1
      /\ \A j \in 1..Len(ms) : ms[j] = IF j < k THEN messages[j] ELSE messages[j + 1]
  BY <1>1, <1>2, RemoveAtFacts DEF Without, k
<1>4. QueueTypeOK' /\ messages' = ms /\ inFlight' = inFlight
  BY <1>3, NextQueue DEF QueueInv, removePromptQueueMessage
<1> HIDE DEF ms
<1>5. OnePlace'
  <2> DEFINE p(j) == IF j < k THEN j ELSE j + 1
  <2>1. \A j \in 1..Len(ms) : p(j) \in 1..Len(messages) /\ ms[j] = messages[p(j)]
    BY <1>1, <1>2, <1>3
  <2>2. \A j, l \in 1..Len(ms) : p(j) = p(l) => j = l
    BY <1>1, <1>2, <1>3
  <2> HIDE DEF p
  <2> QED
    <3>1. \A j, l \in 1..Len(ms) : ms[j][1] = ms[l][1] => j = l
      BY <2>1, <2>2 DEF QueueInv, OnePlace
    <3>2. \A j \in 1..Len(ms) : ~Flying(ms[j][1])
      BY <2>1 DEF QueueInv, OnePlace
    <3> QED
      BY <1>4, <3>1, <3>2 DEF OnePlace, Flying
<1>6. ASSUME NEW j \in 1..Len(messages), j # k PROVE messages[j][1] \in Ids(ms)
  <2>1. CASE j < k
    BY <2>1, <1>1, <1>2, <1>3 DEF Ids
  <2>2. CASE j > k
    BY <2>2, <1>1, <1>2, <1>3, ms[j - 1] = messages[j] DEF Ids
  <2> QED
    BY <2>1, <2>2, <1>6, <1>2
<1>7. HeldItems \subseteq HeldItems' \cup {i}
  BY <1>1, <1>2, <1>4, <1>6 DEF HeldItems, Ids, Flying
<1> QED
  BY <1>4, <1>5, <1>7 DEF QueueInv

LEMMA MoveStep ==
    ASSUME QueueInv, NEW k, movePromptQueueMessage(k)
    PROVE  QueueInv' /\ HeldItems \subseteq HeldItems'
<1> DEFINE ms == [messages EXCEPT ![k] = messages[k + 1], ![k + 1] = messages[k]]
           p(j) == IF j = k THEN k + 1 ELSE IF j = k + 1 THEN k ELSE j
<1>1. /\ messages \in Seq(Messages) /\ Len(messages) \in Nat
      /\ k \in 1..Len(messages) /\ k + 1 \in 1..Len(messages)
  BY DEF QueueInv, QueueTypeOK, movePromptQueueMessage
<1>2. /\ ms \in Seq(Messages) /\ Len(ms) = Len(messages)
      /\ \A j \in 1..Len(messages) : ms[j] = messages[p(j)]
  BY <1>1
<1>3. /\ \A j \in 1..Len(messages) : p(j) \in 1..Len(messages) /\ p(p(j)) = j
      /\ \A j, l \in 1..Len(messages) : p(j) = p(l) => j = l
  BY <1>1
<1>4. QueueTypeOK' /\ messages' = ms /\ inFlight' = inFlight
  BY <1>2, NextQueue DEF QueueInv, movePromptQueueMessage
<1> HIDE DEF ms, p
<1>5. \A j, l \in 1..Len(ms) : ms[j][1] = ms[l][1] => j = l
  BY <1>2, <1>3 DEF QueueInv, OnePlace
<1>6. \A j \in 1..Len(ms) : ~Flying(ms[j][1])
  BY <1>2, <1>3 DEF QueueInv, OnePlace
<1>7. OnePlace'
  BY <1>4, <1>5, <1>6 DEF OnePlace, Flying
<1>8. Ids(messages) \subseteq Ids(ms)
  <2> SUFFICES ASSUME NEW j \in 1..Len(messages) PROVE messages[j][1] \in Ids(ms)
    BY DEF Ids
  <2>1. ms[p(j)] = messages[j] /\ p(j) \in 1..Len(ms)
    BY <1>2, <1>3
  <2> QED
    BY <2>1 DEF Ids
<1> QED
  BY <1>4, <1>7, <1>8 DEF QueueInv, HeldItems, Flying

LEMMA ReservationFacts ==
    ASSUME QueueInv
    PROVE  /\ Reservation \in Messages \cup {NoRid}
           /\ dispatchError = NoRid /\ inFlight # NotInFlight => Reservation = inFlight.rid
<1>1. messages \in Seq(Messages)
  BY DEF QueueInv, QueueTypeOK
<1>2. messages # <<>> => Head(messages) \in Messages
  BY <1>1
<1>3. inFlight # NotInFlight => inFlight.rid \in Messages
  BY FlyingFacts DEF QueueInv
<1> QED
  BY <1>2, <1>3 DEF Reservation

LEMMA ReserveStep ==
    ASSUME QueueInv, reservePromptQueueHeadForDispatch
    PROVE  QueueInv' /\ HeldItems \subseteq HeldItems'
<1>1. CASE dispatchError = NoRid /\ inFlight = NotInFlight /\ messages # <<>>
  <2> DEFINE h == Head(messages)
             ms == Tail(messages)
  <2>1. messages \in Seq(Messages)
    BY DEF QueueInv, QueueTypeOK
  <2>2. /\ h = messages[1] /\ h \in Messages /\ Len(messages) \in Nat \ {0}
        /\ ms \in Seq(Messages) /\ Len(ms) = Len(messages) - 1
        /\ \A j \in 1..Len(ms) : ms[j] = messages[j + 1]
    BY <1>1, <2>1, HeadTailProperties
  <2>3. /\ messages' = ms /\ UNCHANGED <<dispatchError, removedOrigins, minted>>
        /\ inFlight' = [rid |-> h, steer |-> FALSE, after |-> NoItem]
    BY <1>1 DEF reservePromptQueueHeadForDispatch
  <2> HIDE DEF h, ms
  <2>4. QueueTypeOK'
    BY <2>2, <2>3 DEF QueueInv, QueueTypeOK, InFlights
  <2>5. \A j, l \in 1..Len(ms) : ms[j][1] = ms[l][1] => j = l
    <3>1. \A j \in 1..Len(ms) : j + 1 \in 1..Len(messages)
      BY <2>2
    <3>2. \A j, l \in 1..Len(ms) : j + 1 = l + 1 => j = l
      BY <2>2
    <3> QED
      BY <2>2, <3>1, <3>2 DEF QueueInv, OnePlace
  <2>6. \A j \in 1..Len(ms) : ms[j][1] # h[1]
    <3>1. \A j \in 1..Len(ms) : j + 1 \in 1..Len(messages) /\ j + 1 # 1
      BY <2>2
    <3>2. 1 \in 1..Len(messages)
      BY <2>2
    <3> QED
      BY <2>2, <3>1, <3>2 DEF QueueInv, OnePlace
  <2>7. OnePlace'
    BY <2>3, <2>5, <2>6 DEF OnePlace, Flying
  <2>8. Ids(messages) \subseteq Ids(ms) \cup {h[1]}
    <3> SUFFICES ASSUME NEW j \in 1..Len(messages), j # 1 PROVE messages[j][1] \in Ids(ms)
      BY <2>2 DEF Ids
    <3>1. j - 1 \in 1..Len(ms) /\ (j - 1) + 1 = j
      BY <2>2
    <3> QED
      BY <2>2, <3>1 DEF Ids
  <2>9. {i \in Items : Flying(i)}' = {h[1]} /\ {i \in Items : Flying(i)} = {}
    BY <1>1, <2>2, <2>3, MessageFacts DEF Flying, NotInFlight
  <2> QED
    BY <2>3, <2>4, <2>7, <2>8, <2>9 DEF QueueInv, HeldItems
<1>2. CASE UNCHANGED queueVars
  BY <1>2 DEF QueueInv, QueueTypeOK, OnePlace, HeldItems, Flying, Ids, queueVars
<1> QED
  BY <1>1, <1>2 DEF reservePromptQueueHeadForDispatch

LEMMA AcknowledgeStep ==
    ASSUME QueueInv, NEW r, acknowledgePromptQueueDispatch(r)
    PROVE  /\ QueueInv'
           /\ HeldItems \subseteq HeldItems' \/ (r \in Messages /\ HeldItems \subseteq HeldItems' \cup {r[1]})
<1>1. QueueTypeOK'
  BY DEF QueueInv, QueueTypeOK, InFlights, acknowledgePromptQueueDispatch
<1>2. OnePlace'
  BY DEF QueueInv, OnePlace, Flying, acknowledgePromptQueueDispatch
<1>3. CASE inFlight.rid = r /\ inFlight # NotInFlight
  <2>1. r \in Messages
    BY <1>3, FlyingFacts DEF QueueInv
  <2> QED
    BY <1>1, <1>2, <1>3, <2>1 DEF QueueInv, HeldItems, Flying, Ids, acknowledgePromptQueueDispatch
<1>4. CASE inFlight.rid # r \/ inFlight = NotInFlight
  BY <1>1, <1>2, <1>4 DEF QueueInv, HeldItems, Flying, Ids, acknowledgePromptQueueDispatch
<1> QED
  BY <1>3, <1>4

LEMMA FailStep ==
    ASSUME QueueInv, NEW r \in Messages, NEW retired, failPromptQueueDispatch(r, retired)
    PROVE  QueueInv' /\ HeldItems \subseteq HeldItems'
<1>1. CASE inFlight.rid = r
  <2> DEFINE i == r[1]
             failed == IF retired THEN <<i, minted[i] + 1>> ELSE r
             ms == <<failed>> \o messages
  <2>1. messages \in Seq(Messages)
    BY DEF QueueInv, QueueTypeOK
  <2>2. i \in Items /\ minted[i] \in 0..MaxMint /\ inFlight # NotInFlight /\ MaxMint \in Nat
    BY <1>1, MessageFacts, ItemAssumption DEF QueueInv, QueueTypeOK, NotInFlight
  <2>3. /\ retired => minted[i] < MaxMint
        /\ messages' = ms /\ inFlight' = NotInFlight /\ dispatchError' = failed
        /\ minted' = [minted EXCEPT ![i] = IF retired THEN @ + 1 ELSE @]
        /\ UNCHANGED removedOrigins
    BY <1>1 DEF failPromptQueueDispatch
  <2>4. failed \in Messages /\ failed[1] = i
    BY <2>2, <2>3 DEF Messages
  <2> HIDE DEF failed
  <2>5. /\ ms \in Seq(Messages) /\ Len(ms) = Len(messages) + 1
        /\ \A j \in 1..(Len(messages) + 1) : ms[j] = IF j = 1 THEN failed ELSE messages[j - 1]
    <3>1. <<failed>> \in Seq(Messages) /\ Len(<<failed>>) = 1 /\ <<failed>>[1] = failed
      BY <2>4
    <3> QED
      BY <2>1, <3>1, ConcatProperties
  <2> HIDE DEF ms
  <2>6. QueueTypeOK'
    BY <2>2, <2>3, <2>4, <2>5 DEF QueueInv, QueueTypeOK, InFlights
  <2>7. \A j \in 1..Len(messages) : messages[j][1] # i
    BY <1>1, <2>2 DEF QueueInv, OnePlace, Flying
  <2>8. \A j \in 1..Len(ms) : j # 1 => j - 1 \in 1..Len(messages)
    BY <2>1, <2>5
  <2>9. ASSUME NEW j \in 1..Len(ms), NEW l \in 1..Len(ms), ms[j][1] = ms[l][1]
        PROVE  j = l
    <3>1. /\ ms[j] = IF j = 1 THEN failed ELSE messages[j - 1]
          /\ ms[l] = IF l = 1 THEN failed ELSE messages[l - 1]
      BY <2>1, <2>5
    <3>2. CASE j = 1 \/ l = 1
      BY <2>4, <2>7, <2>8, <2>9, <3>1, <3>2
    <3>3. CASE j # 1 /\ l # 1
      <4>1. j - 1 = l - 1
        BY <2>8, <2>9, <3>1, <3>3 DEF QueueInv, OnePlace
      <4> QED
        BY <4>1, <2>1, <2>5
    <3> QED
      BY <3>2, <3>3
  <2>10. OnePlace'
    BY <2>3, <2>9 DEF OnePlace, Flying
  <2>11. Ids(messages) \cup {i} \subseteq Ids(ms)
    <3>1. i \in Ids(ms)
      BY <2>1, <2>4, <2>5 DEF Ids
    <3>2. ASSUME NEW j \in 1..Len(messages) PROVE messages[j][1] \in Ids(ms)
      <4>1. j + 1 \in 1..Len(ms) /\ j + 1 # 1 /\ (j + 1) - 1 = j
        BY <2>1, <2>5
      <4>2. ms[j + 1] = messages[j]
        BY <2>1, <2>5
      <4> QED
        BY <4>1, <4>2 DEF Ids
    <3> QED
      BY <3>1, <3>2 DEF Ids
  <2> QED
    BY <1>1, <2>3, <2>6, <2>10, <2>11 DEF QueueInv, HeldItems, Flying
<1>2. CASE inFlight.rid # r
  BY <1>2 DEF failPromptQueueDispatch, QueueInv, QueueTypeOK, OnePlace, HeldItems, Flying, Ids, queueVars
<1> QED
  BY <1>1, <1>2

LEMMA RetryStep ==
    ASSUME QueueInv, retryPromptQueueDispatch
    PROVE  QueueInv' /\ HeldItems' = HeldItems
BY DEF retryPromptQueueDispatch, QueueInv, QueueTypeOK, OnePlace, HeldItems, Flying, Ids

LEMMA SteerSourceStep ==
    ASSUME QueueInv, inFlight = NotInFlight, NEW i \in Ids(messages), reserveSteerSource(i)
    PROVE  /\ QueueInv' /\ HeldItems \subseteq HeldItems'
           /\ inFlight'.rid = messages[Position(messages, i)]
           /\ inFlight'.rid \in Messages /\ inFlight'.rid[1] = i
<1> DEFINE k == Position(messages, i)
           ms == Without(messages, i)
           after == IF k = 1 THEN NoItem ELSE messages[k - 1][1]
<1>1. messages \in Seq(Messages) /\ Len(messages) \in Nat
  BY DEF QueueInv, QueueTypeOK
<1>2. k \in 1..Len(messages) /\ messages[k][1] = i
  BY <1>1, PositionFacts
<1>3. /\ messages' = ms
      /\ inFlight' = [rid |-> messages[k], steer |-> TRUE, after |-> after]
      /\ UNCHANGED <<dispatchError, removedOrigins, minted>>
  BY DEF reserveSteerSource
<1> HIDE DEF k, after
<1>4. /\ ms \in Seq(Messages) /\ Len(ms) = Len(messages) - 1
      /\ \A j \in 1..Len(ms) : ms[j] = IF j < k THEN messages[j] ELSE messages[j + 1]
  BY <1>1, <1>2, RemoveAtFacts DEF Without, k
<1> HIDE DEF ms
<1>5. messages[k] \in Messages /\ i \in Items
  BY <1>1, <1>2, MessageFacts
<1>6. after \in Items \cup {NoItem}
  <2>1. k # 1 => k - 1 \in 1..Len(messages)
    BY <1>1, <1>2
  <2> QED
    BY <1>1, <2>1, MessageFacts DEF after
<1>7. QueueTypeOK'
  BY <1>3, <1>4, <1>5, <1>6 DEF QueueInv, QueueTypeOK, InFlights
<1> DEFINE p(j) == IF j < k THEN j ELSE j + 1
<1>8. \A j \in 1..Len(ms) : /\ p(j) \in 1..Len(messages) /\ ms[j] = messages[p(j)]
                             /\ p(j) # k
  BY <1>1, <1>2, <1>4
<1>9. \A j, l \in 1..Len(ms) : p(j) = p(l) => j = l
  BY <1>1, <1>2, <1>4
<1> HIDE DEF p
<1>10. \A j, l \in 1..Len(ms) : ms[j][1] = ms[l][1] => j = l
  BY <1>8, <1>9 DEF QueueInv, OnePlace
<1>11. \A j \in 1..Len(ms) : ms[j][1] # i
  BY <1>2, <1>8 DEF QueueInv, OnePlace
<1>12. OnePlace'
  BY <1>2, <1>3, <1>10, <1>11 DEF OnePlace, Flying
<1>13. ASSUME NEW j \in 1..Len(messages), j # k PROVE messages[j][1] \in Ids(ms)
  <2>1. CASE j < k
    BY <2>1, <1>1, <1>2, <1>4 DEF Ids
  <2>2. CASE j > k
    <3>1. j - 1 \in 1..Len(ms) /\ ms[j - 1] = messages[j]
      BY <2>2, <1>1, <1>2, <1>4
    <3> QED
      BY <3>1 DEF Ids
  <2> QED
    BY <2>1, <2>2, <1>13, <1>2
<1>14. HeldItems \subseteq HeldItems'
  <2>1. {l \in Items : Flying(l)} = {}
    BY DEF Flying
  <2>2. i \in HeldItems'
    BY <1>2, <1>3, <1>5, MessageFacts DEF HeldItems, Flying, NotInFlight
  <2>3. Ids(messages) \subseteq Ids(ms) \cup {i}
    BY <1>2, <1>13 DEF Ids
  <2> QED
    BY <1>3, <2>1, <2>2, <2>3 DEF HeldItems
<1> QED
  BY <1>2, <1>3, <1>5, <1>7, <1>12, <1>14 DEF QueueInv, k

LEMMA SettleSourceStep ==
    ASSUME QueueInv, NEW r, NEW how, settlePromptQueueSteerSource(r, how)
    PROVE  /\ QueueInv'
           /\ \/ HeldItems \subseteq HeldItems'
              \/ how # "restore" /\ r \in Messages /\ HeldItems \subseteq HeldItems' \cup {r[1]}
<1>1. CASE inFlight.steer /\ inFlight.rid = r
  <2>1. inFlight # NotInFlight /\ r \in Messages /\ r[1] \in Items /\ Flying(r[1])
    BY <1>1, FlyingFacts, MessageFacts DEF QueueInv, Flying
  <2>2. messages \in Seq(Messages) /\ Len(messages) \in Nat
    BY DEF QueueInv, QueueTypeOK
  <2>3. CASE how = "restore"
    <3> DEFINE k == IF inFlight.after \in Ids(messages)
                    THEN Position(messages, inFlight.after) ELSE 0
               q == k + 1
               ms == Seqs!InsertAt(messages, q, r)
    <3>1. \A j \in 1..Len(messages) : messages[j][1] # r[1]
      BY <2>1 DEF QueueInv, OnePlace
    <3>2. Others(messages, r[1]) = messages
      BY <3>1 DEF Others, Ids
    <3>3. /\ messages' = ms /\ inFlight' = NotInFlight
          /\ UNCHANGED <<dispatchError, removedOrigins, minted>>
      BY <1>1, <2>3, <3>2 DEF settlePromptQueueSteerSource, restoreSteeredQueueItem
    <3>4. q \in 1..(Len(messages) + 1)
      BY <2>2, PositionFacts
    <3> HIDE DEF q
    <3>5. /\ ms \in Seq(Messages) /\ Len(ms) = Len(messages) + 1
          /\ \A j \in 1..(Len(messages) + 1) :
                ms[j] = IF j < q THEN messages[j] ELSE IF j = q THEN r ELSE messages[j - 1]
      BY <2>1, <2>2, <3>4, InsertAtFacts
    <3> HIDE DEF ms
    <3>6. QueueTypeOK'
      BY <3>3, <3>5 DEF QueueInv, QueueTypeOK, InFlights
    <3> DEFINE p(j) == IF j < q THEN j ELSE j - 1
    <3>7. \A j \in 1..Len(ms) : j # q => p(j) \in 1..Len(messages) /\ ms[j] = messages[p(j)]
      BY <2>2, <3>4, <3>5
    <3>8. \A j, l \in 1..Len(ms) : j # q /\ l # q /\ p(j) = p(l) => j = l
      BY <2>2, <3>4, <3>5
    <3>9. q \in 1..Len(ms) /\ ms[q] = r
      BY <2>2, <3>4, <3>5
    <3> HIDE DEF p
    <3>10. ASSUME NEW j \in 1..Len(ms), NEW l \in 1..Len(ms), ms[j][1] = ms[l][1]
           PROVE  j = l
      <4>1. CASE j = q \/ l = q
        BY <4>1, <3>1, <3>7, <3>9, <3>10
      <4>2. CASE j # q /\ l # q
        <5>1. p(j) = p(l)
          BY <4>2, <3>7, <3>10 DEF QueueInv, OnePlace
        <5> QED
          BY <4>2, <5>1, <3>8
      <4> QED
        BY <4>1, <4>2
    <3>11. OnePlace'
      BY <3>3, <3>10 DEF OnePlace, Flying
    <3>12. ASSUME NEW j \in 1..Len(messages) PROVE messages[j][1] \in Ids(ms)
      <4>1. CASE j < q
        <5>1. j \in 1..Len(ms) /\ ms[j] = messages[j]
          BY <4>1, <2>2, <3>4, <3>5
        <5> QED
          BY <5>1 DEF Ids
      <4>2. CASE j >= q
        <5>1. j + 1 \in 1..Len(ms) /\ ms[j + 1] = messages[j]
          BY <4>2, <2>2, <3>4, <3>5
        <5> QED
          BY <5>1 DEF Ids
      <4> QED
        BY <4>1, <4>2, <3>4
    <3>13. Ids(messages) \cup {r[1]} \subseteq Ids(ms)
      BY <3>9, <3>12 DEF Ids
    <3> QED
      BY <1>1, <3>3, <3>6, <3>11, <3>13 DEF QueueInv, HeldItems, Flying
  <2>4. CASE how # "restore"
    BY <1>1, <2>1, <2>4 DEF settlePromptQueueSteerSource, QueueInv, QueueTypeOK, OnePlace, InFlights,
       HeldItems, Flying, Ids
  <2> QED
    BY <2>3, <2>4
<1>2. CASE UNCHANGED queueVars
  BY <1>2 DEF QueueInv, QueueTypeOK, OnePlace, HeldItems, Flying, Ids, queueVars
<1> QED
  BY <1>1, <1>2 DEF settlePromptQueueSteerSource

-----------------------------------------------------------------------------
(* The flows: which requests a flow works for, by where it is.             *)

SteerRids == (Items \cup Steers) \X (0..MaxMint)
PromptRids == (Items \cup Prompts) \X (0..MaxMint)

DrainHolds == {"dispatch", "sending", "record", "defer", "fail", "retired", "steer",
               "steering"}

(* The requests a flow works for, by where it is. *)
Kinds(a, f) ==
    /\ f.at = "idle" => f = Idle
    /\ f.at \in {"steer", "steering"} => f.own \in SteerRids
    /\ f.at \in {"dispatch", "sending", "record"} \/ f.retry => f.own \in PromptRids
    /\ a = "steer" => f.own \in SteerRids \cup {NoRid}
    /\ a = "steer" /\ f.at = "reconcile" => f.own # NoRid
    /\ f.at = "probed" => a = "steer" /\ f.own \in Messages
    /\ f.at = "reserving" => a = "steer" /\ f.own \in SteerRids
    /\ a = "drain" /\ (f.at \in DrainHolds \/ f.keep) => f.own \in Messages
    /\ a = "drain" /\ f.at \in {"recover", "reconcile"} => f.own = NoRid

FlowsOK == /\ proc \in [Actors -> Procs]
           /\ \A a \in Actors : Kinds(a, proc[a])

RecordTypes ==
    /\ pendingDispatch \in PromptRids \cup {NoRid}
    /\ pendingSteer \in {NoSteer}
          \cup [rid : SteerRids, source : BOOLEAN, settle : Settlements]
    /\ dispatched \subseteq Rids

LEMMA RidFacts ==
    /\ Messages \subseteq SteerRids /\ Messages \subseteq PromptRids
    /\ SteerRids \subseteq Rids /\ PromptRids \subseteq Rids
    /\ NoRid \notin Rids /\ NoRid \notin SteerRids /\ NoRid \notin PromptRids
    /\ NoRid \notin Messages
BY ItemAssumption DEF Messages, SteerRids, PromptRids, Rids

LEMMA SteerFacts ==
    ASSUME RecordTypes
    PROVE  /\ pendingSteer.rid \in SteerRids \cup {NoRid}
           /\ pendingSteer.rid = NoRid <=> pendingSteer = NoSteer
           /\ pendingSteer.settle \in Settlements /\ pendingSteer.source \in BOOLEAN
<1>1. CASE pendingSteer = NoSteer
  BY <1>1 DEF NoSteer, Settlements
<1>2. CASE pendingSteer \in [rid : SteerRids, source : BOOLEAN, settle : Settlements]
  BY <1>2, RidFacts DEF NoSteer
<1> QED
  BY <1>1, <1>2 DEF RecordTypes

(* A flow that is over. *)
LEMMA IdleOK == ASSUME NEW a PROVE Idle \in Procs /\ Kinds(a, Idle)
BY DEF Idle, Procs, Kinds, Locations, Settlements, DrainHolds

(* One flow moves. *)
LEMMA MoveFlow ==
    ASSUME FlowsOK, NEW a \in Actors, NEW f \in Procs, Kinds(a, f),
           proc' = [proc EXCEPT ![a] = f]
    PROVE  FlowsOK'
BY DEF FlowsOK

LEMMA StopFlow ==
    ASSUME FlowsOK, NEW a \in Actors, Stop(a)
    PROVE  FlowsOK'
BY IdleOK, MoveFlow DEF Stop

(* A flow goes on at loc, which asks nothing new of its request. *)
LEMMA GotoFlow ==
    ASSUME FlowsOK, NEW a \in Actors, NEW loc \in Locations, Goto(a, loc),
           Kinds(a, [proc[a] EXCEPT !.at = loc])
    PROVE  FlowsOK'
<1> DEFINE f == [proc[a] EXCEPT !.at = loc]
<1>1. f \in Procs
  BY DEF FlowsOK, Procs
<1>2. proc' = [proc EXCEPT ![a] = f]
  BY DEF Goto
<1> HIDE DEF f
<1>3. Kinds(a, f)
  BY DEF f
<1> QED
  BY <1>1, <1>2, <1>3, MoveFlow

LEMMA CompleteFlow ==
    ASSUME FlowsOK, RecordTypes, NEW a \in Actors, NEW how \in Settlements, NEW ok \in BOOLEAN,
           Complete(a, how, ok)
    PROVE  FlowsOK'
<1> DEFINE f == [proc[a] EXCEPT !.at = IF pendingSteer.source THEN "intent" ELSE "finish",
                                !.rid = pendingSteer.rid, !.how = how, !.ok = ok]
<1>1. proc[a] \in Procs /\ Kinds(a, proc[a])
  BY DEF FlowsOK
<1>2. f \in Procs
  BY <1>1, SteerFacts, RidFacts DEF Procs, Locations
<1>3. proc' = [proc EXCEPT ![a] = f]
  BY <1>1 DEF Complete, FlowsOK, Procs
<1>4. Kinds(a, f)
  BY <1>1 DEF Kinds, Procs, DrainHolds
<1> HIDE DEF f
<1> QED
  BY <1>2, <1>3, <1>4, MoveFlow

LEMMA ResumeFlow ==
    ASSUME FlowsOK, NEW a \in Actors, NEW ok, proc' = [proc EXCEPT ![a] = Resume(a, ok)]
    PROVE  FlowsOK'
<1>1. proc[a] \in Procs /\ Kinds(a, proc[a])
  BY DEF FlowsOK
<1>2. CASE a = "composer" /\ ok /\ proc[a].retry
  <2> DEFINE f == [proc[a] EXCEPT !.at = "dispatch", !.retry = FALSE]
  <2>1. f \in Procs
    BY <1>1 DEF Procs, Locations
  <2>2. Kinds(a, f)
    BY <1>1, <1>2 DEF Kinds, Procs, DrainHolds
  <2>3. proc' = [proc EXCEPT ![a] = f]
    BY <1>2 DEF Resume
  <2> HIDE DEF f
  <2> QED
    BY <2>1, <2>2, <2>3, MoveFlow
<1>3. CASE ~(a = "composer" /\ ok /\ proc[a].retry)
  BY <1>3, IdleOK, MoveFlow DEF Resume
<1> QED
  BY <1>2, <1>3

(* The flows stay well formed in a step of flow a. *)
LEMMA FlowsFlow ==
    ASSUME FlowsOK, RecordTypes, QueueInv, NEW a \in Actors, Flow(a)
    PROVE  FlowsOK'
<1>0. proc[a] \in Procs /\ Kinds(a, proc[a])
  BY DEF FlowsOK
<1>1. CASE Intent(a)
  BY <1>0, <1>1, GotoFlow DEF Intent, At, Kinds, Locations, Procs, DrainHolds
<1>2. CASE Source(a)
  BY <1>0, <1>2, GotoFlow DEF Source, At, Kinds, Locations, Procs, DrainHolds
<1>3. CASE Finish(a)
  <2>1. CASE proc[a].how = "applied" /\ proc[a].rid[1] \in Answers
    <3>1. Goto(a, "ack")
      BY <1>3, <2>1 DEF Finish, Goto
    <3> QED
      BY <1>0, <1>3, <3>1, GotoFlow DEF Finish, At, Kinds, Locations, Procs, DrainHolds
  <2>2. CASE ~(proc[a].how = "applied" /\ proc[a].rid[1] \in Answers)
    BY <1>3, <2>2, ResumeFlow DEF Finish
  <2> QED
    BY <2>1, <2>2
<1>4. CASE Acknowledge(a)
  BY <1>4, ResumeFlow DEF Acknowledge
<1>5. CASE Recover(a)
  <2>1. CASE Parked(proc[a].rid) /\ pendingSteer.settle = "none"
    <3>1. CASE proc[a].own = NoRid /\ a = "steer"
      BY <1>5, <2>1, <3>1, StopFlow DEF Recover
    <3>2. CASE ~(proc[a].own = NoRid /\ a = "steer")
      <4>1. Goto(a, "reconcile") /\ proc[a].at = "recover"
        BY <1>5, <2>1, <3>2 DEF Recover, At
      <4> QED
        BY <1>0, <3>2, <4>1, GotoFlow DEF Kinds, Locations, Procs, DrainHolds
    <3> QED
      BY <3>1, <3>2
  <2>2. CASE Parked(proc[a].rid) /\ pendingSteer.settle # "none"
    <3>1. Complete(a, pendingSteer.settle, pendingSteer.settle = "applied")
      BY <1>5, <2>2 DEF Recover
    <3> QED
      BY <3>1, CompleteFlow, SteerFacts
  <2>3. CASE ~Parked(proc[a].rid)
    BY <1>5, <2>3, ResumeFlow DEF Recover
  <2> QED
    BY <2>1, <2>2, <2>3
<1>6. CASE Reconcile(a)
  <2>1. CASE Stop(a)
    BY <2>1, StopFlow
  <2>2. CASE \E how \in Settlements : Complete(a, how, TRUE)
    BY <2>2, CompleteFlow
  <2>3. CASE a = "steer" /\ Goto(a, "steer") /\ proc[a].at = "reconcile"
    BY <1>0, <2>3, GotoFlow DEF Kinds, Locations, Procs, DrainHolds
  <2> QED
    BY <1>6, <2>1, <2>2, <2>3, SteerFacts DEF Reconcile, At, Settlements
<1>7. CASE SteerOnce(a)
  <2>1. CASE Goto(a, "steering") /\ proc[a].at = "steer"
    BY <1>0, <2>1, GotoFlow DEF Kinds, Locations, Procs, DrainHolds
  <2>2. CASE Goto(a, "ack") /\ proc[a].at = "steer"
    BY <1>0, <2>2, GotoFlow DEF Kinds, Locations, Procs, DrainHolds
  <2>3. CASE Stop(a)
    BY <2>3, StopFlow
  <2> QED
    BY <1>7, <2>1, <2>2, <2>3 DEF SteerOnce, At
<1>8. CASE SteerSend(a)
  <2>1. CASE \E how \in Settlements : Complete(a, how, FALSE)
    BY <2>1, CompleteFlow
  <2>2. CASE Stop(a)
    BY <2>2, StopFlow
  <2> QED
    BY <1>8, <2>1, <2>2 DEF SteerSend, Settlements
<1>9. CASE Dispatch(a)
  <2>0. proc[a].at = "dispatch"
    BY <1>9 DEF Dispatch, At
  <2>1. CASE \E rid \in Rids, loc \in {"recover", "status"} : Conflict(a, rid, loc)
    <3>1. PICK rid \in Rids, loc \in {"recover", "status"} : Conflict(a, rid, loc)
      BY <2>1
    <3>2. CASE a = "drain"
      <4>1. Goto(a, "defer")
        BY <3>1, <3>2 DEF Conflict, Goto
      <4> QED
        BY <1>0, <2>0, <3>2, <4>1, GotoFlow DEF Kinds, Locations, Procs, DrainHolds
    <3>3. CASE a # "drain" /\ proc[a].retry
      <4> DEFINE f == [proc[a] EXCEPT !.at = loc, !.rid = rid]
      <4>1. f \in Procs
        BY <1>0, <3>1 DEF Procs, Locations
      <4>2. Kinds(a, f)
        BY <1>0, <2>0, <3>1, <3>3 DEF Kinds, Procs, DrainHolds
      <4>3. proc' = [proc EXCEPT ![a] = f]
        BY <3>1, <3>3 DEF Conflict
      <4> HIDE DEF f
      <4> QED
        BY <4>1, <4>2, <4>3, MoveFlow
    <3>4. CASE a # "drain" /\ ~proc[a].retry
      BY <3>1, <3>4, IdleOK, MoveFlow DEF Conflict
    <3> QED
      BY <3>2, <3>3, <3>4
  <2>2. CASE Goto(a, "ack") \/ Goto(a, "sending")
    BY <1>0, <2>0, <2>2, GotoFlow DEF Kinds, Locations, Procs, DrainHolds
  <2>3. CASE Stop(a)
    BY <2>3, StopFlow
  <2>4. /\ pendingSteer # NoSteer => pendingSteer.rid \in Rids
        /\ pendingDispatch # NoRid => pendingDispatch \in Rids
    BY SteerFacts, RidFacts DEF RecordTypes
  <2> QED
    BY <1>9, <2>1, <2>2, <2>3, <2>4 DEF Dispatch
<1>10. CASE Send(a)
  <2>0. proc[a].at = "sending"
    BY <1>10 DEF Send, At
  <2>1. CASE \E loc \in {"record", "defer", "fail", "clear", "retired", "clearRetired"} : Goto(a, loc)
    BY <1>0, <2>0, <2>1, GotoFlow DEF Kinds, Locations, Procs, DrainHolds
  <2>2. CASE proc' = [proc EXCEPT ![a].at = "status", ![a].rid = proc[a].own]
    <3> DEFINE f == [proc[a] EXCEPT !.at = "status", !.rid = proc[a].own]
    <3>1. f \in Procs
      BY <1>0 DEF Procs, Locations
    <3>2. Kinds(a, f)
      BY <1>0, <2>0 DEF Kinds, Procs, DrainHolds
    <3>3. proc' = [proc EXCEPT ![a] = f]
      BY <2>2, <1>0 DEF FlowsOK, Procs
    <3> HIDE DEF f
    <3> QED
      BY <3>1, <3>2, <3>3, MoveFlow
  <2> QED
    BY <1>10, <2>1, <2>2 DEF Send
<1>11. CASE Record(a)
  <2>1. CASE Goto(a, "ack") /\ proc[a].at = "record"
    BY <1>0, <2>1, GotoFlow DEF Kinds, Locations, Procs, DrainHolds
  <2> QED
    BY <1>11, <2>1, StopFlow DEF Record, At
<1>12. CASE Status(a)
  <2>1. CASE (Goto(a, "confirm") \/ Goto(a, "retire")) /\ proc[a].at = "status"
    BY <1>0, <2>1, GotoFlow DEF Kinds, Locations, Procs, DrainHolds
  <2> QED
    BY <1>12, <2>1, StopFlow DEF Status, At
<1>13. CASE Verdict(a)
  BY <1>13, ResumeFlow DEF Verdict
<1> QED
  BY <1>1, <1>2, <1>3, <1>4, <1>5, <1>6, <1>7, <1>8, <1>9, <1>10, <1>11, <1>12, <1>13
     DEF Flow

(* A flow takes request r and goes on at loc. *)
LEMMA TakeFlow ==
    ASSUME FlowsOK, NEW a \in Actors, NEW r \in Messages, NEW loc \in Locations,
           \/ a = "steer" /\ loc = "reserving"
           \/ a = "drain" /\ loc \in {"dispatch", "ack", "steer", "fail"},
           proc' = [proc EXCEPT ![a] = [proc[a] EXCEPT !.own = r, !.at = loc]]
    PROVE  FlowsOK'
<1> DEFINE f == [proc[a] EXCEPT !.own = r, !.at = loc]
<1>1. proc[a] \in Procs /\ Kinds(a, proc[a])
  BY DEF FlowsOK
<1>2. r \in SteerRids /\ r \in PromptRids /\ r \in Rids /\ r # NoRid
  BY RidFacts
<1>3. f \in Procs /\ f.own = r /\ f.at = loc
  BY <1>1, <1>2 DEF Procs
<1>4. proc' = [proc EXCEPT ![a] = f]
  OBVIOUS
<1> HIDE DEF f
<1>5. Kinds(a, f)
  BY <1>2, <1>3 DEF Kinds
<1> QED
  BY <1>3, <1>4, <1>5, MoveFlow

LEMMA FlowsRest ==
    ASSUME FlowsOK, RecordTypes, QueueInv,
           \/ \E i \in Items : SteerQueued(i)
           \/ \E p \in Steers : SteerPrompt(p)
           \/ \E p \in Prompts : ComposerSend(p)
           \/ ReserveSteer \/ ReserveSteerRecord \/ RetrySteer \/ RetryParked
           \/ SettleDispatch \/ SettleSteer \/ DiscardSteer \/ ClearRefused
           \/ DrainStart \/ DrainWait \/ DrainRefuse \/ Drain \/ Crash
    PROVE  FlowsOK'
<1>0. /\ \A a \in Actors : proc[a] \in Procs /\ Kinds(a, proc[a])
      /\ \A a \in Actors : proc[a].at = "idle" => proc[a] = Idle
      /\ DOMAIN proc = Actors
      /\ "drain" \in Actors /\ "steer" \in Actors /\ "composer" \in Actors /\ "settle" \in Actors
  BY DEF FlowsOK, Kinds, Actors
<1>1. ASSUME NEW i \in Items, SteerQueued(i) PROVE FlowsOK'
  <2>1. CASE inFlight.steer
    <3>1. inFlight.rid \in Rids
      BY <2>1, FlyingFacts, RidFacts DEF QueueInv
    <3>2. proc' = [proc EXCEPT !["steer"] = [Idle EXCEPT !.at = "recover", !.rid = inFlight.rid]]
      BY <1>0, <1>1, <2>1 DEF SteerQueued, At
    <3> DEFINE f == [Idle EXCEPT !.at = "recover", !.rid = inFlight.rid]
    <3>3. f \in Procs /\ Kinds("steer", f)
      BY <3>1 DEF Kinds, Idle, Procs, Locations, Settlements, DrainHolds
    <3> HIDE DEF f
    <3> QED
      BY <1>0, <3>2, <3>3, MoveFlow DEF f
  <2>2. CASE ~inFlight.steer
    <3> DEFINE m == <<i, 0>>
               f == [Idle EXCEPT !.at = "probed", !.own = m]
    <3>1. m \in Messages /\ m \in Rids /\ m \in SteerRids
      BY ItemAssumption, RidFacts DEF Messages
    <3>2. proc' = [proc EXCEPT !["steer"] = f]
      BY <1>0, <1>1, <2>2 DEF SteerQueued, At
    <3> HIDE DEF m
    <3>3. f \in Procs /\ Kinds("steer", f)
      BY <3>1 DEF Kinds, Idle, Procs, Locations, Settlements, DrainHolds
    <3> HIDE DEF f
    <3> QED
      BY <1>0, <3>2, <3>3, MoveFlow
  <2> QED
    BY <2>1, <2>2
<1>2. ASSUME NEW p \in Steers, SteerPrompt(p) PROVE FlowsOK'
  <2> DEFINE r == <<p, 0>>
             f == [Idle EXCEPT !.at = "steer", !.own = r]
  <2>1. r \in SteerRids /\ r \in Rids
    BY ItemAssumption, RidFacts DEF SteerRids
  <2>2. proc' = [proc EXCEPT !["composer"] = f]
    BY <1>0, <1>2 DEF SteerPrompt, At
  <2> HIDE DEF r
  <2>3. f \in Procs /\ Kinds("composer", f)
    BY <2>1 DEF Kinds, Idle, Procs, Locations, Settlements, DrainHolds
  <2> HIDE DEF f
  <2> QED
    BY <1>0, <2>2, <2>3, MoveFlow
<1>3. ASSUME NEW p \in Prompts, ComposerSend(p) PROVE FlowsOK'
  <2> DEFINE r == <<p, 0>>
             f == [Idle EXCEPT !.at = "dispatch", !.own = r, !.retry = TRUE]
  <2>1. r \in PromptRids /\ r \in Rids
    BY ItemAssumption, RidFacts DEF PromptRids
  <2>2. proc' = [proc EXCEPT !["composer"] = f]
    BY <1>0, <1>3 DEF ComposerSend, At
  <2> HIDE DEF r
  <2>3. f \in Procs /\ Kinds("composer", f)
    BY <2>1 DEF Kinds, Idle, Procs, Locations, Settlements, DrainHolds
  <2> HIDE DEF f
  <2> QED
    BY <1>0, <2>2, <2>3, MoveFlow
<1>4. ASSUME ReserveSteer PROVE FlowsOK'
  <2>1. CASE Steerable(proc["steer"].own[1])
    <3> DEFINE i == proc["steer"].own[1]
    <3>1. inFlight = NotInFlight /\ i \in Ids(messages) /\ reserveSteerSource(i)
      BY <1>4, <2>1 DEF ReserveSteer, Steerable
    <3>2. PICK r \in Messages : inFlight'.rid = r
      BY <3>1, SteerSourceStep
    <3>3. proc' = [proc EXCEPT !["steer"] = [proc["steer"] EXCEPT !.own = r, !.at = "reserving"]]
      BY <1>0, <1>4, <2>1, <3>2 DEF ReserveSteer, Procs
    <3>4. "reserving" \in Locations
      BY DEF Locations
    <3> QED
      BY <1>0, <3>3, <3>4, TakeFlow
  <2>2. CASE ~Steerable(proc["steer"].own[1])
    BY <1>0, <1>4, <2>2, StopFlow DEF ReserveSteer
  <2> QED
    BY <2>1, <2>2
<1>5. ASSUME ReserveSteerRecord PROVE FlowsOK'
  BY <1>0, <1>5, GotoFlow DEF ReserveSteerRecord, At, Kinds, Locations, Procs, DrainHolds
<1>6. ASSUME RetrySteer PROVE FlowsOK'
  <2> DEFINE r == pendingSteer.rid
             f == [Idle EXCEPT !.at = "recover", !.rid = r, !.own = r]
  <2>1. r \in SteerRids \cup {NoRid} /\ r \in Rids \cup {NoRid}
    BY SteerFacts, RidFacts
  <2>2. proc' = [proc EXCEPT !["steer"] = f]
    BY <1>0, <1>6 DEF RetrySteer, At, Procs
  <2> HIDE DEF r
  <2>3. f \in Procs /\ Kinds("steer", f)
    BY <2>1 DEF Kinds, Idle, Procs, Locations, Settlements, DrainHolds
  <2> HIDE DEF f
  <2> QED
    BY <1>0, <2>2, <2>3, MoveFlow
<1>7. ASSUME RetryParked PROVE FlowsOK'
  <2> DEFINE r == pendingDispatch
             f == [Idle EXCEPT !.at = "dispatch", !.own = r, !.retry = TRUE, !.keep = TRUE]
  <2>1. r \in PromptRids /\ r \in Rids
    BY <1>7, RidFacts DEF RetryParked, RecordTypes
  <2>2. proc' = [proc EXCEPT !["composer"] = f]
    BY <1>0, <1>7 DEF RetryParked, At, Procs
  <2> HIDE DEF r
  <2>3. f \in Procs /\ Kinds("composer", f)
    BY <2>1 DEF Kinds, Idle, Procs, Locations, Settlements, DrainHolds
  <2> HIDE DEF f
  <2> QED
    BY <1>0, <2>2, <2>3, MoveFlow
<1>8. ASSUME SettleDispatch \/ SettleSteer PROVE FlowsOK'
  <2>1. PICK loc \in {"status", "recover"}, r \in Rids \cup {NoRid} :
           proc' = [proc EXCEPT !["settle"].at = loc, !["settle"].rid = r] /\ At("settle", "idle")
    BY <1>8, SteerFacts, RidFacts DEF SettleDispatch, SettleSteer, RecordTypes
  <2> DEFINE f == [Idle EXCEPT !.at = loc, !.rid = r]
  <2>2. proc' = [proc EXCEPT !["settle"] = f]
    BY <1>0, <2>1 DEF At, Procs
  <2>3. f \in Procs /\ Kinds("settle", f)
    BY <2>1 DEF Kinds, Idle, Procs, Locations, Settlements, DrainHolds
  <2> HIDE DEF f
  <2> QED
    BY <1>0, <2>2, <2>3, MoveFlow
<1>9. ASSUME DiscardSteer PROVE FlowsOK'
  BY <1>0, <1>9, CompleteFlow DEF DiscardSteer, Settlements
<1>10. ASSUME ClearRefused \/ DrainWait \/ DrainFail PROVE FlowsOK'
  BY <1>0, <1>10, StopFlow DEF ClearRefused, DrainWait, DrainFail
<1>11. ASSUME DrainStart PROVE FlowsOK'
  <2>1. CASE inFlight.steer
    <3> DEFINE f == [Idle EXCEPT !.at = "recover", !.rid = inFlight.rid]
    <3>1. inFlight.rid \in Rids
      BY <2>1, FlyingFacts, RidFacts DEF QueueInv
    <3>2. proc' = [proc EXCEPT !["drain"] = f]
      BY <1>0, <1>11, <2>1 DEF DrainStart, At, Procs
    <3>3. f \in Procs /\ Kinds("drain", f)
      BY <3>1 DEF Kinds, Idle, Procs, Locations, Settlements, DrainHolds
    <3> HIDE DEF f
    <3> QED
      BY <1>0, <3>2, <3>3, MoveFlow
  <2>2. CASE ~inFlight.steer
    <3> DEFINE r == Reservation
               held == inFlight # NotInFlight
               f == [Idle EXCEPT !.at = "ready", !.own = r, !.keep = held]
    <3>1. r \in Messages \cup {NoRid} /\ (held => r \in Messages) /\ held \in BOOLEAN
      BY <1>11, <2>2, ReservationFacts, FlyingFacts DEF DrainStart, QueueInv
    <3>2. proc' = [proc EXCEPT !["drain"] = f]
      BY <1>0, <1>11, <2>2 DEF DrainStart, At, Procs
    <3> HIDE DEF r, held
    <3>3. f \in Procs /\ Kinds("drain", f)
      BY <3>1, RidFacts DEF Kinds, Idle, Procs, Locations, Settlements, DrainHolds
    <3> HIDE DEF f
    <3> QED
      BY <1>0, <3>2, <3>3, MoveFlow
  <2> QED
    BY <2>1, <2>2
<1>12. ASSUME DrainRefuse PROVE FlowsOK'
  <2>1. CASE Goto("drain", "fail") /\ proc["drain"].at = "dispatch"
    BY <1>0, <2>1, GotoFlow DEF Kinds, Locations, Procs, DrainHolds
  <2> QED
    BY <1>0, <1>12, <2>1, StopFlow DEF DrainRefuse, At
<1>13. ASSUME DrainProbe PROVE FlowsOK'
  <2>1. CASE \E loc \in {"reserve", "answer", "unheld"} : Goto("drain", loc)
    BY <1>0, <1>13, <2>1, GotoFlow DEF DrainProbe, At, Kinds, Locations, Procs, DrainHolds
  <2>2. CASE Goto("drain", "defer") /\ proc["drain"].keep
    BY <1>0, <1>13, <2>2, GotoFlow DEF DrainProbe, At, Kinds, Locations, Procs, DrainHolds
  <2> QED
    BY <1>13, <2>1, <2>2 DEF DrainProbe
<1>14. ASSUME DrainReserve PROVE FlowsOK'
  <2>1. CASE Stop("drain")
    BY <1>0, <2>1, StopFlow
  <2>2. CASE Reservation # NoRid /\ ~(At("drain", "answer") /\ Reservation[1] \notin Answers)
    <3>1. Reservation \in Messages
      BY <2>2, ReservationFacts
    <3>2. PICK loc \in {"dispatch", "ack", "steer"} :
             proc' = [proc EXCEPT !["drain"] = [proc["drain"] EXCEPT !.own = Reservation, !.at = loc]]
      BY <1>14, <2>2 DEF DrainReserve
    <3> QED
      BY <1>0, <3>1, <3>2, TakeFlow DEF Locations
  <2> QED
    BY <1>14, <2>1, <2>2 DEF DrainReserve, Stop
<1>15. ASSUME deferQueue PROVE FlowsOK'
  <2>1. CASE Stop("drain")
    BY <1>0, <2>1, StopFlow
  <2>2. CASE /\ Reservation # NoRid /\ At("drain", "unheld")
             /\ proc' = [proc EXCEPT !["drain"] =
                            [proc["drain"] EXCEPT !.own = Reservation, !.at = "fail"]]
    BY <1>0, <2>2, ReservationFacts, TakeFlow DEF Locations
  <2>3. CASE At("drain", "unheld") /\ Reservation = NoRid /\ proc' = [proc EXCEPT !["drain"] = Idle]
    BY <1>0, <2>3, StopFlow DEF Stop
  <2> QED
    BY <1>15, <2>1, <2>2, <2>3 DEF deferQueue
<1>16. ASSUME Crash PROVE FlowsOK'
  BY <1>16, IdleOK DEF Crash, FlowsOK
<1> QED
  BY <1>1, <1>2, <1>3, <1>4, <1>5, <1>6, <1>7, <1>8, <1>9, <1>10, <1>11, <1>12, <1>13,
     <1>14, <1>15, <1>16 DEF Drain

-----------------------------------------------------------------------------
(* The lease, and one open journal.                                        *)

(* Where a flow is inside the session's critical section. *)
SteerSection == {"reserving", "steering", "intent", "source", "finish"}
DispatchSection == {"sending", "record"}
Inside == SteerSection \cup DispatchSection

(* The flows are records of the shape of Idle. *)
FlowShape ==
    /\ DOMAIN proc = Actors
    /\ \A a \in Actors : DOMAIN proc[a] = DOMAIN Idle

(* A flow inside the critical section holds the lease. *)
LeaseHeld == \A a \in Actors : proc[a].at \in Inside => lease = a

(* A steer is written, sent and settled while no prompt is parked. *)
SteerAlone == \A a \in Actors : proc[a].at \in SteerSection => pendingDispatch = NoRid

(* A prompt is sent and recorded while no steer is parked. *)
DispatchAlone ==
    \A a \in Actors : proc[a].at \in DispatchSection => pendingSteer = NoSteer

JournalInv ==
    /\ FlowShape
    /\ LeaseHeld
    /\ SteerAlone
    /\ DispatchAlone
    /\ OneJournal

-----------------------------------------------------------------------------
LEMMA JournalInit == Init => JournalInv
BY DEF Init, JournalInv, FlowShape, LeaseHeld, SteerAlone, DispatchAlone, OneJournal,
       Idle, Inside, SteerSection, DispatchSection

(* A flow that a settlement is over for is outside the critical section. *)
LEMMA ResumeOutside ==
    ASSUME FlowShape, NEW a \in Actors, NEW ok
    PROVE  /\ DOMAIN Resume(a, ok) = DOMAIN Idle
           /\ Resume(a, ok).at \notin Inside
BY DEF FlowShape, Resume, Idle, Inside, SteerSection, DispatchSection

(* No flow enters the critical section. *)
StaysOutside ==
    /\ FlowShape'
    /\ \A a \in Actors : proc'[a].at = proc[a].at \/ proc'[a].at \notin Inside

(* A step that lets no flow in and opens no journal keeps the invariant. *)
LEMMA OutsideStep ==
    ASSUME JournalInv, StaysOutside, UNCHANGED <<lease, pendingSteer>>,
           pendingDispatch' \in {pendingDispatch, NoRid}
    PROVE  JournalInv'
BY DEF JournalInv, StaysOutside, LeaseHeld, SteerAlone, DispatchAlone, OneJournal, Inside

(* A step of flow a. *)
LEMMA FlowStep ==
    ASSUME JournalInv, NEW a \in Actors, Flow(a)
    PROVE  JournalInv'
<1> USE DEF JournalInv, FlowShape, LeaseHeld, SteerAlone, DispatchAlone, OneJournal,
            Idle, Inside, SteerSection, DispatchSection, At, Goto, Stop, Free, Actors
<1>1. CASE Intent(a)
  BY <1>1 DEF Intent
<1>2. CASE Source(a)
  BY <1>2 DEF Source, sessionVars
<1>3. CASE Finish(a)
  BY <1>3 DEF Finish, Resume
<1>4. CASE Acknowledge(a)
  BY <1>4 DEF Acknowledge, Resume, sessionVars
<1>5. CASE Recover(a)
  <2>1. CASE Parked(proc[a].rid) /\ pendingSteer.settle = "none"
    BY <1>5, <2>1 DEF Recover, sessionVars
  <2>2. CASE Parked(proc[a].rid) /\ pendingSteer.settle # "none"
    BY <1>5, <2>2 DEF Recover, Complete, Parked, sessionVars
  <2>3. CASE ~Parked(proc[a].rid)
    <3>1. PICK ok : proc' = [proc EXCEPT ![a] = Resume(a, ok)]
      BY <1>5, <2>3 DEF Recover
    <3>2. StaysOutside
      BY <3>1, ResumeOutside DEF StaysOutside
    <3> QED
      BY <1>5, <2>3, <3>2, OutsideStep DEF Recover, sessionVars
  <2> QED
    BY <2>1, <2>2, <2>3
<1>6. CASE Reconcile(a)
  BY <1>6 DEF Reconcile, sessionVars, Complete, Parked
<1>7. CASE SteerOnce(a)
  BY <1>7 DEF SteerOnce, SteerSendable
<1>8. CASE SteerSend(a)
  BY <1>8 DEF SteerSend, Complete, sessionVars
<1>9. CASE Dispatch(a)
  <2>1. CASE pendingSteer # NoSteer
    <3>1. PICK flow : /\ proc' = [proc EXCEPT ![a] = flow]
                      /\ DOMAIN flow = DOMAIN Idle /\ flow.at \notin Inside
      BY <1>9, <2>1 DEF Dispatch, Conflict
    <3>2. StaysOutside
      BY <3>1 DEF StaysOutside
    <3> QED
      BY <1>9, <2>1, <3>2, OutsideStep DEF Dispatch
  <2>2. CASE pendingSteer = NoSteer /\ pendingDispatch \notin {NoRid, proc[a].own}
    <3>1. PICK flow : /\ proc' = [proc EXCEPT ![a] = flow]
                      /\ DOMAIN flow = DOMAIN Idle /\ flow.at \notin Inside
      BY <1>9, <2>2 DEF Dispatch, Conflict
    <3>2. StaysOutside
      BY <3>1 DEF StaysOutside
    <3> QED
      BY <1>9, <2>2, <3>2, OutsideStep DEF Dispatch
  <2>3. CASE /\ pendingSteer = NoSteer /\ pendingDispatch \in {NoRid, proc[a].own}
             /\ proc[a].own \in dispatched
    BY <1>9, <2>3 DEF Dispatch
  <2>4. CASE /\ pendingSteer = NoSteer /\ pendingDispatch \in {NoRid, proc[a].own}
             /\ proc[a].own \notin dispatched
    BY <1>9, <2>4 DEF Dispatch
  <2> QED
    BY <2>1, <2>2, <2>3, <2>4
<1>10. CASE Send(a)
  BY <1>10 DEF Send, sessionVars
<1>11. CASE Record(a)
  BY <1>11 DEF Record
<1>12. CASE Status(a)
  BY <1>12 DEF Status, sessionVars
<1>13. CASE Verdict(a)
  BY <1>13 DEF Verdict, Resume
<1> QED
  BY <1>1, <1>2, <1>3, <1>4, <1>5, <1>6, <1>7, <1>8, <1>9, <1>10, <1>11, <1>12, <1>13
     DEF Flow

(* A step that leaves the flows, the lease and the journals alone. *)
LEMMA JournalFrame ==
    ASSUME JournalInv, UNCHANGED <<sessionVars, lease, proc>>
    PROVE  JournalInv'
BY DEF JournalInv, FlowShape, LeaseHeld, SteerAlone, DispatchAlone, OneJournal, sessionVars

(* Every step keeps at most one journal open. *)
LEMMA JournalNext == JournalInv /\ [Next]_vars => JournalInv'
<1> SUFFICES ASSUME JournalInv, [Next]_vars
             PROVE  JournalInv'
  OBVIOUS
<1> USE DEF At, Goto, Stop, Free, Actors
<1>1. CASE \E i \in Items : Enqueue(i) \/ enqueuePromptQueueMessageIfAbsent(i) \/ Remove(i)
  BY <1>1, JournalFrame DEF Enqueue, enqueuePromptQueueMessageIfAbsent, Remove
<1>2. CASE Retry \/ \E k \in 1..Len(messages) : Move(k)
  BY <1>2, JournalFrame DEF Retry, Move
<1>3. CASE \E a \in Actors : Flow(a)
  BY <1>3, FlowStep
<1>4. CASE ReserveSteer
  BY <1>4 DEF ReserveSteer, JournalInv, FlowShape, LeaseHeld, SteerAlone, DispatchAlone,
              OneJournal, Idle, Inside, SteerSection, DispatchSection, Steerable, sessionVars
<1>5. CASE ReserveSteerRecord
  BY <1>5 DEF ReserveSteerRecord, JournalInv, FlowShape, LeaseHeld, SteerAlone,
              DispatchAlone, OneJournal, Idle, Inside, SteerSection, DispatchSection
<1>6. CASE DiscardSteer
  BY <1>6 DEF DiscardSteer, Complete, JournalInv, FlowShape, LeaseHeld, SteerAlone,
              DispatchAlone, OneJournal, Idle, Inside, SteerSection, DispatchSection,
              sessionVars
<1>7. CASE DiscardParked
  BY <1>7 DEF DiscardParked, JournalInv, FlowShape, LeaseHeld, SteerAlone, DispatchAlone,
              OneJournal
<1>8. CASE Crash
  BY <1>8 DEF Crash, JournalInv, FlowShape, LeaseHeld, SteerAlone, DispatchAlone,
              OneJournal, Idle, Inside, SteerSection, DispatchSection, sessionVars
<1>9. CASE TurnEnd \/ ProviderRestart
  BY <1>9, JournalFrame DEF TurnEnd, ProviderRestart
<1>10. CASE \/ \E i \in Items : SteerQueued(i)
            \/ \E p \in Steers : SteerPrompt(p)
            \/ \E p \in Prompts : ComposerSend(p)
            \/ RetrySteer \/ RetryParked \/ SettleDispatch \/ SettleSteer
            \/ DrainStart \/ DrainWait \/ DrainRefuse \/ Drain \/ ClearRefused
  <2> USE DEF JournalInv, FlowShape, Idle, Inside, SteerSection, DispatchSection, StaysOutside
  <2>1. ASSUME \E i \in Items : SteerQueued(i) PROVE StaysOutside
    BY <2>1 DEF SteerQueued
  <2>2. ASSUME \E p \in Steers : SteerPrompt(p) PROVE StaysOutside
    BY <2>2 DEF SteerPrompt
  <2>3. ASSUME \E p \in Prompts : ComposerSend(p) PROVE StaysOutside
    BY <2>3 DEF ComposerSend
  <2>4. ASSUME RetrySteer PROVE StaysOutside
    BY <2>4 DEF RetrySteer
  <2>5. ASSUME RetryParked PROVE StaysOutside
    BY <2>5 DEF RetryParked
  <2>6. ASSUME SettleDispatch PROVE StaysOutside
    BY <2>6 DEF SettleDispatch
  <2>7. ASSUME SettleSteer PROVE StaysOutside
    BY <2>7 DEF SettleSteer
  <2>8. ASSUME DrainStart PROVE StaysOutside
    BY <2>8 DEF DrainStart
  <2>9. ASSUME DrainWait PROVE StaysOutside
    BY <2>9 DEF DrainWait
  <2>10. ASSUME DrainRefuse PROVE StaysOutside
    BY <2>10 DEF DrainRefuse
  <2>11. ASSUME DrainProbe PROVE StaysOutside
    BY <2>11 DEF DrainProbe
  <2>12. ASSUME DrainReserve PROVE StaysOutside
    BY <2>12 DEF DrainReserve
  <2>13. ASSUME DrainFail PROVE StaysOutside
    BY <2>13 DEF DrainFail
  <2>14. ASSUME deferQueue PROVE StaysOutside
    <3>1. CASE proc' = [proc EXCEPT !["drain"] = Idle]
      BY <3>1
    <3>2. CASE proc' = [proc EXCEPT !["drain"] =
                           [proc["drain"] EXCEPT !.own = Reservation, !.at = "fail"]]
      BY <3>2
    <3> QED
      BY <2>14, <3>1, <3>2 DEF deferQueue
  <2>15. ASSUME ClearRefused PROVE StaysOutside
    BY <2>15 DEF ClearRefused
  <2>16. /\ UNCHANGED <<lease, pendingSteer>>
         /\ pendingDispatch' \in {pendingDispatch, NoRid}
    BY <1>10 DEF SteerQueued, SteerPrompt, ComposerSend, RetrySteer, RetryParked,
                 SettleDispatch, SettleSteer, DrainStart, DrainWait, DrainRefuse, Drain,
                 DrainProbe, DrainReserve, DrainFail, deferQueue, ClearRefused, sessionVars
  <2> QED
    BY <1>10, <2>1, <2>2, <2>3, <2>4, <2>5, <2>6, <2>7, <2>8, <2>9, <2>10, <2>11,
       <2>12, <2>13, <2>14, <2>15, <2>16, OutsideStep DEF Drain
<1>11. CASE UNCHANGED vars
  BY <1>11, JournalFrame DEF vars
<1> QED
  BY <1>1, <1>2, <1>3, <1>4, <1>5, <1>6, <1>7, <1>8, <1>9, <1>10, <1>11 DEF Next

(* The session record never holds a parked prompt and a parked steer        *)
(* together: dispatchNativeAgentPromptOnce, reservePromptQueueSteer and     *)
(* dispatchNativeAgentSteerOnce exclude each other by the session's lease   *)
(* and by their looks at the record, for any number of clients, crashes and *)
(* provider restarts.                                                       *)
THEOREM OneJournalAlways == Spec => []OneJournal
<1>1. JournalInv => OneJournal
  BY DEF JournalInv
<1> QED
  BY <1>1, JournalInit, JournalNext, PTL DEF Spec

-----------------------------------------------------------------------------
(* What a flow knows of the session and of the provider.                   *)

ProviderTypes ==
    /\ accepted \subseteq PromptRids /\ lost \subseteq PromptRids
    /\ steered \subseteq SteerRids /\ open \subseteq accepted
    /\ turn \in {"idle", "running", "error"}

RestTypes ==
    /\ lease \in Actors \cup {"free"} /\ attempts \in 0..MaxAttempts
    /\ removed \subseteq Items /\ discarded \subseteq Items \cup Steers
    /\ placed \subseteq Items /\ unsure \subseteq Rids
    /\ crashes \in 0..MaxCrashes /\ restarts \in 0..MaxRestarts
    /\ calls \in 0..MaxCalls

(* All requests that reached the provider. *)
Reached == Turned \cup steered

(* What is known when the steer of r is settled as how. *)
Settled(r, how) ==
    /\ how = "applied" => r \in Reached
    /\ how = "restore" => r \notin steered
    /\ how = "discard" => r[1] \in discarded

(* A steer of r delivers nothing that already ran, or is known to be unsure. *)
Steerworthy(r) == r \in Turned => SharedJournal \/ r \in unsure

Settling == {"intent", "source", "finish"}
Knowing == Settling \cup {"reserving", "steering", "sending", "record", "ack", "confirm"}

(* What a flow knows of the session and the provider, by where it is. *)
Knows(a, f) ==
    /\ f.at \in Settling =>
          /\ pendingSteer # NoSteer /\ f.rid = pendingSteer.rid
          /\ f.how # "none" /\ Settled(f.rid, f.how)
          /\ a = "drain" => f.own \in {NoRid, f.rid}
    /\ f.at = "reserving" => pendingSteer = NoSteer /\ Steerworthy(f.own)
    /\ f.at = "steering" => pendingSteer.rid = f.own /\ pendingSteer.settle = "none"
    /\ f.at = "sending" => f.own \notin dispatched
    /\ f.at = "record" => f.own \in Reached
    /\ f.at = "ack" => IF a = "drain" THEN f.own \in Reached \cup {NoRid}
                       ELSE f.rid \in Reached
    /\ f.at = "confirm" => f.rid \in Reached

AllKnow == \A a \in Actors : Knows(a, proc[a])

(* The session record, against what reached the provider. *)
RecordInv ==
    /\ pendingSteer # NoSteer => /\ Settled(pendingSteer.rid, pendingSteer.settle)
                                 /\ Steerworthy(pendingSteer.rid)
    /\ dispatched \subseteq Reached
    /\ \A r \in steered : r \in dispatched \/ r[1] \in discarded \/ pendingSteer.rid = r

DeliveryInv ==
    /\ JournalInv
    /\ FlowsOK /\ RecordTypes /\ QueueInv /\ ProviderTypes /\ RestTypes
    /\ AllKnow /\ RecordInv /\ DeliveredOnce /\ NothingLost

-----------------------------------------------------------------------------
(* What a flow looks like after it went on, began a settlement or ended one. *)
LEMMA GotoShape ==
    ASSUME FlowsOK, NEW a \in Actors, NEW loc, Goto(a, loc)
    PROVE  \E f : /\ proc' = [proc EXCEPT ![a] = f] /\ f.at = loc
                  /\ f.own = proc[a].own /\ f.rid = proc[a].rid /\ f.how = proc[a].how
<1> DEFINE g == [proc[a] EXCEPT !.at = loc]
<1>1. proc' = [proc EXCEPT ![a] = g]
  BY DEF Goto
<1>2. proc[a] \in Procs
  BY DEF FlowsOK
<1>3. g.at = loc /\ g.own = proc[a].own /\ g.rid = proc[a].rid /\ g.how = proc[a].how
  BY <1>2 DEF Procs
<1> HIDE DEF g
<1> QED
  BY <1>1, <1>3

LEMMA CompleteShape ==
    ASSUME FlowsOK, NEW a \in Actors, NEW how, NEW ok, Complete(a, how, ok)
    PROVE  \E f : /\ proc' = [proc EXCEPT ![a] = f] /\ f.at \in {"intent", "finish"}
                  /\ f.own = proc[a].own /\ f.rid = pendingSteer.rid /\ f.how = how
<1> DEFINE g == [proc[a] EXCEPT !.at = IF pendingSteer.source THEN "intent" ELSE "finish",
                                !.rid = pendingSteer.rid, !.how = how, !.ok = ok]
<1>1. proc[a] \in Procs
  BY DEF FlowsOK
<1>2. proc' = [proc EXCEPT ![a] = g]
  BY <1>1 DEF Complete, FlowsOK, Procs
<1>3. /\ g.at \in {"intent", "finish"}
      /\ g.own = proc[a].own /\ g.rid = pendingSteer.rid /\ g.how = how
  BY <1>1 DEF Procs
<1> HIDE DEF g
<1> QED
  BY <1>2, <1>3

LEMMA ResumeShape ==
    ASSUME FlowsOK, NEW a \in Actors, NEW ok
    PROVE  Resume(a, ok).at \in {"idle", "dispatch"}
<1>1. CASE a = "composer" /\ ok /\ proc[a].retry
  BY <1>1 DEF Resume, FlowsOK, Procs
<1>2. CASE ~(a = "composer" /\ ok /\ proc[a].retry)
  BY <1>2 DEF Resume, Idle
<1> QED
  BY <1>1, <1>2

-----------------------------------------------------------------------------
(* What no step undoes. *)
Grows == Reached \subseteq Reached' /\ discarded \subseteq discarded' /\ unsure \subseteq unsure'

(* Nothing is delivered, parked, settled or recorded. *)
Still == UNCHANGED <<pendingSteer, dispatched, steered>> /\ Turned' = Turned

LEMMA KeptByOthers ==
    ASSUME DeliveryInv, Grows, NEW b \in Actors, proc'[b] = proc[b],
           Still \/ proc[b].at \notin Inside
    PROVE  Knows(b, proc[b])'
<1>1. Knows(b, proc[b])
  BY DEF DeliveryInv, AllKnow
<1>2. CASE Still
  BY <1>1, <1>2 DEF Knows, Still, Grows, Settled, Steerworthy, Reached
<1>3. CASE proc[b].at \notin Inside
  BY <1>1, <1>3 DEF Knows, Grows, Inside, SteerSection, DispatchSection, Settling
<1> QED
  BY <1>2, <1>3

LEMMA KnowsStep ==
    ASSUME DeliveryInv, Grows, NEW a \in Actors, NEW f,
           proc' = [proc EXCEPT ![a] = f], Still \/ lease \in {a, "free"},
           Knows(a, f)'
    PROVE  AllKnow'
<1>1. proc'[a] = f /\ \A b \in Actors : b # a => proc'[b] = proc[b]
  BY DEF DeliveryInv, FlowsOK
<1>2. ASSUME NEW b \in Actors, b # a PROVE Still \/ proc[b].at \notin Inside
  BY <1>2 DEF DeliveryInv, JournalInv, LeaseHeld, Actors
<1>3. ASSUME NEW b \in Actors PROVE Knows(b, proc[b])'
  <2>1. CASE b = a
    BY <1>1, <2>1 DEF Knows
  <2>2. CASE b # a
    BY <1>1, <1>2, <2>2, KeptByOthers
  <2> QED
    BY <2>1, <2>2
<1> QED
  BY <1>3 DEF AllKnow

LEMMA RecordKept ==
    ASSUME DeliveryInv, Grows, Still
    PROVE  RecordInv' /\ DeliveredOnce'
<1>1. RecordInv'
  BY DEF DeliveryInv, RecordInv, Grows, Still, Settled, Steerworthy, Reached
<1>2. DeliveredOnce'
  BY DEF DeliveryInv, DeliveredOnce, Grows, Still, Turned
<1> QED
  BY <1>1, <1>2

(* A flow that knows nothing. *)
LEMMA Careless == ASSUME NEW a, NEW f, f.at \notin Knowing PROVE Knows(a, f)'
BY DEF Knows, Knowing, Settling

KnowledgeKept == AllKnow' /\ RecordInv' /\ DeliveredOnce'

(* A step of flow a that delivers, parks and settles nothing. *)
LEMMA StillStep ==
    ASSUME DeliveryInv, Grows, Still, NEW a \in Actors, NEW f,
           proc' = [proc EXCEPT ![a] = f], Knows(a, f)'
    PROVE  KnowledgeKept
BY KnowsStep, RecordKept DEF KnowledgeKept

(* A flow begins a settlement. *)
LEMMA CompleteKnows ==
    ASSUME DeliveryInv, Grows, NEW a \in Actors, NEW how, NEW ok, Complete(a, how, ok),
           pendingSteer # NoSteer, how # "none", UNCHANGED pendingSteer,
           Settled(pendingSteer.rid, how)',
           a = "drain" => proc[a].own \in {NoRid, pendingSteer.rid},
           Still \/ lease \in {a, "free"}
    PROVE  AllKnow'
<1>2. PICK f : /\ proc' = [proc EXCEPT ![a] = f]
               /\ f.at \in {"intent", "finish"} /\ f.rid = pendingSteer.rid /\ f.how = how
               /\ f.own = proc[a].own
  BY CompleteShape DEF DeliveryInv
<1>3. Knows(a, f)'
  BY <1>2 DEF Knows, Settling, Settled
<1> QED
  BY <1>2, <1>3, KnowsStep

LEMMA ResumeKnows ==
    ASSUME DeliveryInv, Grows, NEW a \in Actors, NEW ok, proc' = [proc EXCEPT ![a] = Resume(a, ok)],
           Still \/ lease \in {a, "free"}
    PROVE  AllKnow'
<1>2. PICK f : proc' = [proc EXCEPT ![a] = f] /\ f.at \notin Knowing
  BY ResumeShape DEF DeliveryInv, Knowing, Settling
<1> QED
  BY <1>2, Careless, KnowsStep

(* A flow goes on at a place where it knows nothing. *)
LEMMA CarelessStep ==
    ASSUME DeliveryInv, Grows, NEW a \in Actors, NEW f, proc' = [proc EXCEPT ![a] = f],
           f.at \notin Knowing, Still \/ lease \in {a, "free"}
    PROVE  AllKnow'
BY Careless, KnowsStep

LEMMA SettleKnows ==
    ASSUME DeliveryInv, NEW a \in Actors, Intent(a) \/ Source(a) \/ Finish(a) \/ Acknowledge(a)
    PROVE  KnowledgeKept
<1>0. /\ proc[a] \in Procs /\ DOMAIN proc = Actors /\ Knows(a, proc[a])
      /\ proc[a].at \in Inside => lease = a
  BY DEF DeliveryInv, FlowsOK, AllKnow, JournalInv, LeaseHeld
<1>1. CASE Intent(a)
  <2>1. /\ Grows /\ UNCHANGED <<dispatched, steered, discarded, unsure>>
        /\ Turned' = Turned /\ Reached' = Reached
    BY <1>1 DEF Intent, Grows, providerVars, history, Turned, Reached
  <2>2. /\ proc[a].at = "intent" /\ pendingSteer # NoSteer /\ proc[a].rid = pendingSteer.rid
        /\ proc[a].how # "none" /\ Settled(proc[a].rid, proc[a].how)
        /\ a = "drain" => proc[a].own \in {NoRid, proc[a].rid}
    BY <1>0, <1>1 DEF Intent, At, Knows, Settling
  <2>3. lease = a
    BY <1>0, <2>2 DEF Inside, SteerSection
  <2>4. /\ pendingSteer'.rid = pendingSteer.rid /\ pendingSteer'.settle = proc[a].how
        /\ pendingSteer' # NoSteer
    <3>1. pendingSteer \in [rid : SteerRids, source : BOOLEAN, settle : Settlements]
      BY <2>2 DEF DeliveryInv, RecordTypes
    <3>2. pendingSteer'.rid = pendingSteer.rid /\ pendingSteer'.settle = proc[a].how
      BY <1>1, <3>1 DEF Intent
    <3> QED
      BY <3>1, <3>2, RidFacts DEF NoSteer
  <2>5. PICK f : /\ proc' = [proc EXCEPT ![a] = f] /\ f.at = "source"
                 /\ f.rid = proc[a].rid /\ f.how = proc[a].how /\ f.own = proc[a].own
    BY <1>1, GotoShape DEF Intent, DeliveryInv
  <2>6. Knows(a, f)'
    BY <2>1, <2>2, <2>4, <2>5 DEF Knows, Settling, Settled
  <2>7. AllKnow'
    BY <2>1, <2>3, <2>5, <2>6, KnowsStep
  <2>8. RecordInv'
    BY <2>1, <2>2, <2>4 DEF DeliveryInv, RecordInv, Settled, Steerworthy
  <2>9. DeliveredOnce'
    BY <2>1 DEF DeliveryInv, DeliveredOnce, Turned
  <2> QED
    BY <2>7, <2>8, <2>9 DEF KnowledgeKept
<1>2. CASE Source(a)
  <2>1. Grows /\ Still
    BY <1>2 DEF Source, Grows, Still, sessionVars, providerVars, history, Turned, Reached
  <2>2. PICK f : /\ proc' = [proc EXCEPT ![a] = f] /\ f.at = "finish"
                 /\ f.rid = proc[a].rid /\ f.how = proc[a].how /\ f.own = proc[a].own
    BY <1>2, GotoShape DEF Source, DeliveryInv
  <2>3. Knows(a, f)'
    BY <1>0, <1>2, <2>1, <2>2 DEF Source, At, Knows, Settling, Settled, Still, Grows, Reached
  <2> QED
    BY <2>1, <2>2, <2>3, StillStep
<1>3. CASE Finish(a)
  <2>1. /\ Grows /\ UNCHANGED <<steered, discarded, unsure>>
        /\ Turned' = Turned /\ Reached' = Reached
    BY <1>3 DEF Finish, Grows, providerVars, history, Turned, Reached
  <2>2. /\ proc[a].at = "finish" /\ proc[a].rid = pendingSteer.rid
        /\ proc[a].how # "none" /\ Settled(proc[a].rid, proc[a].how)
        /\ a = "drain" => proc[a].own \in {NoRid, proc[a].rid}
    BY <1>0, <1>3 DEF Finish, At, Knows, Settling
  <2>3. lease = a
    BY <1>0, <2>2 DEF Inside, SteerSection
  <2>4. AllKnow'
    <3>1. CASE proc[a].how = "applied" /\ proc[a].rid[1] \in Answers
      <4>1. PICK f : /\ proc' = [proc EXCEPT ![a] = f] /\ f.at = "ack"
                     /\ f.rid = proc[a].rid /\ f.own = proc[a].own
        <5>1. Goto(a, "ack")
          BY <1>3, <3>1 DEF Finish, Goto
        <5> QED
          BY <5>1, GotoShape DEF DeliveryInv
      <4>2. Knows(a, f)'
        BY <2>1, <2>2, <3>1, <4>1 DEF Knows, Settling, Settled
      <4> QED
        BY <2>1, <2>3, <4>1, <4>2, KnowsStep
    <3>2. CASE ~(proc[a].how = "applied" /\ proc[a].rid[1] \in Answers)
      BY <1>3, <2>1, <2>3, <3>2, ResumeKnows DEF Finish
    <3> QED
      BY <3>1, <3>2
  <2>5. RecordInv'
    <3>1. pendingSteer' = NoSteer
      BY <1>3 DEF Finish
    <3>2. dispatched' \subseteq Reached'
      BY <1>3, <2>1, <2>2 DEF Finish, Settled, DeliveryInv, RecordInv
    <3>3. ASSUME NEW r \in steered PROVE r \in dispatched' \/ r[1] \in discarded
      <4>1. r \in dispatched \/ r[1] \in discarded \/ pendingSteer.rid = r
        BY DEF DeliveryInv, RecordInv
      <4>2. proc[a].how \in {"applied", "restore", "discard"}
        BY <1>0, <2>2 DEF Procs, Settlements
      <4>3. dispatched \subseteq dispatched' /\ (proc[a].how = "applied" => proc[a].rid \in dispatched')
        BY <1>3 DEF Finish
      <4> QED
        BY <2>2, <4>1, <4>2, <4>3 DEF Settled
    <3> QED
      BY <2>1, <3>1, <3>2, <3>3 DEF RecordInv
  <2>6. DeliveredOnce'
    BY <2>1 DEF DeliveryInv, DeliveredOnce, Turned
  <2> QED
    BY <2>4, <2>5, <2>6 DEF KnowledgeKept
<1>4. CASE Acknowledge(a)
  <2>1. Grows /\ Still
    BY <1>4 DEF Acknowledge, Grows, Still, sessionVars, providerVars, history, Turned, Reached
  <2> QED
    BY <1>4, <2>1, ResumeKnows, RecordKept DEF Acknowledge, KnowledgeKept
<1> QED
  BY <1>1, <1>2, <1>3, <1>4

LEMMA RecoverKnows ==
    ASSUME DeliveryInv, NEW a \in Actors, Recover(a)
    PROVE  KnowledgeKept
<1>1. Grows /\ Still /\ UNCHANGED <<pendingSteer, discarded, steered>>
  BY DEF Recover, Grows, Still, sessionVars, providerVars, history, Turned, Reached
<1>2. RecordInv' /\ DeliveredOnce'
  BY <1>1, RecordKept
<1>3. FlowsOK /\ RecordTypes /\ RecordInv /\ Kinds(a, proc[a]) /\ proc[a].at = "recover"
  BY DEF DeliveryInv, FlowsOK, Recover, At
<1>4. CASE Parked(proc[a].rid) /\ pendingSteer.settle = "none"
  <2>1. CASE Stop(a)
    BY <1>1, <1>2, <2>1, CarelessStep DEF Stop, Idle, Knowing, Settling, KnowledgeKept
  <2>2. CASE Goto(a, "reconcile")
    <3>1. PICK f : proc' = [proc EXCEPT ![a] = f] /\ f.at = "reconcile"
      BY <1>3, <2>2, GotoShape
    <3> QED
      BY <1>1, <1>2, <3>1, CarelessStep DEF Knowing, Settling, KnowledgeKept
  <2> QED
    BY <1>4, <2>1, <2>2 DEF Recover
<1>5. CASE Parked(proc[a].rid) /\ pendingSteer.settle # "none"
  <2>1. Complete(a, pendingSteer.settle, pendingSteer.settle = "applied")
    BY <1>5 DEF Recover
  <2>2. pendingSteer # NoSteer
    BY <1>5 DEF Parked
  <2>3. Settled(pendingSteer.rid, pendingSteer.settle)'
    BY <1>2, <1>1, <2>2 DEF RecordInv
  <2>4. a = "drain" => proc[a].own = NoRid
    BY <1>3 DEF Kinds
  <2>5. AllKnow'
    BY <1>1, <1>5, <2>1, <2>2, <2>3, <2>4, CompleteKnows DEF Settled
  <2> QED
    BY <1>2, <2>5 DEF KnowledgeKept
<1>6. CASE ~Parked(proc[a].rid)
  <2>1. AllKnow'
    BY <1>1, <1>6, ResumeKnows DEF Recover
  <2> QED
    BY <1>2, <2>1 DEF KnowledgeKept
<1> QED
  BY <1>4, <1>5, <1>6

LEMMA ReconcileKnows ==
    ASSUME DeliveryInv, NEW a \in Actors, Reconcile(a)
    PROVE  KnowledgeKept
<1>1. Grows /\ Still /\ UNCHANGED <<pendingSteer, discarded, steered>> /\ Reached' = Reached
  BY DEF Reconcile, Grows, Still, sessionVars, providerVars, history, Turned, Reached
<1>2. RecordInv' /\ DeliveredOnce'
  BY <1>1, RecordKept
<1>3. FlowsOK /\ RecordTypes /\ RecordInv /\ Kinds(a, proc[a]) /\ proc[a].at = "reconcile"
  BY DEF DeliveryInv, FlowsOK, Reconcile, At
<1>4. a = "drain" => proc[a].own = NoRid
  BY <1>3 DEF Kinds
<1>5. CASE Stop(a)
  BY <1>1, <1>2, <1>5, CarelessStep DEF Stop, Idle, Knowing, Settling, KnowledgeKept
<1>6. CASE Goto(a, "steer")
  <2>1. PICK f : proc' = [proc EXCEPT ![a] = f] /\ f.at = "steer"
    BY <1>3, <1>6, GotoShape
  <2> QED
    BY <1>1, <1>2, <2>1, CarelessStep DEF Knowing, Settling, KnowledgeKept
<1>7. ASSUME NEW how, Parked(proc[a].rid), Complete(a, how, TRUE), how # "none",
             Settled(pendingSteer.rid, how)
      PROVE  KnowledgeKept
  <2>1. pendingSteer # NoSteer
    BY <1>7 DEF Parked
  <2>2. Settled(pendingSteer.rid, how)'
    BY <1>1, <1>7 DEF Settled
  <2>3. AllKnow'
    BY <1>1, <1>4, <1>7, <2>1, <2>2, CompleteKnows
  <2> QED
    BY <1>2, <2>3 DEF KnowledgeKept
<1>8. CASE Parked(proc[a].rid) /\ pendingSteer.settle # "none"
  BY <1>3, <1>7, <1>8 DEF Reconcile, RecordInv, Parked
<1>9. CASE Parked(proc[a].rid) /\ pendingSteer.settle = "none"
  <2>1. PICK s \in SteerStatus(proc[a].rid) :
           \/ s = "dispatched" /\ Complete(a, "applied", TRUE)
           \/ s = "absent" /\ Complete(a, "restore", TRUE)
           \/ s = "unknown" /\ (Stop(a) \/ Goto(a, "steer"))
    BY <1>9 DEF Reconcile
  <2>2. /\ s = "dispatched" => pendingSteer.rid \in Reached
        /\ s = "absent" => pendingSteer.rid \notin steered
    BY <1>9, <2>1 DEF SteerStatus, SteerJournal, Reached, Turned, Parked
  <2> QED
    BY <1>5, <1>6, <1>7, <1>9, <2>1, <2>2 DEF Settled
<1>10. CASE ~Parked(proc[a].rid)
  BY <1>5, <1>10 DEF Reconcile
<1> QED
  BY <1>8, <1>9, <1>10

LEMMA SteerOnceKnows ==
    ASSUME DeliveryInv, NEW a \in Actors, SteerOnce(a)
    PROVE  KnowledgeKept
<1>1. /\ Grows /\ UNCHANGED <<discarded, steered, dispatched, unsure>>
      /\ Reached' = Reached /\ Turned' = Turned /\ lease = "free"
  BY DEF SteerOnce, Grows, Free, providerVars, history, Turned, Reached
<1>2. /\ FlowsOK /\ RecordTypes /\ RecordInv /\ ProviderTypes
      /\ proc[a] \in Procs /\ Kinds(a, proc[a]) /\ proc[a].at = "steer"
  BY DEF DeliveryInv, FlowsOK, SteerOnce, At
<1>3. proc[a].own \in SteerRids /\ proc[a].own # NoRid
  BY <1>2, RidFacts DEF Kinds
<1>4. CASE SteerSendable(proc[a].own)
  <2>1. /\ pendingSteer'.rid = proc[a].own /\ pendingSteer'.settle = "none"
    <3>1. CASE pendingSteer = NoSteer
      BY <1>4, <3>1 DEF SteerOnce
    <3>2. CASE pendingSteer # NoSteer
      BY <1>4, <3>2 DEF SteerOnce, SteerSendable
    <3> QED
      BY <3>1, <3>2
  <2>2. PICK f : proc' = [proc EXCEPT ![a] = f] /\ f.at = "steering" /\ f.own = proc[a].own
    BY <1>2, <1>4, GotoShape DEF SteerOnce
  <2>3. Knows(a, f)'
    BY <2>1, <2>2 DEF Knows, Settling
  <2>4. AllKnow'
    BY <1>1, <2>2, <2>3, KnowsStep
  <2>5. Steerworthy(proc[a].own)
    <3>1. CASE pendingSteer = NoSteer
      <4>1. ~FromQueue(proc[a].own)
        BY <1>3, <1>4, <3>1 DEF SteerSendable, NoSteer
      <4>2. proc[a].own[1] \in Answers \/ proc[a].own \notin PromptRids
        BY <1>3, <4>1, ItemAssumption DEF FromQueue, SteerRids, PromptRids
      <4> QED
        BY <1>2, <4>2, DeliveryAssumption DEF Steerworthy, ProviderTypes, Turned
    <3>2. CASE pendingSteer # NoSteer
      BY <1>2, <1>4, <3>2 DEF RecordInv, SteerSendable
    <3> QED
      BY <3>1, <3>2
  <2>6. ASSUME NEW r \in steered PROVE r \in dispatched \/ r[1] \in discarded \/ proc[a].own = r
    <3>1. r \in dispatched \/ r[1] \in discarded \/ pendingSteer.rid = r
      BY <1>2 DEF RecordInv
    <3>2. pendingSteer.rid = r => proc[a].own = r
      BY <1>2, <1>4, RidFacts DEF SteerSendable, ProviderTypes, NoSteer
    <3> QED
      BY <3>1, <3>2
  <2>7. RecordInv'
    BY <1>1, <1>2, <2>1, <2>5, <2>6 DEF RecordInv, Settled, Steerworthy
  <2>8. DeliveredOnce'
    BY <1>1 DEF DeliveryInv, DeliveredOnce, Turned
  <2> QED
    BY <2>4, <2>7, <2>8 DEF KnowledgeKept
<1>5. CASE ~SteerSendable(proc[a].own)
  <2>1. Still
    BY <1>1, <1>5 DEF SteerOnce, Still
  <2>2. CASE Stop(a)
    BY <1>1, <2>1, <2>2, CarelessStep, RecordKept DEF Stop, Idle, Knowing, Settling, KnowledgeKept
  <2>3. CASE a = "drain" /\ proc[a].own \in dispatched /\ Goto(a, "ack")
    <3>1. PICK f : proc' = [proc EXCEPT ![a] = f] /\ f.at = "ack" /\ f.own = proc[a].own
      BY <1>2, <2>3, GotoShape
    <3>2. Knows(a, f)'
      BY <1>1, <1>2, <2>3, <3>1 DEF Knows, Settling, RecordInv
    <3> QED
      BY <1>1, <2>1, <3>1, <3>2, StillStep
  <2> QED
    BY <1>5, <2>2, <2>3 DEF SteerOnce
<1> QED
  BY <1>4, <1>5

LEMMA SteerSendKnows ==
    ASSUME DeliveryInv, NEW a \in Actors, SteerSend(a)
    PROVE  KnowledgeKept
<1>1. /\ Grows /\ UNCHANGED <<pendingSteer, discarded, dispatched, unsure, accepted, lost>>
      /\ Reached \subseteq Reached' /\ Turned' = Turned
  BY DEF SteerSend, Grows, Complete, history, sessionVars, Turned, Reached
<1>2. /\ FlowsOK /\ RecordTypes /\ RecordInv
      /\ proc[a] \in Procs /\ Kinds(a, proc[a]) /\ Knows(a, proc[a]) /\ proc[a].at = "steering"
      /\ proc[a].at \in Inside => lease = a
  BY DEF DeliveryInv, FlowsOK, AllKnow, SteerSend, At, JournalInv, LeaseHeld
<1>3. /\ proc[a].own # NoRid /\ pendingSteer.rid = proc[a].own /\ pendingSteer # NoSteer
      /\ pendingSteer.settle = "none" /\ lease = a
  BY <1>2, RidFacts DEF Kinds, Knows, NoSteer, Inside, SteerSection
<1>4. \/ steered' = steered
      \/ steered' = steered \cup {proc[a].own} /\ proc[a].own \notin SteerJournal
  BY DEF SteerSend
<1>5. RecordInv'
  BY <1>1, <1>2, <1>3, <1>4 DEF RecordInv, Settled, Steerworthy
<1>6. DeliveredOnce'
  <2>1. ASSUME NEW r \in steered' \ unsure', r \in Turned' PROVE r[1] \in discarded'
    <3>1. CASE r \in steered
      BY <1>1, <2>1, <3>1 DEF DeliveryInv, DeliveredOnce, Turned
    <3>2. CASE r \notin steered
      <4>1. r = proc[a].own /\ r \notin SteerJournal /\ r \notin unsure
        BY <1>1, <1>4, <2>1, <3>2
      <4>2. SharedJournal
        BY <1>1, <1>2, <1>3, <2>1, <4>1 DEF RecordInv, Steerworthy
      <4> QED
        BY <1>1, <2>1, <4>1, <4>2 DEF SteerJournal, Turned
    <3> QED
      BY <3>1, <3>2
  <2> QED
    BY <2>1 DEF DeliveredOnce, Turned
<1>7. AllKnow'
  <2>1. CASE /\ proc[a].own \in SteerJournal \/ turn = "running"
             /\ steered' = IF proc[a].own \notin SteerJournal /\ turn = "running"
                           THEN steered \cup {proc[a].own} ELSE steered
             /\ Complete(a, "applied", FALSE)
    <3>1. proc[a].own \in Reached'
      BY <1>1, <2>1 DEF SteerJournal, Reached, Turned
    <3>2. Settled(pendingSteer.rid, "applied")'
      BY <1>1, <1>3, <3>1 DEF Settled
    <3> QED
      BY <1>1, <1>3, <2>1, <3>2, CompleteKnows
  <2>2. CASE proc[a].own \notin steered /\ Complete(a, "restore", FALSE) /\ UNCHANGED steered
    <3>1. Settled(pendingSteer.rid, "restore")'
      BY <1>1, <1>3, <2>2 DEF Settled
    <3> QED
      BY <1>1, <1>3, <2>2, <3>1, CompleteKnows
  <2>3. CASE Stop(a)
    BY <1>1, <1>3, <2>3, CarelessStep DEF Stop, Idle, Knowing, Settling
  <2> QED
    BY <2>1, <2>2, <2>3 DEF SteerSend
<1> QED
  BY <1>5, <1>6, <1>7 DEF KnowledgeKept
LEMMA DispatchKnows ==
    ASSUME DeliveryInv, NEW a \in Actors, Dispatch(a)
    PROVE  KnowledgeKept
<1>1. Grows /\ Still /\ Reached' = Reached /\ dispatched' = dispatched
  BY DEF Dispatch, Grows, Still, providerVars, history, Turned, Reached
<1>2. FlowsOK /\ RecordInv
  BY DEF DeliveryInv
<1>3. RecordInv' /\ DeliveredOnce'
  BY <1>1, RecordKept
<1>4. ASSUME NEW rid, NEW loc \in {"recover", "status"}, Conflict(a, rid, loc)
      PROVE  KnowledgeKept
  <2>1. PICK f : proc' = [proc EXCEPT ![a] = f] /\ f.at \in {"defer", "recover", "status", "idle"}
    <3>1. proc[a] \in Procs
      BY <1>2 DEF FlowsOK
    <3> DEFINE g == IF a = "drain" THEN [proc[a] EXCEPT !.at = "defer"]
                    ELSE IF proc[a].retry THEN [proc[a] EXCEPT !.at = loc, !.rid = rid]
                    ELSE Idle
    <3>2. proc' = [proc EXCEPT ![a] = g]
      BY <1>4 DEF Conflict
    <3>3. CASE a = "drain"
      <4>1. g.at = "defer"
        BY <3>1, <3>3 DEF Procs
      <4> HIDE DEF g
      <4> QED
        BY <3>2, <4>1
    <3>4. CASE a # "drain" /\ proc[a].retry
      <4>1. g.at = loc
        BY <3>1, <3>4 DEF Procs
      <4> HIDE DEF g
      <4> QED
        BY <1>4, <3>2, <4>1
    <3>5. CASE a # "drain" /\ ~proc[a].retry
      <4>1. g.at = "idle"
        BY <3>5 DEF Idle
      <4> HIDE DEF g
      <4> QED
        BY <3>2, <4>1
    <3> QED
      BY <3>3, <3>4, <3>5
  <2> QED
    BY <1>1, <1>3, <2>1, CarelessStep DEF Knowing, Settling, KnowledgeKept
<1>5. CASE Stop(a)
  BY <1>1, <1>3, <1>5, CarelessStep DEF Stop, Idle, Knowing, Settling, KnowledgeKept
<1>6. CASE a = "drain" /\ proc[a].own \in dispatched /\ Goto(a, "ack")
  <2>1. PICK f : proc' = [proc EXCEPT ![a] = f] /\ f.at = "ack" /\ f.own = proc[a].own
    BY <1>2, <1>6, GotoShape
  <2>2. Knows(a, f)'
    BY <1>1, <1>2, <1>6, <2>1 DEF Knows, Settling, RecordInv
  <2> QED
    BY <1>1, <2>1, <2>2, StillStep
<1>7. CASE proc[a].own \notin dispatched /\ Goto(a, "sending")
  <2>1. PICK f : proc' = [proc EXCEPT ![a] = f] /\ f.at = "sending" /\ f.own = proc[a].own
    BY <1>2, <1>7, GotoShape
  <2>2. Knows(a, f)'
    BY <1>1, <1>7, <2>1 DEF Knows, Settling
  <2> QED
    BY <1>1, <2>1, <2>2, StillStep
<1> QED
  BY <1>4, <1>5, <1>6, <1>7 DEF Dispatch

LEMMA SendKnows ==
    ASSUME DeliveryInv, NEW a \in Actors, Send(a)
    PROVE  KnowledgeKept
<1>1. /\ UNCHANGED <<pendingSteer, discarded, dispatched, unsure, steered>>
      /\ \/ Turned' = Turned
         \/ Turned' = Turned \cup {proc[a].own}
  BY DEF Send, Accept, history, sessionVars, providerVars, Turned
<1>2. Grows /\ Reached \subseteq Reached'
  BY <1>1 DEF Grows, Reached
<1>3. /\ FlowsOK /\ RecordInv
      /\ proc[a] \in Procs /\ Kinds(a, proc[a]) /\ Knows(a, proc[a]) /\ proc[a].at = "sending"
      /\ proc[a].at \in Inside => lease = a
      /\ proc[a].at \in DispatchSection => pendingSteer = NoSteer
  BY DEF DeliveryInv, FlowsOK, AllKnow, Send, At, JournalInv, LeaseHeld, DispatchAlone
<1>4. /\ proc[a].own # NoRid /\ pendingSteer = NoSteer /\ proc[a].own \notin dispatched
      /\ pendingSteer.rid = NoRid /\ lease = a
  BY <1>3, RidFacts DEF Kinds, Knows, NoSteer, Inside, DispatchSection
<1>5. RecordInv'
  BY <1>1, <1>2, <1>3, <1>4 DEF RecordInv
<1>6. DeliveredOnce'
  <2>1. ASSUME NEW r \in steered \ unsure, r \in Turned' PROVE r[1] \in discarded
    <3>1. CASE r \in Turned
      BY <2>1, <3>1 DEF DeliveryInv, DeliveredOnce, Turned
    <3>2. CASE r = proc[a].own
      BY <1>3, <1>4, <2>1, <3>2 DEF RecordInv
    <3> QED
      BY <1>1, <2>1, <3>1, <3>2
  <2> QED
    BY <1>1, <2>1 DEF DeliveredOnce, Turned
<1>7. AllKnow'
  <2>1. CASE proc[a].own \notin lost /\ Accept(proc[a].own) /\ Goto(a, "record")
    <3>1. PICK f : proc' = [proc EXCEPT ![a] = f] /\ f.at = "record" /\ f.own = proc[a].own
      BY <1>3, <2>1, GotoShape
    <3>2. proc[a].own \in Reached'
      BY <2>1 DEF Accept, Reached, Turned
    <3>3. Knows(a, f)'
      BY <3>1, <3>2 DEF Knows, Settling
    <3> QED
      BY <1>2, <1>4, <3>1, <3>3, KnowsStep
  <2>2. CASE \E loc \in {"defer", "fail", "clear", "retired", "clearRetired"} : Goto(a, loc)
    <3>1. PICK f : /\ proc' = [proc EXCEPT ![a] = f]
                   /\ f.at \in {"defer", "fail", "clear", "retired", "clearRetired"}
      BY <1>3, <2>2, GotoShape
    <3> QED
      BY <1>2, <1>4, <3>1, CarelessStep DEF Knowing, Settling
  <2>3. CASE proc' = [proc EXCEPT ![a].at = "status", ![a].rid = proc[a].own]
    <3> DEFINE f == [proc[a] EXCEPT !.at = "status", !.rid = proc[a].own]
    <3>1. proc' = [proc EXCEPT ![a] = f]
      BY <1>3, <2>3 DEF FlowsOK, Procs
    <3>2. f.at = "status"
      BY <1>3 DEF Procs
    <3> HIDE DEF f
    <3> QED
      BY <1>2, <1>4, <3>1, <3>2, CarelessStep DEF Knowing, Settling
  <2> QED
    BY <2>1, <2>2, <2>3 DEF Send
<1> QED
  BY <1>5, <1>6, <1>7 DEF KnowledgeKept

LEMMA RecordKnows ==
    ASSUME DeliveryInv, NEW a \in Actors, Record(a) \/ Status(a) \/ Verdict(a)
    PROVE  KnowledgeKept
<1>0. /\ FlowsOK /\ RecordInv
      /\ proc[a] \in Procs /\ Knows(a, proc[a])
      /\ proc[a].at \in Inside => lease = a
  BY DEF DeliveryInv, FlowsOK, AllKnow, JournalInv, LeaseHeld
<1>1. CASE Record(a)
  <2>1. /\ Grows /\ UNCHANGED <<pendingSteer, discarded, steered, unsure>>
        /\ Turned' = Turned /\ Reached' = Reached
        /\ dispatched' = dispatched \cup {proc[a].own} /\ proc[a].at = "record"
    BY <1>1 DEF Record, At, Grows, providerVars, history, Turned, Reached
  <2>2. proc[a].own \in Reached /\ lease = a
    BY <1>0, <2>1 DEF Knows, Inside, DispatchSection
  <2>3. RecordInv'
    BY <1>0, <2>1, <2>2 DEF RecordInv, Settled, Steerworthy
  <2>4. DeliveredOnce'
    BY <2>1 DEF DeliveryInv, DeliveredOnce, Turned
  <2>5. CASE a = "drain" /\ Goto(a, "ack")
    <3>1. PICK f : proc' = [proc EXCEPT ![a] = f] /\ f.at = "ack" /\ f.own = proc[a].own
      BY <1>0, <2>5, GotoShape
    <3>2. Knows(a, f)'
      BY <2>1, <2>2, <2>5, <3>1 DEF Knows, Settling
    <3> QED
      BY <2>1, <2>2, <2>3, <2>4, <3>1, <3>2, KnowsStep DEF KnowledgeKept
  <2>6. CASE Stop(a)
    BY <2>1, <2>2, <2>3, <2>4, <2>6, CarelessStep
       DEF Stop, Idle, Knowing, Settling, KnowledgeKept
  <2> QED
    BY <1>1, <2>5, <2>6 DEF Record
<1>2. CASE Status(a)
  <2>1. Grows /\ Still /\ Reached' = Reached
    BY <1>2 DEF Status, Grows, Still, sessionVars, providerVars, history, Turned, Reached
  <2>2. CASE Stop(a)
    BY <2>1, <2>2, CarelessStep, RecordKept DEF Stop, Idle, Knowing, Settling, KnowledgeKept
  <2>3. CASE Goto(a, "retire")
    <3>1. PICK f : proc' = [proc EXCEPT ![a] = f] /\ f.at = "retire"
      BY <1>0, <2>3, GotoShape
    <3> QED
      BY <2>1, <3>1, CarelessStep, RecordKept DEF Knowing, Settling, KnowledgeKept
  <2>4. CASE proc[a].rid \in accepted /\ Goto(a, "confirm")
    <3>1. PICK f : proc' = [proc EXCEPT ![a] = f] /\ f.at = "confirm" /\ f.rid = proc[a].rid
      BY <1>0, <2>4, GotoShape
    <3>2. Knows(a, f)'
      BY <2>1, <2>4, <3>1 DEF Knows, Settling, Reached, Turned
    <3> QED
      BY <2>1, <3>1, <3>2, StillStep
  <2> QED
    BY <1>2, <2>2, <2>3, <2>4 DEF Status
<1>3. CASE Verdict(a)
  <2>1. /\ Grows /\ UNCHANGED <<pendingSteer, discarded, steered, unsure>>
        /\ Turned' = Turned /\ Reached' = Reached /\ lease = "free"
        /\ \/ dispatched' = dispatched
           \/ dispatched' = dispatched \cup {proc[a].rid} /\ proc[a].at = "confirm"
    BY <1>3 DEF Verdict, At, Free, Grows, providerVars, history, Turned, Reached
  <2>2. proc[a].at = "confirm" => proc[a].rid \in Reached
    BY <1>0 DEF Knows
  <2>3. RecordInv'
    BY <1>0, <2>1, <2>2 DEF RecordInv, Settled, Steerworthy
  <2>4. DeliveredOnce'
    BY <2>1 DEF DeliveryInv, DeliveredOnce, Turned
  <2>5. AllKnow'
    BY <1>3, <2>1, ResumeKnows DEF Verdict
  <2> QED
    BY <2>3, <2>4, <2>5 DEF KnowledgeKept
<1> QED
  BY <1>1, <1>2, <1>3

(* Every step of a flow keeps what the flows know. *)
LEMMA FlowKnows ==
    ASSUME DeliveryInv, NEW a \in Actors, Flow(a)
    PROVE  KnowledgeKept
BY SettleKnows, RecoverKnows, ReconcileKnows, SteerOnceKnows, SteerSendKnows, DispatchKnows,
   SendKnows, RecordKnows DEF Flow

(* Every flow keeps its place or goes on where it knows nothing. *)
Carefree == \A b \in Actors : proc'[b] = proc[b] \/ proc'[b].at \notin Knowing

LEMMA CarefreeStep ==
    ASSUME DeliveryInv, Grows, Still, Carefree
    PROVE  KnowledgeKept
<1>1. ASSUME NEW b \in Actors PROVE Knows(b, proc[b])'
  <2>1. CASE proc'[b] = proc[b]
    BY <2>1, KeptByOthers
  <2>2. CASE proc'[b].at \notin Knowing
    BY <2>2 DEF Knows, Knowing, Settling
  <2> QED
    BY <2>1, <2>2 DEF Carefree
<1> QED
  BY <1>1, RecordKept DEF AllKnow, KnowledgeKept

(* A step of the clients, of the provider or of a flow that is being set up. *)
LEMMA StartKnows ==
    ASSUME DeliveryInv,
           \/ \E i \in Items : Enqueue(i) \/ enqueuePromptQueueMessageIfAbsent(i) \/ Remove(i)
           \/ Retry \/ DiscardParked \/ \E k \in 1..Len(messages) : Move(k)
           \/ \E i \in Items : SteerQueued(i)
           \/ \E p \in Steers : SteerPrompt(p)
           \/ \E p \in Prompts : ComposerSend(p)
           \/ RetrySteer \/ RetryParked \/ SettleDispatch \/ SettleSteer \/ ClearRefused
           \/ DrainStart \/ DrainWait \/ DrainRefuse \/ DrainProbe \/ DrainFail \/ deferQueue
           \/ TurnEnd \/ ProviderRestart \/ Crash
    PROVE  KnowledgeKept
<1> USE DEF At, Goto, Stop, Actors, Idle, Carefree, Knowing, Settling
<1>0. /\ DOMAIN proc = Actors /\ (\A a \in Actors : DOMAIN proc[a] = DOMAIN Idle)
      /\ open \subseteq accepted
  BY DEF DeliveryInv, JournalInv, FlowShape, ProviderTypes
<1>1. ASSUME \/ \E i \in Items : Enqueue(i) \/ enqueuePromptQueueMessageIfAbsent(i) \/ Remove(i)
             \/ Retry \/ DiscardParked \/ \E k \in 1..Len(messages) : Move(k)
             \/ TurnEnd \/ ProviderRestart
      PROVE  Carefree
  BY <1>1 DEF Enqueue, enqueuePromptQueueMessageIfAbsent, Remove, Retry, DiscardParked, Move,
              TurnEnd, ProviderRestart
<1>2. ASSUME \E i \in Items : SteerQueued(i) PROVE Carefree
  <2>1. CASE inFlight.steer
    BY <1>0, <1>2, <2>1 DEF SteerQueued
  <2>2. CASE ~inFlight.steer
    <3>1. PICK r : proc' = [proc EXCEPT !["steer"] =
                              [proc["steer"] EXCEPT !.at = "probed", !.own = r]]
      BY <1>2, <2>2 DEF SteerQueued
    <3> QED
      BY <1>0, <3>1
  <2> QED
    BY <2>1, <2>2
<1>3. ASSUME \E p \in Steers : SteerPrompt(p) PROVE Carefree
  <2>1. PICK r : proc' = [proc EXCEPT !["composer"].at = "steer", !["composer"].own = r]
    BY <1>3 DEF SteerPrompt
  <2> QED
    BY <1>0, <2>1
<1>4. ASSUME \E p \in Prompts : ComposerSend(p) PROVE Carefree
  <2>1. PICK r : proc' = [proc EXCEPT !["composer"].at = "dispatch", !["composer"].own = r,
                                      !["composer"].retry = TRUE]
    BY <1>4 DEF ComposerSend
  <2> QED
    BY <1>0, <2>1
<1>5. ASSUME RetrySteer PROVE Carefree
  BY <1>0, <1>5 DEF RetrySteer
<1>6. ASSUME RetryParked PROVE Carefree
  BY <1>0, <1>6 DEF RetryParked
<1>7. ASSUME SettleDispatch \/ SettleSteer PROVE Carefree
  BY <1>0, <1>7 DEF SettleDispatch, SettleSteer
<1>8. ASSUME ClearRefused \/ DrainWait \/ DrainFail PROVE Carefree
  BY <1>0, <1>8 DEF ClearRefused, DrainWait, DrainFail
<1>9. ASSUME DrainStart PROVE Carefree
  BY <1>0, <1>9 DEF DrainStart
<1>10. ASSUME DrainRefuse \/ DrainProbe PROVE Carefree
  BY <1>0, <1>10 DEF DrainRefuse, DrainProbe
<1>11. ASSUME deferQueue PROVE Carefree
  <2>1. CASE proc' = [proc EXCEPT !["drain"] = Idle]
    BY <1>0, <2>1
  <2>2. CASE proc' = [proc EXCEPT !["drain"] =
                         [proc["drain"] EXCEPT !.own = Reservation, !.at = "fail"]]
    BY <1>0, <2>2
  <2> QED
    BY <1>11, <2>1, <2>2 DEF deferQueue
<1>12. ASSUME Crash PROVE Carefree
  BY <1>12 DEF Crash
<1>13. Grows /\ Still
  BY <1>0 DEF Grows, Still, Turned, Reached, Enqueue, enqueuePromptQueueMessageIfAbsent, Remove,
       Retry, DiscardParked, Move, TurnEnd, ProviderRestart, SteerQueued, SteerPrompt,
       ComposerSend, RetrySteer, RetryParked, SettleDispatch, SettleSteer, ClearRefused,
       DrainWait, DrainFail, DrainStart, DrainRefuse, DrainProbe, deferQueue, Crash,
       sessionVars, providerVars, history
<1> HIDE DEF Carefree
<1>14. Carefree
  BY <1>1, <1>2, <1>3, <1>4, <1>5, <1>6, <1>7, <1>8, <1>9, <1>10, <1>11, <1>12
<1> QED
  BY <1>13, <1>14, CarefreeStep

(* The drain takes a reservation; a message on the record is acknowledged. *)
LEMMA DrainReserveKnows ==
    ASSUME DeliveryInv, DrainReserve
    PROVE  KnowledgeKept
<1>1. Grows /\ Still /\ Reached' = Reached
  BY DEF DrainReserve, Grows, Still, sessionVars, providerVars, history, Turned, Reached
<1>2. "drain" \in Actors /\ proc["drain"] \in Procs /\ RecordInv
  BY DEF DeliveryInv, FlowsOK, Actors
<1>3. CASE proc' = [proc EXCEPT !["drain"] = Idle]
  BY <1>1, <1>2, <1>3, CarelessStep, RecordKept DEF Idle, Knowing, Settling, KnowledgeKept
<1>4. CASE \E loc \in {"dispatch", "ack", "steer"} :
              /\ proc' = [proc EXCEPT !["drain"] = [proc["drain"] EXCEPT !.own = Reservation, !.at = loc]]
              /\ loc = "ack" => Reservation \in dispatched
  <2>1. PICK loc \in {"dispatch", "ack", "steer"} :
              /\ proc' = [proc EXCEPT !["drain"] = [proc["drain"] EXCEPT !.own = Reservation, !.at = loc]]
              /\ loc = "ack" => Reservation \in dispatched
    BY <1>4
  <2> DEFINE g == [proc["drain"] EXCEPT !.own = Reservation, !.at = loc]
  <2>2. g.own = Reservation /\ g.at = loc
    BY <1>2 DEF Procs
  <2>3. proc' = [proc EXCEPT !["drain"] = g]
    BY <2>1
  <2> HIDE DEF g
  <2>4. PICK f : /\ proc' = [proc EXCEPT !["drain"] = f] /\ f.at \in {"dispatch", "ack", "steer"}
                 /\ f.at = "ack" => f.own \in Reached
    BY <1>2, <2>1, <2>2, <2>3 DEF RecordInv
  <2>5. Knows("drain", f)'
    BY <1>1, <2>4 DEF Knows, Settling
  <2> QED
    BY <1>1, <1>2, <2>4, <2>5, StillStep
<1> QED
  BY <1>3, <1>4 DEF DrainReserve

(* A steer reserves its queued item, and is written to the record. *)
LEMMA ReserveSteerKnows ==
    ASSUME DeliveryInv, ReserveSteer \/ ReserveSteerRecord \/ DiscardSteer
    PROVE  KnowledgeKept
<1>0. /\ "steer" \in Actors /\ proc["steer"] \in Procs /\ RecordInv /\ FlowsOK /\ QueueInv
      /\ Knows("steer", proc["steer"]) /\ RecordTypes
      /\ proc["steer"].at \in Inside => lease = "steer"
      /\ "settle" \in Actors
  BY DEF DeliveryInv, FlowsOK, Actors, AllKnow, JournalInv, LeaseHeld
<1>1. CASE ReserveSteer
  <2>1. Grows /\ Still /\ Turned' = Turned /\ pendingSteer' = pendingSteer
    BY <1>1 DEF ReserveSteer, Grows, Still, sessionVars, providerVars, Turned, Reached
  <2>2. CASE Steerable(proc["steer"].own[1])
    <3> DEFINE i == proc["steer"].own[1]
    <3>1. /\ inFlight = NotInFlight /\ i \in Ids(messages) /\ reserveSteerSource(i)
          /\ pendingSteer = NoSteer /\ messages[Position(messages, i)] \notin dispatched
      BY <1>1, <2>2 DEF ReserveSteer, Steerable
    <3>2. PICK m : inFlight'.rid = m /\ m \notin dispatched
      BY <1>0, <3>1, SteerSourceStep
    <3> DEFINE g == [proc["steer"] EXCEPT !.at = "reserving", !.own = m]
    <3>3. proc' = [proc EXCEPT !["steer"] = g]
      BY <1>0, <1>1, <2>2, <3>2 DEF ReserveSteer, FlowsOK, Procs
    <3>4. g.at = "reserving" /\ g.own = m
      BY <1>0 DEF Procs
    <3> HIDE DEF g
    <3>5. PICK f : proc' = [proc EXCEPT !["steer"] = f] /\ f.at = "reserving" /\ f.own = m
      BY <3>3, <3>4
    <3>6. unsure' = unsure \cup ({m} \cap ((accepted \cup lost) \ dispatched))
      BY <1>1, <2>2, <3>2 DEF ReserveSteer
    <3>7. Knows("steer", f)'
      BY <2>1, <3>1, <3>2, <3>5, <3>6 DEF Knows, Settling, Steerworthy, Turned
    <3> QED
      BY <1>0, <2>1, <3>5, <3>7, StillStep
  <2>3. CASE ~Steerable(proc["steer"].own[1])
    BY <1>0, <1>1, <2>1, <2>3, CarelessStep, RecordKept
       DEF ReserveSteer, Stop, Idle, Knowing, Settling, KnowledgeKept
  <2> QED
    BY <2>2, <2>3
<1>2. CASE ReserveSteerRecord
  <2>1. /\ Grows /\ UNCHANGED <<discarded, steered, dispatched, unsure>>
        /\ Reached' = Reached /\ Turned' = Turned
        /\ pendingSteer'.rid = proc["steer"].own /\ pendingSteer'.settle = "none"
        /\ proc["steer"].at = "reserving"
    BY <1>2 DEF ReserveSteerRecord, At, Grows, providerVars, history, Turned, Reached
  <2>2. lease = "steer" /\ pendingSteer = NoSteer /\ Steerworthy(proc["steer"].own)
    BY <1>0, <2>1 DEF Knows, Inside, SteerSection
  <2>3. PICK f : proc' = [proc EXCEPT !["steer"] = f] /\ f.at = "steer"
    BY <1>0, <1>2, GotoShape DEF ReserveSteerRecord
  <2>4. AllKnow'
    BY <1>0, <2>1, <2>2, <2>3, CarelessStep DEF Knowing, Settling
  <2>5. ASSUME NEW r \in steered PROVE r \in dispatched \/ r[1] \in discarded
    BY <2>2, RidFacts DEF DeliveryInv, ProviderTypes, RecordInv, NoSteer
  <2>6. RecordInv'
    BY <1>0, <2>1, <2>2, <2>5 DEF RecordInv, Settled, Steerworthy
  <2>7. DeliveredOnce'
    BY <2>1 DEF DeliveryInv, DeliveredOnce, Turned
  <2> QED
    BY <2>4, <2>6, <2>7 DEF KnowledgeKept
<1>3. CASE DiscardSteer
  <2>1. /\ Grows /\ Still /\ pendingSteer' = pendingSteer /\ pendingSteer # NoSteer
        /\ proc["settle"].at = "idle" /\ Complete("settle", "discard", FALSE)
        /\ discarded' = discarded \cup {pendingSteer.rid[1]}
    BY <1>3 DEF DiscardSteer, At, Grows, Still, sessionVars, providerVars, Turned, Reached
  <2>2. Settled(pendingSteer.rid, "discard")'
    BY <2>1 DEF Settled
  <2>3. AllKnow'
    BY <1>0, <2>1, <2>2, CompleteKnows
  <2> QED
    BY <2>1, <2>3, RecordKept DEF KnowledgeKept
<1> QED
  BY <1>1, <1>2, <1>3

LEMMA KnowledgeNext == ASSUME DeliveryInv, Next PROVE KnowledgeKept
BY FlowKnows, StartKnows, DrainReserveKnows, ReserveSteerKnows DEF Next, Drain

-----------------------------------------------------------------------------
(* The queue again: what leaves it.                                        *)

(* The items that reached the provider. *)
Delivered == {r[1] : r \in Reached}

LEMMA LostFacts ==
    ASSUME NothingLost, RestTypes
    PROVE  placed \ (removed \cup discarded) \subseteq HeldItems \cup Delivered
BY DEF NothingLost, HeldItems, Delivered, Held, Reached, Turned, RestTypes

LEMMA LostAgain ==
    ASSUME placed' \ (removed' \cup discarded') \subseteq HeldItems' \cup Delivered'
    PROVE  NothingLost'
<1>1. ASSUME NEW i \in placed' \ (removed' \cup discarded')
      PROVE  Held(i)' \/ \E r \in (accepted \cup lost \cup steered)' : r[1] = i
  <2>1. CASE i \in Ids(messages')
    BY <2>1 DEF Held
  <2>2. CASE Flying(i)'
    BY <2>2 DEF Held
  <2>3. CASE i \in Delivered'
    BY <2>3 DEF Delivered, Reached, Turned
  <2> QED
    BY <1>1, <2>1, <2>2, <2>3 DEF HeldItems
<1> QED
  BY <1>1 DEF NothingLost

(* No item leaves the queue but one that reached the provider or that a     *)
(* user took out.                                                           *)
QueueKept == QueueInv' /\ HeldItems \subseteq HeldItems' \cup Delivered' \cup removed' \cup discarded'

LEMMA ClientQueue ==
    ASSUME QueueInv, NothingLost, RestTypes,
           \/ \E i \in Items : Enqueue(i) \/ enqueuePromptQueueMessageIfAbsent(i) \/ Remove(i)
           \/ Retry \/ \E k \in 1..Len(messages) : Move(k)
    PROVE  QueueInv' /\ NothingLost'
<1>0. placed \ (removed \cup discarded) \subseteq HeldItems \cup Delivered
  BY LostFacts
<1>1. Delivered' = Delivered /\ discarded' = discarded
  BY DEF Enqueue, enqueuePromptQueueMessageIfAbsent, Remove, Retry, Move, Delivered, Reached,
         Turned, providerVars, history
<1>2. ASSUME NEW i \in Items, Enqueue(i) \/ enqueuePromptQueueMessageIfAbsent(i)
      PROVE  QueueInv' /\ NothingLost'
  <2>1. /\ enqueuePromptQueueMessage(i) /\ placed' = placed \cup {i}
        /\ removed' = removed \/ removed' = removed \ {i}
    BY <1>2 DEF Enqueue, enqueuePromptQueueMessageIfAbsent
  <2>2. QueueInv' /\ HeldItems \cup {i} \subseteq HeldItems'
    BY <2>1, EnqueueStep
  <2>3. placed' \ (removed' \cup discarded') \subseteq HeldItems' \cup Delivered'
    BY <1>0, <1>1, <2>1, <2>2
  <2> QED
    BY <2>2, <2>3, LostAgain
<1>3. ASSUME NEW i \in Items, Remove(i) PROVE QueueInv' /\ NothingLost'
  <2>1. /\ removePromptQueueMessage(i) /\ placed' = placed /\ removed' = removed \cup {i}
    BY <1>3 DEF Remove
  <2>2. QueueInv' /\ HeldItems \subseteq HeldItems' \cup {i}
    BY <2>1, RemoveStep
  <2>3. placed' \ (removed' \cup discarded') \subseteq HeldItems' \cup Delivered'
    BY <1>0, <1>1, <2>1, <2>2
  <2> QED
    BY <2>2, <2>3, LostAgain
<1>4. ASSUME Retry \/ \E k \in 1..Len(messages) : Move(k) PROVE QueueInv' /\ NothingLost'
  <2>1. /\ placed' = placed /\ removed' = removed
        /\ retryPromptQueueDispatch \/ \E k : movePromptQueueMessage(k)
    BY <1>4 DEF Retry, Move, history
  <2>2. QueueInv' /\ HeldItems \subseteq HeldItems'
    BY <2>1, RetryStep, MoveStep
  <2>3. placed' \ (removed' \cup discarded') \subseteq HeldItems' \cup Delivered'
    BY <1>0, <1>1, <2>1, <2>2
  <2> QED
    BY <2>2, <2>3, LostAgain
<1> QED
  BY <1>2, <1>3, <1>4

(* The other steps add nothing to the queue and take nothing out by hand. *)
LEMMA KeptQueue ==
    ASSUME NothingLost, RestTypes, Grows, UNCHANGED <<placed, removed>>, QueueKept
    PROVE  QueueInv' /\ NothingLost'
<1>1. placed \ (removed \cup discarded) \subseteq HeldItems \cup Delivered
  BY LostFacts
<1>2. Delivered \subseteq Delivered' /\ discarded \subseteq discarded'
  BY DEF Delivered, Grows
<1>3. placed' \ (removed' \cup discarded') \subseteq HeldItems' \cup Delivered'
  BY <1>1, <1>2 DEF QueueKept
<1> QED
  BY <1>3, LostAgain DEF QueueKept

LEMMA FlowQueue ==
    ASSUME DeliveryInv, NEW a \in Actors, Flow(a), Delivered \subseteq Delivered'
    PROVE  QueueKept
<1>0. /\ proc[a] \in Procs /\ Knows(a, proc[a]) /\ QueueInv /\ RecordInv
  BY DEF DeliveryInv, FlowsOK, AllKnow
<1>1. CASE UNCHANGED queueVars
  <2>1. QueueInv' /\ HeldItems' = HeldItems
    BY <1>0, <1>1 DEF queueVars, QueueInv, QueueTypeOK, OnePlace, HeldItems, Flying
  <2> QED
    BY <2>1 DEF QueueKept
<1>2. CASE Source(a)
  <2>1. /\ settlePromptQueueSteerSource(proc[a].rid, proc[a].how) /\ discarded' = discarded
        /\ proc[a].at = "source"
    BY <1>2 DEF Source, At, history
  <2>2. Settled(proc[a].rid, proc[a].how) /\ proc[a].how # "none"
    BY <1>0, <2>1 DEF Knows, Settling
  <2>3. proc[a].how # "restore" => proc[a].rid[1] \in Delivered \cup discarded
    BY <1>0, <2>2 DEF Settled, Delivered, Procs, Settlements
  <2> QED
    BY <1>0, <2>1, <2>3, SettleSourceStep DEF QueueKept
<1>3. CASE Acknowledge(a)
  <2>1. proc[a].at = "ack"
    BY <1>3 DEF Acknowledge, At
  <2>2. PICK r : acknowledgePromptQueueDispatch(r) /\ r \in Reached \cup {NoRid}
    BY <1>0, <1>3, <2>1 DEF Acknowledge, Knows
  <2>3. r \in Messages => r[1] \in Delivered
    BY <2>2, RidFacts DEF Delivered
  <2> QED
    BY <1>0, <2>2, <2>3, AcknowledgeStep DEF QueueKept
<1>4. CASE Recover(a) /\ ~Parked(proc[a].rid)
  <2>1. PICK how : /\ settlePromptQueueSteerSource(proc[a].rid, how)
                   /\ how # "restore" => proc[a].rid \in dispatched
    BY <1>4 DEF Recover
  <2>2. how # "restore" => proc[a].rid[1] \in Delivered
    BY <1>0, <2>1 DEF RecordInv, Delivered
  <2> QED
    BY <1>0, <2>1, <2>2, SettleSourceStep DEF QueueKept
<1> QED
  BY <1>1, <1>2, <1>3, <1>4 DEF Flow, Intent, Finish, Recover, Reconcile, SteerOnce, SteerSend,
     Dispatch, Send, Record, Status, Verdict

LEMMA RestQueue ==
    ASSUME DeliveryInv, ReserveSteer \/ DrainReserve \/ DrainFail \/ deferQueue
    PROVE  QueueKept
<1>0. /\ "drain" \in Actors /\ Kinds("drain", proc["drain"]) /\ QueueInv
  BY DEF DeliveryInv, FlowsOK, Actors
<1>1. CASE UNCHANGED queueVars
  <2>1. QueueInv' /\ HeldItems' = HeldItems
    BY <1>0, <1>1 DEF queueVars, QueueInv, QueueTypeOK, OnePlace, HeldItems, Flying
  <2> QED
    BY <2>1 DEF QueueKept
<1>2. CASE reservePromptQueueHeadForDispatch
  BY <1>0, <1>2, ReserveStep DEF QueueKept
<1>3. CASE \E retired : failPromptQueueDispatch(proc["drain"].own, retired) /\ proc["drain"].own \in Messages
  BY <1>0, <1>3, FailStep DEF QueueKept
<1>4. CASE ReserveSteer /\ Steerable(proc["steer"].own[1])
  <2>1. inFlight = NotInFlight /\ proc["steer"].own[1] \in Ids(messages)
        /\ reserveSteerSource(proc["steer"].own[1])
    BY <1>4 DEF ReserveSteer, Steerable
  <2> QED
    BY <1>0, <2>1, SteerSourceStep DEF QueueKept
<1>5. CASE ReserveSteer /\ ~Steerable(proc["steer"].own[1])
  BY <1>1, <1>5 DEF ReserveSteer
<1>6. CASE DrainFail
  <2>1. proc["drain"].own \in Messages
    BY <1>0, <1>6 DEF DrainFail, At, Kinds, DrainHolds
  <2> QED
    BY <1>3, <1>6, <2>1 DEF DrainFail
<1>7. CASE deferQueue
  <2>1. At("drain", "defer") => proc["drain"].own \in Messages
    BY <1>0 DEF At, Kinds, DrainHolds
  <2> QED
    BY <1>1, <1>2, <1>3, <1>7, <2>1 DEF deferQueue
<1> QED
  BY <1>2, <1>4, <1>5, <1>6, <1>7 DEF DrainReserve

(* What is delivered, dropped or doubted stays so. *)
LEMMA GrowsNext == ASSUME ProviderTypes, Next PROVE Grows
<1>1. ASSUME NEW a \in Actors, Flow(a) PROVE Grows
  BY <1>1 DEF Flow, Intent, Source, Finish, Acknowledge, Recover, Reconcile, SteerOnce, SteerSend,
     Dispatch, Send, Accept, Record, Status, Verdict, Grows, Reached, Turned, providerVars, history
<1>2. CASE TurnEnd \/ ProviderRestart
  BY <1>2 DEF TurnEnd, ProviderRestart, Grows, Reached, Turned, history, ProviderTypes
<1> QED
  BY <1>1, <1>2 DEF Next, Drain, Grows, Turned, Reached, Enqueue, enqueuePromptQueueMessageIfAbsent,
       Remove, Retry, DiscardParked, Move, SteerQueued, SteerPrompt, ReserveSteer,
       ReserveSteerRecord, DiscardSteer, DrainReserve,
       ComposerSend, RetrySteer, RetryParked, SettleDispatch, SettleSteer, ClearRefused,
       DrainWait, DrainFail, DrainStart, DrainRefuse, DrainProbe, deferQueue, Crash,
       sessionVars, providerVars, history

LEMMA QueueNext == ASSUME DeliveryInv, Next PROVE QueueInv' /\ NothingLost'
<1>0. QueueInv /\ NothingLost /\ RestTypes /\ ProviderTypes
  BY DEF DeliveryInv
<1>1. Grows /\ Delivered \subseteq Delivered'
  BY <1>0, GrowsNext DEF Grows, Delivered
<1>2. CASE \E a \in Actors : Flow(a)
  <2>1. QueueKept
    BY <1>1, <1>2, FlowQueue
  <2>2. UNCHANGED <<placed, removed>>
    BY <1>2 DEF Flow, Intent, Source, Finish, Acknowledge, Recover, Reconcile, SteerOnce,
       SteerSend, Dispatch, Send, Record, Status, Verdict, history
  <2> QED
    BY <1>0, <1>1, <2>1, <2>2, KeptQueue
<1>3. CASE ReserveSteer \/ DrainReserve \/ DrainFail \/ deferQueue
  <2>1. QueueKept
    BY <1>3, RestQueue
  <2>2. UNCHANGED <<placed, removed>>
    BY <1>3 DEF ReserveSteer, DrainReserve, DrainFail, deferQueue, history
  <2> QED
    BY <1>0, <1>1, <2>1, <2>2, KeptQueue
<1>4. CASE UNCHANGED queueVars /\ UNCHANGED <<placed, removed>>
  <2>1. QueueInv' /\ HeldItems' = HeldItems
    BY <1>0, <1>4 DEF queueVars, QueueInv, QueueTypeOK, OnePlace, HeldItems, Flying
  <2> QED
    BY <1>0, <1>1, <1>4, <2>1, KeptQueue DEF QueueKept
<1>5. CASE \/ \E i \in Items : Enqueue(i) \/ enqueuePromptQueueMessageIfAbsent(i) \/ Remove(i)
           \/ Retry \/ \E k \in 1..Len(messages) : Move(k)
  BY <1>0, <1>5, ClientQueue
<1> QED
  BY <1>2, <1>3, <1>4, <1>5 DEF Next, Drain, DiscardParked, TurnEnd, ProviderRestart,
       SteerQueued, SteerPrompt, ReserveSteerRecord, DiscardSteer,
       ComposerSend, RetrySteer, RetryParked, SettleDispatch, SettleSteer, ClearRefused,
       DrainWait, DrainStart, DrainRefuse, DrainProbe, Crash, history

-----------------------------------------------------------------------------
(* The types, and the invariant of the delivery.                           *)

(* The journals of the session and of the provider keep their types. *)
LEMMA RecordNext ==
    ASSUME DeliveryInv, Next
    PROVE  /\ pendingDispatch' \in PromptRids \cup {NoRid}
           /\ pendingSteer' \in {NoSteer} \cup [rid : SteerRids, source : BOOLEAN, settle : Settlements]
<1>0. RecordTypes /\ FlowsOK /\ (\A a \in Actors : proc[a] \in Procs /\ Kinds(a, proc[a]) /\ Knows(a, proc[a]))
  BY DEF DeliveryInv, FlowsOK, AllKnow
<1>1. CASE UNCHANGED <<pendingDispatch, pendingSteer>>
  BY <1>0, <1>1 DEF RecordTypes
<1>2. ASSUME NEW a \in Actors, Intent(a)
      PROVE  /\ pendingDispatch' = pendingDispatch
             /\ pendingSteer' \in [rid : SteerRids, source : BOOLEAN, settle : Settlements]
  <2>1. pendingSteer # NoSteer /\ proc[a].how \in Settlements
    BY <1>0, <1>2 DEF Intent, At, Knows, Settling, Procs
  <2>2. pendingSteer \in [rid : SteerRids, source : BOOLEAN, settle : Settlements]
    BY <1>0, <2>1 DEF RecordTypes
  <2> QED
    BY <1>2, <2>1, <2>2 DEF Intent
<1>3. ASSUME NEW a \in Actors, Flow(a), ~Intent(a)
      PROVE  /\ pendingDispatch' \in PromptRids \cup {NoRid}
             /\ pendingSteer' \in {NoSteer} \cup [rid : SteerRids, source : BOOLEAN, settle : Settlements]
  <2>1. CASE SteerOnce(a)
    <3>1. proc[a].own \in SteerRids
      BY <1>0, <2>1 DEF SteerOnce, At, Kinds
    <3>2. CASE pendingSteer' = [rid |-> proc[a].own, source |-> FALSE, settle |-> "none"]
      BY <1>0, <2>1, <3>1, <3>2 DEF SteerOnce, RecordTypes, Settlements
    <3>3. CASE pendingSteer' = pendingSteer
      BY <1>0, <2>1, <3>3 DEF SteerOnce, RecordTypes
    <3> QED
      BY <2>1, <3>2, <3>3 DEF SteerOnce
  <2>2. CASE Finish(a) \/ Record(a) \/ Verdict(a)
    BY <1>0, <2>2 DEF Finish, Record, Verdict, RecordTypes
  <2>3. CASE Dispatch(a)
    <3>1. proc[a].own \in PromptRids
      BY <1>0, <2>3 DEF Dispatch, At, Kinds
    <3> QED
      BY <1>0, <2>3, <3>1 DEF Dispatch, RecordTypes
  <2> QED
    BY <1>1, <1>3, <2>1, <2>2, <2>3 DEF Flow, Source, Acknowledge, Recover, Reconcile, SteerSend,
       Send, Status, sessionVars
<1>4. CASE ReserveSteerRecord
  <2>1. proc["steer"].own \in SteerRids
    BY <1>0, <1>4 DEF ReserveSteerRecord, At, Kinds, Actors
  <2> QED
    BY <1>0, <1>4, <2>1 DEF ReserveSteerRecord, RecordTypes, Settlements
<1>5. CASE ClearRefused \/ DiscardParked
  BY <1>0, <1>5 DEF ClearRefused, DiscardParked, RecordTypes
<1>6. CASE \E a \in Actors : Flow(a)
  BY <1>0, <1>2, <1>3, <1>6 DEF RecordTypes
<1> QED
  BY <1>1, <1>4, <1>5, <1>6 DEF Next, Drain, Enqueue, enqueuePromptQueueMessageIfAbsent,
       Remove, Retry, Move, SteerQueued, SteerPrompt, ReserveSteer, DiscardSteer, DrainReserve,
       ComposerSend, RetrySteer, RetryParked, SettleDispatch, SettleSteer,
       DrainWait, DrainFail, DrainStart, DrainRefuse, DrainProbe, deferQueue, Crash,
       TurnEnd, ProviderRestart, sessionVars

LEMMA ProviderNext ==
    ASSUME DeliveryInv, Next
    PROVE  ProviderTypes'
<1>0. ProviderTypes /\ (\A a \in Actors : Kinds(a, proc[a]))
  BY DEF DeliveryInv, FlowsOK
<1>1. CASE UNCHANGED providerVars
  BY <1>0, <1>1 DEF providerVars, ProviderTypes
<1>2. ASSUME NEW a \in Actors, Flow(a) PROVE ProviderTypes'
  <2>1. CASE SteerSend(a)
    <3>1. proc[a].own \in SteerRids
      BY <1>0, <2>1 DEF SteerSend, At, Kinds
    <3>2. steered' \in {steered, steered \cup {proc[a].own}} /\ UNCHANGED <<accepted, lost, turn, open>>
      BY <2>1 DEF SteerSend
    <3> QED
      BY <1>0, <3>1, <3>2 DEF ProviderTypes
  <2>2. CASE Send(a)
    <3>1. proc[a].own \in PromptRids
      BY <1>0, <2>2 DEF Send, At, Kinds
    <3>2. CASE Accept(proc[a].own)
      BY <1>0, <3>1, <3>2 DEF Accept, ProviderTypes
    <3> QED
      BY <1>1, <2>2, <3>2 DEF Send
  <2> QED
    BY <1>1, <1>2, <2>1, <2>2 DEF Flow, Intent, Source, Finish, Acknowledge, Recover, Reconcile,
       SteerOnce, Dispatch, Record, Status, Verdict
<1>3. CASE TurnEnd \/ ProviderRestart
  BY <1>0, <1>3 DEF TurnEnd, ProviderRestart, ProviderTypes
<1> QED
  BY <1>1, <1>2, <1>3 DEF Next, Drain, Enqueue, enqueuePromptQueueMessageIfAbsent,
       Remove, Retry, Move, SteerQueued, SteerPrompt, ReserveSteer, ReserveSteerRecord,
       DiscardSteer, DrainReserve, DiscardParked, ClearRefused,
       ComposerSend, RetrySteer, RetryParked, SettleDispatch, SettleSteer,
       DrainWait, DrainFail, DrainStart, DrainRefuse, DrainProbe, deferQueue, Crash

LEMMA RestNext ==
    ASSUME DeliveryInv, Next
    PROVE  RestTypes'
<1>0. RestTypes /\ RecordTypes /\ ProviderTypes
  BY DEF DeliveryInv
<1>1. crashes' \in 0..MaxCrashes /\ restarts' \in 0..MaxRestarts /\ calls' \in 0..MaxCalls
  <2>1. CASE UNCHANGED counters
    BY <1>0, <2>1 DEF counters, RestTypes
  <2>2. CASE Client
    BY <1>0, <2>2, DeliveryAssumption DEF Client, RestTypes
  <2>3. CASE Crash \/ ProviderRestart
    BY <1>0, <2>3, DeliveryAssumption DEF Crash, ProviderRestart, RestTypes
  <2>4. (\E a \in Actors : Flow(a)) => UNCHANGED counters
    BY DEF Flow, Intent, Source, Finish, Acknowledge, Recover, Reconcile, SteerOnce, SteerSend,
       Dispatch, Send, Record, Status, Verdict
  <2> QED
    BY <2>1, <2>2, <2>3, <2>4 DEF Next, Drain, Enqueue, enqueuePromptQueueMessageIfAbsent,
       Remove, Retry, Move, SteerQueued, SteerPrompt, ReserveSteer, ReserveSteerRecord,
       DiscardSteer, DrainReserve, DiscardParked, ClearRefused,
       ComposerSend, RetrySteer, RetryParked, SettleDispatch, SettleSteer,
       DrainWait, DrainFail, DrainStart, DrainRefuse, DrainProbe, deferQueue, TurnEnd
<1>2. attempts' \in 0..MaxAttempts
  <2>1. ASSUME NEW a \in Actors, Flow(a) PROVE attempts' \in {0, attempts}
    BY <2>1 DEF Flow, Intent, Source, Finish, Acknowledge, Recover, Reconcile, SteerOnce,
       SteerSend, Dispatch, Send, Record, Status, Verdict
  <2>0. attempts \in 0..MaxAttempts /\ MaxAttempts \in Nat
    BY <1>0, DeliveryAssumption DEF RestTypes
  <2>2. CASE deferQueue \/ DrainWait
    <3>1. CASE DrainWait
      BY <2>0, <3>1 DEF DrainWait
    <3>2. CASE deferQueue
      <4>1. \/ attempts + 1 < MaxAttempts /\ attempts' = attempts + 1
            \/ attempts' \in {0, MaxAttempts}
        BY <3>2 DEF deferQueue
      <4> QED
        BY <2>0, <4>1
    <3> QED
      BY <2>2, <3>1, <3>2
  <2>3. \/ attempts' \in {0, attempts} \/ deferQueue \/ DrainWait
    BY <2>1 DEF Next, Drain, Enqueue, enqueuePromptQueueMessageIfAbsent,
       Remove, Retry, Move, SteerQueued, SteerPrompt, ReserveSteer, ReserveSteerRecord,
       DiscardSteer, DrainReserve, DiscardParked, ClearRefused,
       ComposerSend, RetrySteer, RetryParked, SettleDispatch, SettleSteer,
       DrainFail, DrainStart, DrainRefuse, DrainProbe, TurnEnd, ProviderRestart, Crash
  <2> QED
    BY <1>0, <2>2, <2>3, DeliveryAssumption DEF RestTypes
<1>3. lease' \in Actors \cup {"free"}
  <2>1. ASSUME NEW a \in Actors, Flow(a) PROVE lease' \in {lease, a, "free"}
    BY <2>1 DEF Flow, Intent, Source, Finish, Acknowledge, Recover, Reconcile, SteerOnce,
       SteerSend, Dispatch, Send, Record, Status, Verdict, Complete
  <2> QED
    BY <1>0, <2>1 DEF Next, Drain, Enqueue, enqueuePromptQueueMessageIfAbsent,
       Remove, Retry, Move, SteerQueued, SteerPrompt, ReserveSteer, ReserveSteerRecord,
       DiscardSteer, DrainReserve, DiscardParked, ClearRefused, DrainWait, deferQueue,
       ComposerSend, RetrySteer, RetryParked, SettleDispatch, SettleSteer, Complete, Actors,
       DrainFail, DrainStart, DrainRefuse, DrainProbe, TurnEnd, ProviderRestart, Crash, RestTypes
<1>4. /\ removed' \subseteq Items /\ discarded' \subseteq Items \cup Steers
      /\ placed' \subseteq Items /\ unsure' \subseteq Rids
  <2>1. CASE UNCHANGED history
    BY <1>0, <2>1 DEF history, RestTypes
  <2>2. CASE \E i \in Items : Enqueue(i) \/ enqueuePromptQueueMessageIfAbsent(i) \/ Remove(i)
    BY <1>0, <2>2 DEF Enqueue, enqueuePromptQueueMessageIfAbsent, Remove, RestTypes
  <2>3. CASE DiscardSteer
    <3>1. pendingSteer.rid \in SteerRids
      BY <1>0, <2>3, SteerFacts DEF DiscardSteer
    <3>2. pendingSteer.rid[1] \in Items \cup Steers
      BY <3>1 DEF SteerRids
    <3> QED
      BY <1>0, <2>3, <3>2 DEF DiscardSteer, RestTypes
  <2>4. CASE ReserveSteer
    BY <1>0, <2>4, RidFacts DEF ReserveSteer, RestTypes, ProviderTypes
  <2>5. ASSUME NEW a \in Actors, Flow(a) PROVE UNCHANGED history
    BY <2>5 DEF Flow, Intent, Source, Finish, Acknowledge, Recover, Reconcile, SteerOnce,
       SteerSend, Dispatch, Send, Record, Status, Verdict
  <2> QED
    BY <2>1, <2>2, <2>3, <2>4, <2>5 DEF Next, Drain,
       Retry, Move, SteerQueued, SteerPrompt, ReserveSteerRecord,
       DrainReserve, DiscardParked, ClearRefused, DrainWait, deferQueue,
       ComposerSend, RetrySteer, RetryParked, SettleDispatch, SettleSteer,
       DrainFail, DrainStart, DrainRefuse, DrainProbe, TurnEnd, ProviderRestart, Crash
<1> QED
  BY <1>1, <1>2, <1>3, <1>4 DEF RestTypes

LEMMA FlowsNext == ASSUME DeliveryInv, Next PROVE FlowsOK'
<1>0. FlowsOK /\ RecordTypes /\ QueueInv
  BY DEF DeliveryInv
<1>1. CASE proc' = proc
  BY <1>0, <1>1 DEF FlowsOK, Kinds
<1> QED
  BY <1>0, <1>1, FlowsFlow, FlowsRest DEF Next, Enqueue, enqueuePromptQueueMessageIfAbsent, Remove,
     Retry, Move, DiscardParked, TurnEnd, ProviderRestart

LEMMA DeliveryInit == Init => DeliveryInv
<1> SUFFICES ASSUME Init PROVE DeliveryInv
  OBVIOUS
<1>1. FlowsOK
  BY IdleOK DEF Init, FlowsOK
<1>2. RecordTypes /\ ProviderTypes /\ RestTypes
  BY DeliveryAssumption DEF Init, RecordTypes, ProviderTypes, RestTypes
<1>3. QueueInv
  BY ItemAssumption DEF Init, QueueInit, QueueInv, QueueTypeOK, OnePlace, InFlights, Flying
<1>4. AllKnow
  BY DEF Init, AllKnow, Knows, Idle, Settling
<1>5. RecordInv /\ DeliveredOnce /\ NothingLost
  BY DEF Init, RecordInv, DeliveredOnce, NothingLost
<1> QED
  BY <1>1, <1>2, <1>3, <1>4, <1>5, JournalInit DEF DeliveryInv

LEMMA DeliveryNext == DeliveryInv /\ [Next]_vars => DeliveryInv'
<1> SUFFICES ASSUME DeliveryInv, [Next]_vars PROVE DeliveryInv'
  OBVIOUS
<1>1. JournalInv'
  BY JournalNext DEF DeliveryInv
<1>2. CASE Next
  <2>1. AllKnow' /\ RecordInv' /\ DeliveredOnce'
    BY <1>2, KnowledgeNext DEF KnowledgeKept
  <2>2. FlowsOK' /\ QueueInv' /\ NothingLost' /\ ProviderTypes' /\ RestTypes'
    BY <1>2, FlowsNext, QueueNext, ProviderNext, RestNext
  <2>3. dispatched' \subseteq Rids
    BY <2>1, <2>2, RidFacts DEF RecordInv, ProviderTypes, Reached, Turned
  <2>4. RecordTypes'
    BY <1>2, <2>3, RecordNext DEF RecordTypes
  <2> QED
    BY <1>1, <2>1, <2>2, <2>4 DEF DeliveryInv
<1>3. CASE UNCHANGED vars
  <2> USE <1>3 DEF vars, sessionVars, providerVars, history, counters, queueVars
  <2>1. FlowsOK' /\ RecordTypes' /\ ProviderTypes' /\ RestTypes'
    BY DEF DeliveryInv, FlowsOK, Kinds, RecordTypes, ProviderTypes, RestTypes
  <2>2. QueueInv' /\ NothingLost'
    BY DEF DeliveryInv, QueueInv, QueueTypeOK, OnePlace, Flying, NothingLost, Held
  <2>3. KnowledgeKept
    BY CarefreeStep DEF Carefree, Grows, Still, Turned, Reached
  <2> QED
    BY <1>1, <2>1, <2>2, <2>3 DEF DeliveryInv, KnowledgeKept
<1> QED
  BY <1>2, <1>3

(* Every variable of the delivery keeps its type, the drain's attempts stay *)
(* within MAX_QUEUE_DISPATCH_ATTEMPTS and the open turn holds accepted ids  *)
(* only.                                                                    *)
THEOREM DeliveryTyped == Spec => []TypeOK
<1>1. DeliveryInv => TypeOK
  BY RidFacts DEF DeliveryInv, FlowsOK, RecordTypes, QueueInv, ProviderTypes, RestTypes, TypeOK
<1> QED
  BY <1>1, DeliveryInit, DeliveryNext, PTL DEF Spec

(* A message is never delivered both as a steer and as a turn of its own,   *)
(* unless a user dropped its unsettled steer or steered it while its own    *)
(* dispatch was unsettled: dispatchNativeAgentPromptOnce looks at the       *)
(* record that completePendingSteer writes, under the session's lease.      *)
THEOREM DeliveredOnceAlways == Spec => []DeliveredOnce
<1>1. DeliveryInv => DeliveredOnce
  BY DEF DeliveryInv
<1> QED
  BY <1>1, DeliveryInit, DeliveryNext, PTL DEF Spec

(* A queued item leaves the queue only when a user takes it out or when it  *)
(* reached the provider: acknowledgePromptQueueDispatch and                 *)
(* settlePromptQueueSteerSource are called with such requests only.         *)
THEOREM NothingIsLost == Spec => []NothingLost
<1>1. DeliveryInv => NothingLost
  BY DEF DeliveryInv
<1> QED
  BY <1>1, DeliveryInit, DeliveryNext, PTL DEF Spec

(* An item is in one place of the queue: waiting once or reserved, through  *)
(* every reservation, failure, restoration and move.                        *)
THEOREM AlwaysOnePlace == Spec => []OnePlace
<1>1. DeliveryInv => OnePlace
  BY DEF DeliveryInv, QueueInv
<1> QED
  BY <1>1, DeliveryInit, DeliveryNext, PTL DEF Spec

-----------------------------------------------------------------------------
(* The promise.  What each queue mutation does to the items that are held. *)

LEMMA HeldMembers ==
    ASSUME QueueInv
    PROVE  /\ \A k \in 1..Len(messages) : messages[k][1] \in HeldItems
           /\ inFlight # NotInFlight => inFlight.rid[1] \in HeldItems
           /\ Reservation # NoRid => Reservation[1] \in HeldItems
<1>1. \A k \in 1..Len(messages) : messages[k][1] \in HeldItems
  BY DEF HeldItems, Ids
<1>2. inFlight # NotInFlight => inFlight.rid[1] \in HeldItems
  BY FlyingFacts, MessageFacts DEF QueueInv, HeldItems, Flying
<1>3. messages # <<>> => Head(messages)[1] \in HeldItems
  <2>1. messages \in Seq(Messages)
    BY DEF QueueInv, QueueTypeOK
  <2>2. messages # <<>> => 1 \in 1..Len(messages) /\ Head(messages) = messages[1]
    BY <2>1
  <2> QED
    BY <1>1, <2>2
<1> QED
  BY <1>1, <1>2, <1>3 DEF Reservation

LEMMA NothingNew ==
    ASSUME \A k \in 1..Len(messages') : messages'[k][1] \in HeldItems,
           inFlight' = NotInFlight \/ inFlight'.rid[1] \in HeldItems
    PROVE  HeldItems' \subseteq HeldItems
BY DEF HeldItems, Ids, Flying

LEMMA EnqueueHeld ==
    ASSUME QueueInv, NEW i \in Items, enqueuePromptQueueMessage(i)
    PROVE  i \notin HeldItems /\ HeldItems' = HeldItems \cup {i}
<1>1. messages \in Seq(Messages) /\ <<i, 0>> \in Messages
  BY ItemAssumption DEF QueueInv, QueueTypeOK, Messages
<1>2. i \notin HeldItems
  BY DEF enqueuePromptQueueMessage, Held, HeldItems
<1>3. messages' = Append(messages, <<i, 0>>) /\ inFlight' = inFlight
  BY DEF enqueuePromptQueueMessage, nextPromptQueue
<1>4. /\ Len(messages') = Len(messages) + 1 /\ Len(messages) \in Nat
      /\ \A k \in 1..Len(messages) : messages'[k] = messages[k]
      /\ messages'[Len(messages) + 1] = <<i, 0>>
  BY <1>1, <1>3, AppendProperties
<1>5. \A k \in 1..Len(messages') : messages'[k][1] \in Ids(messages) \cup {i}
  BY <1>4 DEF Ids
<1>6. HeldItems' \subseteq HeldItems \cup {i}
  BY <1>3, <1>5 DEF HeldItems, Ids, Flying
<1> QED
  BY <1>2, <1>6, EnqueueStep

LEMMA RemoveHeld ==
    ASSUME QueueInv, NEW i \in Items, removePromptQueueMessage(i)
    PROVE  i \in HeldItems /\ HeldItems' = HeldItems \ {i}
<1> DEFINE k == Position(messages, i)
<1>1. messages \in Seq(Messages) /\ i \in Ids(messages)
  BY DEF QueueInv, QueueTypeOK, removePromptQueueMessage
<1>2. k \in 1..Len(messages) /\ messages[k][1] = i
  BY <1>1, PositionFacts
<1>3. messages' = Seqs!RemoveAt(messages, k) /\ inFlight' = inFlight
  BY DEF removePromptQueueMessage, nextPromptQueue, Without
<1> HIDE DEF k
<1>4. /\ Len(messages') = Len(messages) - 1 /\ Len(messages) \in Nat
      /\ \A j \in 1..Len(messages') : messages'[j] = IF j < k THEN messages[j] ELSE messages[j + 1]
  <2> DEFINE ms == Seqs!RemoveAt(messages, k)
  <2>1. /\ Len(ms) = Len(messages) - 1
        /\ \A j \in 1..(Len(messages) - 1) : ms[j] = IF j < k THEN messages[j] ELSE messages[j + 1]
    BY <1>1, <1>2, RemoveAtFacts
  <2>2. messages' = ms /\ Len(messages) \in Nat
    BY <1>1, <1>3
  <2> HIDE DEF ms
  <2> QED
    BY <2>1, <2>2
<1>5. ASSUME NEW j \in 1..Len(messages')
      PROVE  messages'[j][1] \in HeldItems /\ messages'[j][1] # i
  <2>1. PICK l \in 1..Len(messages) : l # k /\ messages'[j] = messages[l]
    <3>1. CASE j < k
      BY <1>2, <1>4, <3>1
    <3>2. CASE j >= k
      <4>1. j + 1 \in 1..Len(messages) /\ j + 1 # k /\ messages'[j] = messages[j + 1]
        BY <1>2, <1>4, <3>2
      <4> QED
        BY <4>1
    <3> QED
      BY <1>2, <1>4, <3>1, <3>2
  <2> QED
    BY <1>2, <2>1, HeldMembers DEF QueueInv, OnePlace
<1>6. ~Flying(i)' /\ i \in HeldItems
  BY <1>1, <1>2, <1>3 DEF QueueInv, OnePlace, Flying, HeldItems
<1>7. HeldItems' \subseteq HeldItems
  BY <1>3, <1>5, HeldMembers, NothingNew
<1>8. i \notin HeldItems'
  BY <1>5, <1>6 DEF HeldItems, Ids
<1> QED
  BY <1>6, <1>7, <1>8, RemoveStep

LEMMA MoveHeld ==
    ASSUME QueueInv, NEW k, movePromptQueueMessage(k)
    PROVE  HeldItems' = HeldItems
<1>1. /\ messages \in Seq(Messages) /\ k \in 1..(Len(messages) - 1) /\ inFlight' = inFlight
      /\ messages' = [messages EXCEPT ![k] = messages[k + 1], ![k + 1] = messages[k]]
  BY DEF QueueInv, QueueTypeOK, movePromptQueueMessage, nextPromptQueue
<1>2. /\ Len(messages') = Len(messages)
      /\ \A j \in 1..Len(messages') : \E l \in 1..Len(messages) : messages'[j] = messages[l]
  BY <1>1
<1>3. \A j \in 1..Len(messages') : messages'[j][1] \in HeldItems
  BY <1>2, HeldMembers
<1> QED
  BY <1>1, <1>3, HeldMembers, NothingNew, MoveStep

LEMMA ReserveHeld ==
    ASSUME QueueInv, reservePromptQueueHeadForDispatch
    PROVE  HeldItems' = HeldItems
<1>1. CASE dispatchError = NoRid /\ inFlight = NotInFlight /\ messages # <<>>
  <2>1. messages \in Seq(Messages)
    BY DEF QueueInv, QueueTypeOK
  <2>2. messages' = Tail(messages) /\ inFlight'.rid = Head(messages)
    BY <1>1 DEF reservePromptQueueHeadForDispatch
  <2>3. /\ Head(messages) = messages[1] /\ 1 \in 1..Len(messages)
        /\ Len(messages') = Len(messages) - 1
        /\ \A j \in 1..Len(messages') : j + 1 \in 1..Len(messages) /\ messages'[j] = messages[j + 1]
    BY <1>1, <2>1, <2>2, HeadTailProperties
  <2> QED
    BY <2>2, <2>3, HeldMembers, NothingNew, ReserveStep
<1>2. CASE UNCHANGED queueVars
  BY <1>2 DEF HeldItems, Flying, Ids, queueVars
<1> QED
  BY <1>1, <1>2 DEF reservePromptQueueHeadForDispatch

LEMMA AcknowledgeHeld ==
    ASSUME QueueInv, NEW r, acknowledgePromptQueueDispatch(r)
    PROVE  \/ HeldItems' = HeldItems
           \/ r \in Messages /\ r[1] \in HeldItems /\ HeldItems' = HeldItems \ {r[1]}
<1>1. CASE inFlight.rid = r /\ inFlight # NotInFlight
  <2>1. r \in Messages /\ r[1] \in HeldItems
    BY <1>1, FlyingFacts, HeldMembers DEF QueueInv
  <2>2. messages' = messages /\ inFlight' = NotInFlight
    BY <1>1 DEF acknowledgePromptQueueDispatch
  <2>3. HeldItems' = Ids(messages)
    BY <2>2 DEF HeldItems, Flying
  <2>4. r[1] \notin Ids(messages)
    BY <1>1 DEF QueueInv, OnePlace, Flying, Ids
  <2>5. HeldItems \subseteq Ids(messages) \cup {r[1]}
    BY <1>1 DEF HeldItems, Flying
  <2>6. Ids(messages) \subseteq HeldItems
    BY DEF HeldItems
  <2> QED
    BY <2>1, <2>3, <2>4, <2>5, <2>6
<1>2. CASE inFlight.rid # r \/ inFlight = NotInFlight
  BY <1>2 DEF HeldItems, Flying, Ids, acknowledgePromptQueueDispatch
<1> QED
  BY <1>1, <1>2

LEMMA FailHeld ==
    ASSUME QueueInv, NEW r \in Messages, NEW retired, failPromptQueueDispatch(r, retired)
    PROVE  HeldItems' = HeldItems
<1>1. CASE inFlight.rid = r
  <2> DEFINE failed == IF retired THEN <<r[1], minted[r[1]] + 1>> ELSE r
  <2>1. messages \in Seq(Messages) /\ inFlight # NotInFlight /\ failed[1] = r[1]
    BY <1>1, MessageFacts DEF QueueInv, QueueTypeOK, NotInFlight
  <2>2. messages' = <<failed>> \o messages /\ inFlight' = NotInFlight
    BY <1>1 DEF failPromptQueueDispatch
  <2>3. QueueTypeOK'
    BY FailStep DEF QueueInv
  <2> HIDE DEF failed
  <2>4. /\ Len(messages') = Len(messages) + 1 /\ Len(messages) \in Nat
        /\ \A j \in 1..Len(messages') : messages'[j] = IF j = 1 THEN failed ELSE messages[j - 1]
    <3>1. <<failed>> \in Seq({failed}) /\ Len(<<failed>>) = 1 /\ <<failed>>[1] = failed
      OBVIOUS
    <3>2. <<failed>> \in Seq({failed} \cup Messages) /\ messages \in Seq({failed} \cup Messages)
      BY <2>1
    <3> QED
      BY <2>2, <3>1, <3>2, ConcatProperties
  <2>5. ASSUME NEW j \in 1..Len(messages') PROVE messages'[j][1] \in HeldItems
    <3>1. CASE j = 1
      BY <1>1, <2>1, <2>4, <3>1, HeldMembers
    <3>2. CASE j # 1
      <4>1. j - 1 \in 1..Len(messages) /\ messages'[j] = messages[j - 1]
        BY <2>4, <3>2
      <4> QED
        BY <4>1, HeldMembers
    <3> QED
      BY <3>1, <3>2
  <2> QED
    BY <2>2, <2>5, NothingNew, FailStep
<1>2. CASE inFlight.rid # r
  BY <1>2 DEF failPromptQueueDispatch, HeldItems, Flying, Ids, queueVars
<1> QED
  BY <1>1, <1>2

LEMMA SteerSourceHeld ==
    ASSUME QueueInv, inFlight = NotInFlight, NEW i \in Ids(messages), reserveSteerSource(i)
    PROVE  HeldItems' = HeldItems
<1> DEFINE k == Position(messages, i)
<1>1. messages \in Seq(Messages)
  BY DEF QueueInv, QueueTypeOK
<1>2. k \in 1..Len(messages)
  BY <1>1, PositionFacts
<1>3. messages' = Seqs!RemoveAt(messages, k) /\ inFlight'.rid = messages[k]
  BY DEF reserveSteerSource, Without
<1> HIDE DEF k
<1>4. /\ Len(messages') = Len(messages) - 1 /\ Len(messages) \in Nat
      /\ \A j \in 1..Len(messages') : messages'[j] = IF j < k THEN messages[j] ELSE messages[j + 1]
  <2> DEFINE ms == Seqs!RemoveAt(messages, k)
  <2>1. /\ Len(ms) = Len(messages) - 1
        /\ \A j \in 1..(Len(messages) - 1) : ms[j] = IF j < k THEN messages[j] ELSE messages[j + 1]
    BY <1>1, <1>2, RemoveAtFacts
  <2>2. messages' = ms /\ Len(messages) \in Nat
    BY <1>1, <1>3
  <2> HIDE DEF ms
  <2> QED
    BY <2>1, <2>2
<1>5. ASSUME NEW j \in 1..Len(messages') PROVE messages'[j][1] \in HeldItems
  <2>1. j \in 1..Len(messages) /\ j + 1 \in 1..Len(messages)
    BY <1>4
  <2> QED
    BY <1>4, <2>1, HeldMembers
<1> QED
  BY <1>2, <1>3, <1>5, HeldMembers, NothingNew, SteerSourceStep

LEMMA SettleSourceHeld ==
    ASSUME QueueInv, NEW r, NEW how, settlePromptQueueSteerSource(r, how)
    PROVE  \/ HeldItems' = HeldItems
           \/ /\ how # "restore" /\ r \in Messages /\ r[1] \in HeldItems
              /\ HeldItems' = HeldItems \ {r[1]}
<1>1. CASE inFlight.steer /\ inFlight.rid = r
  <2>1. inFlight # NotInFlight /\ r \in Messages /\ r[1] \in HeldItems /\ inFlight' = NotInFlight
    BY <1>1, FlyingFacts, HeldMembers DEF QueueInv, settlePromptQueueSteerSource
  <2>2. messages \in Seq(Messages) /\ r[1] \notin Ids(messages)
    BY <1>1, <2>1 DEF QueueInv, QueueTypeOK, OnePlace, Flying, Ids
  <2>3. CASE how = "restore"
    <3> DEFINE q == (IF inFlight.after \in Ids(messages)
                     THEN Position(messages, inFlight.after) ELSE 0) + 1
    <3>1. messages' = Seqs!InsertAt(messages, q, r)
      BY <1>1, <2>2, <2>3 DEF settlePromptQueueSteerSource, restoreSteeredQueueItem, Others
    <3>2. q \in 1..(Len(messages) + 1)
      BY <2>2, PositionFacts
    <3> HIDE DEF q
    <3>3. /\ Len(messages') = Len(messages) + 1 /\ Len(messages) \in Nat
          /\ \A j \in 1..Len(messages') :
                messages'[j] = IF j < q THEN messages[j] ELSE IF j = q THEN r ELSE messages[j - 1]
      BY <2>1, <2>2, <3>1, <3>2, InsertAtFacts
    <3>4. ASSUME NEW j \in 1..Len(messages') PROVE messages'[j][1] \in HeldItems
      <4>1. CASE j < q
        BY <3>2, <3>3, <4>1, HeldMembers
      <4>2. CASE j = q
        BY <2>1, <3>3, <4>2
      <4>3. CASE j > q
        <5>1. j - 1 \in 1..Len(messages) /\ messages'[j] = messages[j - 1]
          BY <3>2, <3>3, <4>3
        <5> QED
          BY <5>1, HeldMembers
      <4> QED
        BY <3>2, <3>3, <4>1, <4>2, <4>3
    <3>5. HeldItems' \subseteq HeldItems
      BY <2>1, <3>4, NothingNew
    <3> QED
      BY <2>3, <3>5, SettleSourceStep
  <2>4. CASE how # "restore"
    <3>1. messages' = messages
      BY <1>1, <2>4 DEF settlePromptQueueSteerSource
    <3>2. HeldItems' = Ids(messages)
      BY <2>1, <3>1 DEF HeldItems, Flying
    <3>3. HeldItems \subseteq Ids(messages) \cup {r[1]} /\ Ids(messages) \subseteq HeldItems
      BY <1>1 DEF HeldItems, Flying
    <3> QED
      BY <2>1, <2>2, <2>4, <3>2, <3>3
  <2> QED
    BY <2>3, <2>4
<1>2. CASE UNCHANGED queueVars
  BY <1>2 DEF HeldItems, Flying, Ids, queueVars
<1> QED
  BY <1>1, <1>2 DEF settlePromptQueueSteerSource

(* A steer that is parked has no receipt. *)
NotYet == pendingSteer # NoSteer => pendingSteer.rid \notin dispatched

(* What entitles a flow to send: its prompt is the parked one, or one of    *)
(* the queue while nothing is parked; to park a steer: it has no receipt;   *)
(* and what the drain works for was asked for.                              *)
Entitled(a, f) ==
    /\ f.at \in {"dispatch", "sending", "record"} => a \in {"composer", "drain"}
    /\ f.at \in {"sending", "record"} =>
          pendingDispatch = f.own \/ (a = "drain" /\ pendingDispatch = NoRid)
    /\ f.at = "reserving" => f.own \notin dispatched
    /\ a = "drain" /\ f.own # NoRid => f.own[1] \in placed

AllEntitled == \A a \in Actors : Entitled(a, proc[a])

PromisedInv == NotYet /\ HeldItems \subseteq placed /\ AllEntitled

Entitling == {"dispatch", "sending", "record", "reserving"}

(* Nothing a flow is entitled by changes, but by the holder of the lease. *)
Undisputed(a) ==
    /\ placed \subseteq placed'
    /\ UNCHANGED <<pendingDispatch, dispatched>> \/ lease \in {a, "free"}

LEMMA EntitledStep ==
    ASSUME DeliveryInv, AllEntitled, NEW a \in Actors, NEW f, proc' = [proc EXCEPT ![a] = f],
           Undisputed(a), Entitled(a, f)'
    PROVE  AllEntitled'
<1>1. proc'[a] = f /\ \A b \in Actors : b # a => proc'[b] = proc[b]
  BY DEF DeliveryInv, FlowsOK
<1>2. ASSUME NEW b \in Actors, b # a, ~UNCHANGED <<pendingDispatch, dispatched>>
      PROVE  proc[b].at \notin {"sending", "record", "reserving"}
  BY <1>2 DEF DeliveryInv, JournalInv, LeaseHeld, Inside, DispatchSection, SteerSection, Actors,
     Undisputed
<1>3. ASSUME NEW b \in Actors PROVE Entitled(b, proc[b])'
  <2>1. CASE b = a
    BY <1>1, <2>1 DEF Entitled
  <2>2. CASE b # a
    BY <1>1, <1>2, <2>2 DEF AllEntitled, Entitled, Undisputed
  <2> QED
    BY <2>1, <2>2
<1> QED
  BY <1>3 DEF AllEntitled

(* A flow that goes on where it needs no title. *)
LEMMA UntitledStep ==
    ASSUME DeliveryInv, AllEntitled, NEW a \in Actors, NEW f, proc' = [proc EXCEPT ![a] = f],
           Undisputed(a), f.at \notin Entitling, f.own \in {proc[a].own, NoRid}
    PROVE  AllEntitled'
<1>1. Entitled(a, f)'
  BY DEF Entitled, Entitling, AllEntitled, Undisputed
<1> QED
  BY <1>1, EntitledStep

LEMMA EntitledResume ==
    ASSUME DeliveryInv, AllEntitled, NEW a \in Actors, NEW ok,
           proc' = [proc EXCEPT ![a] = Resume(a, ok)], Undisputed(a)
    PROVE  AllEntitled'
<1>1. PICK f : /\ proc' = [proc EXCEPT ![a] = f]
               /\ \/ f.at = "idle" /\ f.own = NoRid
                  \/ f.at = "dispatch" /\ a = "composer"
  <2> DEFINE g == Resume(a, ok)
  <2>1. \/ g.at = "idle" /\ g.own = NoRid
        \/ g.at = "dispatch" /\ a = "composer"
    <3>1. CASE a = "composer" /\ ok /\ proc[a].retry
      BY <3>1 DEF Resume, DeliveryInv, FlowsOK, Procs
    <3>2. CASE ~(a = "composer" /\ ok /\ proc[a].retry)
      BY <3>2 DEF Resume, Idle
    <3> QED
      BY <3>1, <3>2
  <2>2. proc' = [proc EXCEPT ![a] = g]
    OBVIOUS
  <2> HIDE DEF g
  <2> QED
    BY <2>1, <2>2
<1>2. Entitled(a, f)'
  BY <1>1 DEF Entitled
<1> QED
  BY <1>1, <1>2, EntitledStep

LEMMA EntitledGoto ==
    ASSUME DeliveryInv, AllEntitled, NEW a \in Actors, NEW loc, Goto(a, loc),
           loc \notin Entitling, Undisputed(a)
    PROVE  AllEntitled'
<1>1. PICK f : proc' = [proc EXCEPT ![a] = f] /\ f.at = loc /\ f.own = proc[a].own
  BY GotoShape DEF DeliveryInv
<1> QED
  BY <1>1, UntitledStep

LEMMA EntitledStop ==
    ASSUME DeliveryInv, AllEntitled, NEW a \in Actors, Stop(a), Undisputed(a)
    PROVE  AllEntitled'
BY UntitledStep DEF Stop, Idle, Entitling

LEMMA EntitledComplete ==
    ASSUME DeliveryInv, AllEntitled, NEW a \in Actors, NEW how, NEW ok, Complete(a, how, ok),
           Undisputed(a)
    PROVE  AllEntitled'
<1>1. PICK f : /\ proc' = [proc EXCEPT ![a] = f] /\ f.at \in {"intent", "finish"}
               /\ f.own = proc[a].own
  BY CompleteShape DEF DeliveryInv
<1> QED
  BY <1>1, UntitledStep DEF Entitling

(* What a conflict makes of a flow. *)
LEMMA ConflictShape ==
    ASSUME FlowsOK, NEW a \in Actors, NEW rid, NEW loc, Conflict(a, rid, loc)
    PROVE  \E f : /\ proc' = [proc EXCEPT ![a] = f] /\ f.at \in {"defer", loc, "idle"}
                  /\ f.own \in {proc[a].own, NoRid}
<1> DEFINE f == IF a = "drain" THEN [proc[a] EXCEPT !.at = "defer"]
                ELSE IF proc[a].retry THEN [proc[a] EXCEPT !.at = loc, !.rid = rid]
                ELSE Idle
<1>1. proc[a] \in Procs
  BY DEF FlowsOK
<1>2. proc' = [proc EXCEPT ![a] = f]
  BY DEF Conflict
<1>3. f.at \in {"defer", loc, "idle"} /\ f.own \in {proc[a].own, NoRid}
  BY <1>1 DEF Procs, Idle
<1> HIDE DEF f
<1> QED
  BY <1>2, <1>3

LEMMA EntitledFlow ==
    ASSUME DeliveryInv, AllEntitled, NEW a \in Actors, Flow(a)
    PROVE  AllEntitled'
<1>0. /\ proc[a] \in Procs /\ DOMAIN proc = Actors
      /\ proc[a].at \in Inside => lease = a
      /\ Entitled(a, proc[a])
  BY DEF DeliveryInv, FlowsOK, JournalInv, LeaseHeld, AllEntitled
<1>1. placed' = placed
  BY DEF Flow, Intent, Source, Finish, Acknowledge, Recover, Reconcile, SteerOnce, SteerSend,
     Dispatch, Send, Record, Status, Verdict, history
<1>2. Undisputed(a)
  <2>1. CASE Finish(a) \/ Record(a)
    <3>1. proc[a].at \in {"finish", "record"}
      BY <2>1 DEF Finish, Record, At
    <3>2. lease = a
      BY <1>0, <3>1 DEF Inside, SteerSection, DispatchSection
    <3> QED
      BY <1>1, <3>2 DEF Undisputed
  <2>2. CASE Dispatch(a) \/ Verdict(a)
    BY <1>1, <2>2 DEF Undisputed, Dispatch, Verdict, Free
  <2> QED
    BY <1>1, <2>1, <2>2 DEF Undisputed, Flow, Intent, Source, Acknowledge, Recover, Reconcile,
       SteerOnce, SteerSend, Send, Status, sessionVars
<1>3. CASE Intent(a) \/ Source(a) \/ Status(a)
  BY <1>2, <1>3, EntitledGoto, EntitledStop DEF Intent, Source, Status, Entitling
<1>4. CASE Finish(a)
  <2>1. CASE proc[a].how = "applied" /\ proc[a].rid[1] \in Answers
    <3>1. Goto(a, "ack")
      BY <1>4, <2>1 DEF Finish, Goto
    <3> QED
      BY <1>2, <3>1, EntitledGoto DEF Entitling
  <2>2. CASE ~(proc[a].how = "applied" /\ proc[a].rid[1] \in Answers)
    BY <1>2, <1>4, <2>2, EntitledResume DEF Finish
  <2> QED
    BY <2>1, <2>2
<1>5. CASE Acknowledge(a) \/ Verdict(a)
  BY <1>2, <1>5, EntitledResume DEF Acknowledge, Verdict
<1>6. CASE Recover(a)
  BY <1>2, <1>6, EntitledResume, EntitledComplete, EntitledGoto, EntitledStop DEF Recover, Entitling
<1>7. CASE Reconcile(a)
  BY <1>2, <1>7, EntitledComplete, EntitledGoto, EntitledStop DEF Reconcile, Entitling
<1>8. CASE SteerOnce(a) \/ SteerSend(a)
  BY <1>2, <1>8, EntitledComplete, EntitledGoto, EntitledStop DEF SteerOnce, SteerSend, Entitling
<1>9. CASE Dispatch(a)
  <2>1. /\ proc[a].at = "dispatch" /\ a \in {"composer", "drain"}
    BY <1>0, <1>9 DEF Dispatch, At, Entitled
  <2>2. ASSUME NEW rid, NEW loc \in {"recover", "status"}, Conflict(a, rid, loc)
        PROVE  AllEntitled'
    <3>1. PICK f : /\ proc' = [proc EXCEPT ![a] = f] /\ f.at \in {"defer", "idle", loc}
                   /\ f.own \in {proc[a].own, NoRid}
      BY <2>2, ConflictShape DEF DeliveryInv
    <3> QED
      BY <1>2, <3>1, UntitledStep DEF Entitling
  <2>3. CASE Goto(a, "ack") \/ Stop(a)
    BY <1>2, <2>3, EntitledGoto, EntitledStop DEF Entitling
  <2>4. ASSUME pendingDispatch \in {NoRid, proc[a].own}, Goto(a, "sending"),
               pendingDispatch' = IF a = "composer" THEN proc[a].own ELSE pendingDispatch
        PROVE  AllEntitled'
    <3>1. PICK f : proc' = [proc EXCEPT ![a] = f] /\ f.at = "sending" /\ f.own = proc[a].own
      BY <2>4, GotoShape DEF DeliveryInv
    <3>2. Entitled(a, f)'
      BY <1>0, <1>1, <2>1, <2>4, <3>1 DEF Entitled
    <3> QED
      BY <1>2, <3>1, <3>2, EntitledStep
  <2> QED
    BY <1>9, <2>2, <2>3, <2>4 DEF Dispatch
<1>10. CASE Send(a)
  <2>1. proc[a].at = "sending" /\ UNCHANGED pendingDispatch
    BY <1>10 DEF Send, At, sessionVars
  <2>2. ASSUME Goto(a, "record") PROVE AllEntitled'
    <3>1. PICK f : proc' = [proc EXCEPT ![a] = f] /\ f.at = "record" /\ f.own = proc[a].own
      BY <2>2, GotoShape DEF DeliveryInv
    <3>2. Entitled(a, f)'
      BY <1>0, <1>1, <2>1, <3>1 DEF Entitled
    <3> QED
      BY <1>2, <3>1, <3>2, EntitledStep
  <2>3. ASSUME proc' = [proc EXCEPT ![a].at = "status", ![a].rid = proc[a].own] PROVE AllEntitled'
    <3> DEFINE f == [proc[a] EXCEPT !.at = "status", !.rid = proc[a].own]
    <3>1. proc' = [proc EXCEPT ![a] = f]
      BY <1>0, <2>3 DEF DeliveryInv, FlowsOK, Procs
    <3>2. f.at = "status" /\ f.own = proc[a].own
      BY <1>0 DEF Procs
    <3> HIDE DEF f
    <3> QED
      BY <1>2, <3>1, <3>2, UntitledStep DEF Entitling
  <2>4. ASSUME NEW loc \in {"defer", "fail", "clear", "retired", "clearRetired"}, Goto(a, loc)
        PROVE  AllEntitled'
    BY <1>2, <2>4, EntitledGoto DEF Entitling
  <2> QED
    BY <1>10, <2>2, <2>3, <2>4 DEF Send
<1>11. CASE Record(a)
  BY <1>2, <1>11, EntitledGoto, EntitledStop DEF Record, Entitling
<1> QED
  BY <1>3, <1>4, <1>5, <1>6, <1>7, <1>8, <1>9, <1>10, <1>11 DEF Flow

(* Every flow keeps its place, or goes on where it only needs a title to    *)
(* the message the queue hands out.                                         *)
Reseated == \A b \in Actors :
    \/ proc'[b] = proc[b]
    \/ /\ proc'[b].at \notin {"sending", "record", "reserving"}
       /\ proc'[b].at = "dispatch" => b \in {"composer", "drain"}
       /\ b = "drain" => proc'[b].own \in {proc[b].own, NoRid, Reservation}

LEMMA ReseatedStep ==
    ASSUME DeliveryInv, AllEntitled, HeldItems \subseteq placed, Reseated,
           placed \subseteq placed', dispatched' = dispatched,
           pendingDispatch' = pendingDispatch \/ lease = "free"
    PROVE  AllEntitled'
<1>1. Reservation # NoRid => Reservation[1] \in placed
  BY HeldMembers DEF DeliveryInv
<1>2. ASSUME NEW b \in Actors PROVE Entitled(b, proc[b])'
  <2>1. CASE proc'[b] = proc[b]
    <3>1. pendingDispatch' = pendingDispatch \/ proc[b].at \notin {"sending", "record"}
      BY DEF DeliveryInv, JournalInv, LeaseHeld, Inside, DispatchSection, Actors
    <3> QED
      BY <2>1, <3>1 DEF AllEntitled, Entitled
  <2>2. CASE proc'[b] # proc[b]
    BY <1>1, <2>2 DEF Reseated, AllEntitled, Entitled
  <2> QED
    BY <2>1, <2>2
<1> QED
  BY <1>2 DEF AllEntitled

(* A step that sets a flow up, or is none of a flow. *)
LEMMA EntitledStart ==
    ASSUME DeliveryInv, AllEntitled, HeldItems \subseteq placed,
           \/ \E i \in Items : Enqueue(i) \/ enqueuePromptQueueMessageIfAbsent(i) \/ Remove(i)
           \/ Retry \/ DiscardParked \/ \E k \in 1..Len(messages) : Move(k)
           \/ \E i \in Items : SteerQueued(i)
           \/ \E p \in Steers : SteerPrompt(p)
           \/ \E p \in Prompts : ComposerSend(p)
           \/ ReserveSteerRecord \/ DiscardSteer
           \/ RetrySteer \/ RetryParked \/ SettleDispatch \/ SettleSteer \/ ClearRefused
           \/ DrainStart \/ DrainWait \/ DrainRefuse \/ DrainProbe \/ DrainReserve
           \/ DrainFail \/ deferQueue
           \/ TurnEnd \/ ProviderRestart \/ Crash
    PROVE  AllEntitled'
<1> USE DEF At, Goto, Stop, Actors, Idle, Reseated
<1>0. /\ DOMAIN proc = Actors /\ (\A a \in Actors : DOMAIN proc[a] = DOMAIN Idle)
  BY DEF DeliveryInv, JournalInv, FlowShape
<1>1. ASSUME \/ \E i \in Items : Enqueue(i) \/ enqueuePromptQueueMessageIfAbsent(i) \/ Remove(i)
             \/ Retry \/ DiscardParked \/ \E k \in 1..Len(messages) : Move(k)
             \/ TurnEnd \/ ProviderRestart
      PROVE  Reseated
  BY <1>1 DEF Enqueue, enqueuePromptQueueMessageIfAbsent, Remove, Retry, DiscardParked, Move,
              TurnEnd, ProviderRestart
<1>2. ASSUME \E i \in Items : SteerQueued(i) PROVE Reseated
  <2>1. CASE inFlight.steer
    BY <1>0, <1>2, <2>1 DEF SteerQueued
  <2>2. CASE ~inFlight.steer
    <3>1. PICK r : proc' = [proc EXCEPT !["steer"] =
                              [proc["steer"] EXCEPT !.at = "probed", !.own = r]]
      BY <1>2, <2>2 DEF SteerQueued
    <3> QED
      BY <1>0, <3>1
  <2> QED
    BY <2>1, <2>2
<1>3. ASSUME \E p \in Steers : SteerPrompt(p) PROVE Reseated
  <2>1. PICK r : proc' = [proc EXCEPT !["composer"].at = "steer", !["composer"].own = r]
    BY <1>3 DEF SteerPrompt
  <2> QED
    BY <1>0, <2>1
<1>4. ASSUME \E p \in Prompts : ComposerSend(p) PROVE Reseated
  <2>1. PICK r : proc' = [proc EXCEPT !["composer"].at = "dispatch", !["composer"].own = r,
                                      !["composer"].retry = TRUE]
    BY <1>4 DEF ComposerSend
  <2> QED
    BY <1>0, <2>1
<1>5. ASSUME RetrySteer \/ ReserveSteerRecord PROVE Reseated
  BY <1>0, <1>5 DEF RetrySteer, ReserveSteerRecord
<1>6. ASSUME RetryParked PROVE Reseated
  BY <1>0, <1>6 DEF RetryParked
<1>7. ASSUME SettleDispatch \/ SettleSteer PROVE Reseated
  BY <1>0, <1>7 DEF SettleDispatch, SettleSteer
<1>8. ASSUME ClearRefused \/ DrainWait \/ DrainFail PROVE Reseated
  BY <1>0, <1>8 DEF ClearRefused, DrainWait, DrainFail
<1>9. ASSUME DrainStart PROVE Reseated
  BY <1>0, <1>9 DEF DrainStart
<1>10. ASSUME DrainRefuse \/ DrainProbe PROVE Reseated
  BY <1>0, <1>10 DEF DrainRefuse, DrainProbe
<1>11. ASSUME deferQueue \/ DrainReserve PROVE Reseated
  <2>1. CASE proc' = [proc EXCEPT !["drain"] = Idle]
    BY <1>0, <2>1
  <2>2. ASSUME NEW loc \in {"dispatch", "ack", "steer", "fail"},
               proc' = [proc EXCEPT !["drain"] = [proc["drain"] EXCEPT !.own = Reservation, !.at = loc]]
        PROVE  Reseated
    <3> DEFINE g == [proc["drain"] EXCEPT !.own = Reservation, !.at = loc]
    <3>1. g.own = Reservation /\ g.at = loc
      BY <1>0
    <3>2. proc' = [proc EXCEPT !["drain"] = g]
      BY <2>2
    <3> HIDE DEF g
    <3> QED
      BY <1>0, <3>1, <3>2
  <2> QED
    BY <1>11, <2>1, <2>2 DEF deferQueue, DrainReserve
<1>12. ASSUME Crash PROVE Reseated
  BY <1>12 DEF Crash
<1>13. ASSUME DiscardSteer PROVE Reseated
  BY <1>0, <1>13 DEF DiscardSteer, Complete
<1>14. /\ placed \subseteq placed' /\ dispatched' = dispatched
       /\ pendingDispatch' = pendingDispatch \/ lease = "free"
  BY DEF Enqueue, enqueuePromptQueueMessageIfAbsent, Remove,
       Retry, DiscardParked, Move, TurnEnd, ProviderRestart, SteerQueued, SteerPrompt,
       ComposerSend, RetrySteer, RetryParked, SettleDispatch, SettleSteer, ClearRefused,
       DrainWait, DrainFail, DrainStart, DrainRefuse, DrainProbe, deferQueue, Crash,
       DrainReserve, ReserveSteerRecord, DiscardSteer, Free, sessionVars, history
<1> HIDE DEF Reseated
<1>15. Reseated
  BY <1>1, <1>2, <1>3, <1>4, <1>5, <1>6, <1>7, <1>8, <1>9, <1>10, <1>11, <1>12, <1>13
<1> QED
  BY <1>14, <1>15, ReseatedStep

(* A steer that takes its item out of the queue. *)
LEMMA EntitledReserve ==
    ASSUME DeliveryInv, AllEntitled, ReserveSteer
    PROVE  AllEntitled'
<1>0. /\ "steer" \in Actors /\ proc["steer"] \in Procs /\ DOMAIN proc = Actors /\ QueueInv
  BY DEF DeliveryInv, FlowsOK, Actors
<1>1. Undisputed("steer")
  BY DEF ReserveSteer, Undisputed, sessionVars
<1>2. CASE Steerable(proc["steer"].own[1])
  <2> DEFINE i == proc["steer"].own[1]
  <2>1. /\ inFlight = NotInFlight /\ i \in Ids(messages) /\ reserveSteerSource(i)
        /\ messages[Position(messages, i)] \notin dispatched
    BY <1>2 DEF ReserveSteer, Steerable
  <2>2. PICK m : inFlight'.rid = m /\ m \notin dispatched
    BY <1>0, <2>1, SteerSourceStep
  <2> DEFINE g == [proc["steer"] EXCEPT !.at = "reserving", !.own = m]
  <2>3. proc' = [proc EXCEPT !["steer"] = g]
    BY <1>0, <1>2, <2>2 DEF ReserveSteer, FlowsOK, Procs
  <2>4. g.at = "reserving" /\ g.own = m
    BY <1>0 DEF Procs
  <2> HIDE DEF g
  <2>5. PICK f : proc' = [proc EXCEPT !["steer"] = f] /\ f.at = "reserving" /\ f.own = m
    BY <2>3, <2>4
  <2>6. Entitled("steer", f)'
    BY <2>2, <2>5 DEF Entitled, ReserveSteer, sessionVars
  <2> QED
    BY <1>0, <1>1, <2>5, <2>6, EntitledStep
<1>3. CASE ~Steerable(proc["steer"].own[1])
  BY <1>0, <1>1, <1>3, EntitledStop DEF ReserveSteer
<1> QED
  BY <1>2, <1>3

LEMMA EntitledNext ==
    ASSUME DeliveryInv, AllEntitled, HeldItems \subseteq placed, Next
    PROVE  AllEntitled'
BY EntitledFlow, EntitledStart, EntitledReserve DEF Next, Drain

(* A steer is parked without a receipt, and none comes while it is parked. *)
LEMMA NotYetNext ==
    ASSUME DeliveryInv, AllEntitled, NotYet, Next
    PROVE  NotYet'
<1>0. /\ RecordTypes /\ OneJournal
      /\ \A a \in Actors : /\ Knows(a, proc[a]) /\ Entitled(a, proc[a])
                           /\ proc[a].at \in DispatchSection => pendingSteer = NoSteer
  BY DEF DeliveryInv, AllKnow, AllEntitled, JournalInv, DispatchAlone
<1>1. CASE UNCHANGED <<pendingSteer, dispatched>>
  BY <1>1 DEF NotYet
<1>2. ASSUME NEW a \in Actors, Intent(a) PROVE NotYet'
  <2>1. pendingSteer # NoSteer
    BY <1>0, <1>2 DEF Intent, At, Knows, Settling
  <2>2. pendingSteer \in [rid : SteerRids, source : BOOLEAN, settle : Settlements]
    BY <1>0, <2>1 DEF RecordTypes
  <2>3. pendingSteer'.rid = pendingSteer.rid /\ dispatched' = dispatched
    BY <1>2, <2>2 DEF Intent
  <2> QED
    BY <2>1, <2>3 DEF NotYet
<1>3. ASSUME NEW a \in Actors, Finish(a) \/ Record(a) \/ Verdict(a) PROVE NotYet'
  <2>1. CASE Finish(a)
    BY <2>1 DEF Finish, NotYet
  <2>2. CASE Record(a)
    BY <1>0, <2>2 DEF Record, At, DispatchSection, NotYet
  <2>3. CASE Verdict(a)
    <3>1. CASE dispatched' = dispatched
      BY <2>3, <3>1 DEF Verdict, NotYet
    <3>2. CASE pendingDispatch = proc[a].rid /\ At(a, "confirm")
      <4>1. proc[a].rid \in Rids
        BY <1>0, <3>2, RidFacts DEF At, Knows, DeliveryInv, ProviderTypes, Reached, Turned
      <4>2. pendingSteer = NoSteer
        BY <1>0, <3>2, <4>1, RidFacts DEF OneJournal
      <4> QED
        BY <2>3, <4>2 DEF Verdict, NotYet
    <3> QED
      BY <2>3, <3>1, <3>2 DEF Verdict
  <2> QED
    BY <1>3, <2>1, <2>2, <2>3
<1>4. ASSUME NEW a \in Actors, SteerOnce(a) PROVE NotYet'
  <2>1. CASE UNCHANGED pendingSteer
    BY <1>4, <2>1 DEF SteerOnce, NotYet
  <2>2. CASE pendingSteer = NoSteer /\ SteerSendable(proc[a].own)
    BY <1>4, <2>2 DEF SteerOnce, SteerSendable, NotYet
  <2> QED
    BY <1>4, <2>1, <2>2 DEF SteerOnce
<1>5. CASE ReserveSteerRecord
  BY <1>0, <1>5 DEF ReserveSteerRecord, At, Actors, Entitled, NotYet
<1>6. CASE \E a \in Actors : Flow(a)
  BY <1>1, <1>2, <1>3, <1>4, <1>6 DEF Flow, Source, Acknowledge, Recover, Reconcile, SteerSend,
     Dispatch, Send, Status, sessionVars
<1> QED
  BY <1>1, <1>5, <1>6 DEF Next, Drain, Enqueue, enqueuePromptQueueMessageIfAbsent,
       Remove, Retry, Move, SteerQueued, SteerPrompt, ReserveSteer, DiscardSteer, DrainReserve,
       ComposerSend, RetrySteer, RetryParked, SettleDispatch, SettleSteer, ClearRefused,
       DiscardParked, DrainWait, DrainFail, DrainStart, DrainRefuse, DrainProbe, deferQueue,
       Crash, TurnEnd, ProviderRestart, sessionVars

(* Every step of the delivery is one the promise allows. *)
SameQueue == HeldItems' = HeldItems /\ UNCHANGED <<placed, removed>>
SameRisk == UNCHANGED <<discarded, unsure>>
SamePrompt == UNCHANGED pendingDispatch
SameSteer == pendingSteer'.rid = pendingSteer.rid
SameReceipts == UNCHANGED dispatched
SameProvider == Turned' = Turned /\ UNCHANGED steered

Promised == [Delivery!PromiseNext]_(Delivery!promiseVars)

LEMMA StutterPromised ==
    ASSUME SameQueue, SameRisk, SamePrompt, SameSteer, SameReceipts, SameProvider
    PROVE  Promised
BY DEF SameQueue, SameRisk, SamePrompt, SameSteer, SameReceipts, SameProvider, Promised,
   Delivery!promiseVars, Delivery!asks, Delivery!record, Delivery!provider

LEMMA ConsumePromised ==
    ASSUME NEW i \in Items, i \in HeldItems, HeldItems' = HeldItems \ {i},
           i \in Delivered \cup discarded, UNCHANGED <<placed, removed>>,
           SameRisk, SamePrompt, SameSteer, SameReceipts, SameProvider
    PROVE  Promised
<1>1. Delivery!Reaching(i) \/ i \in discarded
  BY DEF Delivery!Reaching, Delivered, Reached
<1>2. Delivery!Consume(i)
  BY <1>1 DEF SameRisk, SamePrompt, SameSteer, SameReceipts, SameProvider, Delivery!Consume,
     Delivery!record, Delivery!provider
<1> QED
  BY <1>2 DEF Promised, Delivery!PromiseNext

LEMMA GiveUpPromised ==
    ASSUME pendingDispatch # NoRid, pendingDispatch' = NoRid,
           SameQueue, SameRisk, SameSteer, SameReceipts, SameProvider
    PROVE  Promised
<1>1. Delivery!GiveUpPrompt
  BY DEF SameQueue, SameRisk, SameSteer, SameReceipts, SameProvider, Delivery!GiveUpPrompt,
     Delivery!asks, Delivery!provider
<1> QED
  BY <1>1 DEF Promised, Delivery!PromiseNext

LEMMA ParkPromised ==
    ASSUME NEW r \in Rids, r \notin dispatched, pendingDispatch = NoRid, pendingSteer.rid = NoRid,
           \/ pendingDispatch' = r /\ SameSteer
           \/ pendingSteer'.rid = r /\ SamePrompt,
           SameQueue, SameRisk, SameReceipts, SameProvider
    PROVE  Promised
<1>1. Delivery!Park(r)
  BY DEF SameQueue, SameRisk, SamePrompt, SameSteer, SameReceipts, SameProvider, Delivery!Park,
     Delivery!asks, Delivery!provider
<1> QED
  BY <1>1 DEF Promised, Delivery!PromiseNext

LEMMA ReceiptPromised ==
    ASSUME NEW r \in Rids, r \in Reached, dispatched' = dispatched \cup {r},
           pendingDispatch \in {r, NoRid}, pendingSteer.rid \in {r, NoRid},
           pendingDispatch' = NoRid, pendingSteer'.rid = NoRid,
           SameQueue, SameRisk, SameProvider
    PROVE  Promised
<1>1. Delivery!Receipt(r)
  BY DEF SameQueue, SameRisk, SameProvider, Reached, Delivery!Receipt,
     Delivery!asks, Delivery!provider
<1> QED
  BY <1>1 DEF Promised, Delivery!PromiseNext

(* A message both a turn and a steer is one whose risk a user took. *)
LEMMA RiskTaken ==
    ASSUME DeliveredOnce', SameRisk, NEW r, r \in Turned', r \in steered'
    PROVE  Delivery!AtRisk(r)
BY DEF DeliveredOnce, SameRisk, Turned, Delivery!AtRisk

LEMMA SettlePromised ==
    ASSUME DeliveryInv, NEW a \in Actors, Intent(a) \/ Source(a) \/ Finish(a) \/ Acknowledge(a)
    PROVE  Promised
<1>0. /\ Knows(a, proc[a]) /\ proc[a] \in Procs /\ QueueInv /\ RecordTypes
      /\ proc[a].at \in SteerSection => pendingDispatch = NoRid
  BY DEF DeliveryInv, AllKnow, FlowsOK, JournalInv, SteerAlone
<1>1. CASE Intent(a)
  <2>1. pendingSteer # NoSteer
    BY <1>0, <1>1 DEF Intent, At, Knows, Settling
  <2>2. pendingSteer \in [rid : SteerRids, source : BOOLEAN, settle : Settlements]
    BY <1>0, <2>1 DEF RecordTypes
  <2>3. SameSteer
    BY <1>1, <2>2 DEF Intent, SameSteer
  <2>4. HeldItems' = HeldItems
    BY <1>1 DEF Intent, queueVars, HeldItems, Flying, Ids
  <2>5. SameQueue /\ SameRisk /\ SamePrompt /\ SameReceipts /\ SameProvider
    BY <1>1, <2>4 DEF Intent, providerVars, history, SameQueue, SameRisk, SamePrompt, SameReceipts,
       SameProvider, Turned
  <2> QED
    BY <2>3, <2>5, StutterPromised
<1>2. CASE Source(a)
  <2>1. /\ UNCHANGED <<placed, removed>>
        /\ SameRisk /\ SamePrompt /\ SameSteer /\ SameReceipts /\ SameProvider
    BY <1>2 DEF Source, sessionVars, providerVars, history, SameRisk, SamePrompt, SameSteer,
       SameReceipts, SameProvider, Turned
  <2>2. settlePromptQueueSteerSource(proc[a].rid, proc[a].how) /\ proc[a].at = "source"
    BY <1>2 DEF Source, At
  <2>3. Settled(proc[a].rid, proc[a].how) /\ proc[a].how # "none"
    BY <1>0, <2>2 DEF Knows, Settling
  <2>4. proc[a].how # "restore" => proc[a].rid[1] \in Delivered \cup discarded
    BY <1>0, <2>3 DEF Settled, Delivered, Procs, Settlements
  <2>5. CASE HeldItems' = HeldItems
    BY <2>1, <2>5, StutterPromised DEF SameQueue
  <2>6. CASE /\ proc[a].how # "restore" /\ proc[a].rid \in Messages
             /\ proc[a].rid[1] \in HeldItems /\ HeldItems' = HeldItems \ {proc[a].rid[1]}
    <3>1. proc[a].rid[1] \in Items
      BY <2>6, MessageFacts
    <3> QED
      BY <2>1, <2>4, <2>6, <3>1, ConsumePromised
  <2> QED
    BY <1>0, <2>2, <2>5, <2>6, SettleSourceHeld
<1>3. CASE Finish(a)
  <2>1. /\ proc[a].at = "finish" /\ pendingSteer # NoSteer /\ proc[a].rid = pendingSteer.rid
        /\ proc[a].how # "none" /\ Settled(proc[a].rid, proc[a].how)
    BY <1>0, <1>3 DEF Finish, At, Knows, Settling
  <2>2. pendingDispatch = NoRid /\ pendingSteer.rid \in Rids /\ pendingSteer.rid # NoRid
    BY <1>0, <2>1, SteerFacts, RidFacts DEF SteerSection
  <2>3. pendingSteer'.rid = NoRid /\ pendingDispatch' = NoRid
    BY <1>3, <2>2 DEF Finish, NoSteer
  <2>4. HeldItems' = HeldItems
    BY <1>3 DEF Finish, queueVars, HeldItems, Flying, Ids
  <2>5. SameQueue /\ SameRisk /\ SameProvider
    BY <1>3, <2>4 DEF Finish, providerVars, history, SameQueue, SameRisk, SameProvider, Turned
  <2>6. CASE proc[a].how = "applied"
    <3>1. pendingSteer.rid \in Reached /\ dispatched' = dispatched \cup {pendingSteer.rid}
      BY <1>3, <2>1, <2>6 DEF Finish, Settled
    <3> QED
      BY <2>2, <2>3, <2>5, <3>1, ReceiptPromised
  <2>7. CASE proc[a].how # "applied"
    <3>1. pendingSteer.rid \notin steered \/ pendingSteer.rid[1] \in discarded
      BY <1>0, <2>1, <2>7 DEF Settled, Procs, Settlements
    <3>2. dispatched' = dispatched
      BY <1>3, <2>7 DEF Finish
    <3>3. Delivery!GiveUpSteer
      BY <2>2, <2>3, <2>5, <3>1, <3>2 DEF Delivery!GiveUpSteer, SameQueue, SameRisk, SameProvider,
         Delivery!asks, Delivery!provider
    <3> QED
      BY <3>3 DEF Promised, Delivery!PromiseNext
  <2> QED
    BY <2>6, <2>7
<1>4. CASE Acknowledge(a)
  <2>1. /\ UNCHANGED <<placed, removed>>
        /\ SameRisk /\ SamePrompt /\ SameSteer /\ SameReceipts /\ SameProvider
    BY <1>4 DEF Acknowledge, sessionVars, providerVars, history, SameRisk, SamePrompt, SameSteer,
       SameReceipts, SameProvider, Turned
  <2>2. PICK r : acknowledgePromptQueueDispatch(r) /\ r \in Reached \cup {NoRid}
    BY <1>0, <1>4 DEF Acknowledge, At, Knows
  <2>3. CASE HeldItems' = HeldItems
    BY <2>1, <2>3, StutterPromised DEF SameQueue
  <2>4. CASE r \in Messages /\ r[1] \in HeldItems /\ HeldItems' = HeldItems \ {r[1]}
    <3>1. r[1] \in Items /\ r[1] \in Delivered
      BY <2>2, <2>4, MessageFacts DEF Delivered
    <3> QED
      BY <2>1, <2>4, <3>1, ConsumePromised
  <2> QED
    BY <1>0, <2>2, <2>3, <2>4, AcknowledgeHeld
<1> QED
  BY <1>1, <1>2, <1>3, <1>4

LEMMA RecoverPromised ==
    ASSUME DeliveryInv, NEW a \in Actors, Recover(a)
    PROVE  Promised
<1>0. QueueInv /\ RecordInv
  BY DEF DeliveryInv
<1>1. /\ UNCHANGED <<placed, removed>>
      /\ SameRisk /\ SamePrompt /\ SameSteer /\ SameReceipts /\ SameProvider
  BY DEF Recover, sessionVars, providerVars, history, SameRisk, SamePrompt, SameSteer,
     SameReceipts, SameProvider, Turned
<1>2. CASE UNCHANGED queueVars
  <2>1. HeldItems' = HeldItems
    BY <1>2 DEF queueVars, HeldItems, Flying, Ids
  <2> QED
    BY <1>1, <2>1, StutterPromised DEF SameQueue
<1>3. ASSUME NEW how, settlePromptQueueSteerSource(proc[a].rid, how),
             how # "restore" => proc[a].rid \in dispatched
      PROVE  Promised
  <2>1. CASE HeldItems' = HeldItems
    BY <1>1, <2>1, StutterPromised DEF SameQueue
  <2>2. CASE /\ how # "restore" /\ proc[a].rid \in Messages
             /\ proc[a].rid[1] \in HeldItems /\ HeldItems' = HeldItems \ {proc[a].rid[1]}
    <3>1. proc[a].rid[1] \in Items /\ proc[a].rid[1] \in Delivered
      BY <1>0, <1>3, <2>2, MessageFacts DEF RecordInv, Delivered
    <3> QED
      BY <1>1, <2>2, <3>1, ConsumePromised
  <2> QED
    BY <1>0, <1>3, <2>1, <2>2, SettleSourceHeld
<1> QED
  BY <1>2, <1>3 DEF Recover

(* A flow's steps towards the provider. *)
LEMMA SteerPromised ==
    ASSUME DeliveryInv, PromisedInv, KnowledgeKept, NEW a \in Actors, SteerOnce(a) \/ SteerSend(a)
    PROVE  Promised
<1>0. /\ Knows(a, proc[a]) /\ Kinds(a, proc[a]) /\ RecordTypes
      /\ proc[a].at \in SteerSection => pendingDispatch = NoRid
  BY DEF DeliveryInv, AllKnow, FlowsOK, JournalInv, SteerAlone
<1>1. HeldItems' = HeldItems
  BY DEF SteerOnce, SteerSend, queueVars, HeldItems, Flying, Ids
<1>2. SameQueue /\ SameRisk /\ SamePrompt /\ SameReceipts
  BY <1>1 DEF SteerOnce, SteerSend, history, sessionVars, SameQueue, SameRisk, SamePrompt,
     SameReceipts
<1>3. CASE SteerOnce(a)
  <2>1. SameProvider
    BY <1>3 DEF SteerOnce, providerVars, SameProvider, Turned
  <2>2. CASE pendingSteer' = pendingSteer
    BY <1>2, <2>1, <2>2, StutterPromised DEF SameSteer
  <2>3. CASE /\ SteerSendable(proc[a].own) /\ pendingSteer = NoSteer
             /\ pendingSteer' = [rid |-> proc[a].own, source |-> FALSE, settle |-> "none"]
    <3>1. proc[a].own \in Rids
      BY <1>0, <1>3, RidFacts DEF SteerOnce, At, Kinds
    <3>2. /\ pendingDispatch = NoRid /\ pendingSteer.rid = NoRid /\ pendingSteer'.rid = proc[a].own
          /\ proc[a].own \notin dispatched
      BY <2>3 DEF SteerSendable, NoSteer
    <3> QED
      BY <1>2, <2>1, <3>1, <3>2, ParkPromised
  <2> QED
    BY <1>3, <2>2, <2>3 DEF SteerOnce
<1>4. CASE SteerSend(a)
  <2>1. SameSteer /\ Turned' = Turned
    BY <1>4 DEF SteerSend, sessionVars, SameSteer, Turned
  <2>2. CASE steered' = steered
    BY <1>2, <2>1, <2>2, StutterPromised DEF SameProvider
  <2>3. CASE steered' = steered \cup {proc[a].own} /\ proc[a].own \notin steered
    <3>1. proc[a].at = "steering"
      BY <1>4 DEF SteerSend, At
    <3>2. /\ proc[a].own \in SteerRids /\ pendingSteer.rid = proc[a].own
          /\ pendingDispatch = NoRid
      BY <1>0, <3>1 DEF Kinds, Knows, SteerSection
    <3>3. proc[a].own \in Rids /\ pendingSteer # NoSteer /\ proc[a].own \notin dispatched
      BY <3>2, RidFacts DEF NoSteer, PromisedInv, NotYet
    <3>4. proc[a].own \in Turned => Delivery!AtRisk(proc[a].own)
      BY <1>2, <2>1, <2>3, RiskTaken DEF KnowledgeKept
    <3>5. Delivery!Join(proc[a].own)
      BY <1>2, <2>1, <2>3, <3>2, <3>3, <3>4 DEF Delivery!Join, SameQueue, SameRisk, SamePrompt,
         SameSteer, SameReceipts, Delivery!asks, Delivery!record
    <3> QED
      BY <3>3, <3>5 DEF Promised, Delivery!PromiseNext
  <2> QED
    BY <1>4, <2>2, <2>3 DEF SteerSend
<1> QED
  BY <1>3, <1>4

LEMMA DispatchPromised ==
    ASSUME DeliveryInv, NEW a \in Actors, Dispatch(a)
    PROVE  Promised
<1>1. HeldItems' = HeldItems
  BY DEF Dispatch, queueVars, HeldItems, Flying, Ids
<1>2. SameQueue /\ SameRisk /\ SameSteer /\ SameReceipts /\ SameProvider
  BY <1>1 DEF Dispatch, history, providerVars, SameQueue, SameRisk, SameSteer, SameReceipts,
     SameProvider, Turned
<1>3. CASE pendingDispatch' = pendingDispatch
  BY <1>2, <1>3, StutterPromised DEF SamePrompt
<1>4. CASE pendingDispatch # NoRid /\ pendingDispatch' = NoRid
  BY <1>2, <1>4, GiveUpPromised
<1>5. CASE /\ pendingDispatch = NoRid /\ pendingDispatch' = proc[a].own
           /\ pendingSteer = NoSteer /\ proc[a].own \notin dispatched
  <2>1. proc[a].own \in Rids
    BY RidFacts DEF DeliveryInv, FlowsOK, Dispatch, At, Kinds
  <2>2. pendingSteer.rid = NoRid
    BY <1>5 DEF NoSteer
  <2> QED
    BY <1>2, <1>5, <2>1, <2>2, ParkPromised
<1> QED
  BY <1>3, <1>4, <1>5 DEF Dispatch

LEMMA SendPromised ==
    ASSUME DeliveryInv, PromisedInv, KnowledgeKept, NEW a \in Actors, Send(a)
    PROVE  Promised
<1>0. /\ proc[a].at = "sending" /\ Knows(a, proc[a]) /\ Kinds(a, proc[a])
      /\ Entitled(a, proc[a]) /\ DispatchAlone
  BY DEF DeliveryInv, AllKnow, FlowsOK, JournalInv, PromisedInv, AllEntitled, Send, At
<1>1. HeldItems' = HeldItems
  BY DEF Send, queueVars, HeldItems, Flying, Ids
<1>2. SameQueue /\ SameRisk /\ SamePrompt /\ SameSteer /\ SameReceipts
  BY <1>1 DEF Send, history, sessionVars, SameQueue, SameRisk, SamePrompt, SameSteer, SameReceipts
<1>3. CASE UNCHANGED providerVars
  <2>1. SameProvider
    BY <1>3 DEF providerVars, SameProvider, Turned
  <2> QED
    BY <1>2, <2>1, StutterPromised
<1>4. CASE Accept(proc[a].own)
  <2>1. steered' = steered /\ Turned' = Turned \cup {proc[a].own}
    BY <1>4 DEF Accept, Turned
  <2>2. /\ proc[a].own \in Rids /\ proc[a].own # NoRid /\ proc[a].own \notin dispatched
        /\ pendingSteer.rid = NoRid
    BY <1>0, RidFacts DEF Kinds, Knows, DispatchAlone, DispatchSection, NoSteer
  <2>3. pendingDispatch = proc[a].own \/ (pendingDispatch = NoRid /\ proc[a].own[1] \in placed)
    BY <1>0, <2>2 DEF Entitled
  <2>4. proc[a].own \in steered => Delivery!AtRisk(proc[a].own)
    BY <1>2, <2>1, RiskTaken DEF KnowledgeKept
  <2>5. Delivery!Run(proc[a].own)
    BY <1>2, <2>1, <2>2, <2>3, <2>4 DEF Delivery!Run, SameQueue, SameRisk, SamePrompt,
       SameSteer, SameReceipts, Delivery!asks, Delivery!record
  <2> QED
    BY <2>2, <2>5 DEF Promised, Delivery!PromiseNext
<1> QED
  BY <1>3, <1>4 DEF Send, Accept

LEMMA VerdictPromised ==
    ASSUME DeliveryInv, PromisedInv, NEW a \in Actors, Record(a) \/ Verdict(a)
    PROVE  Promised
<1>0. /\ Knows(a, proc[a]) /\ Entitled(a, proc[a]) /\ DispatchAlone /\ OneJournal
      /\ Reached \subseteq Rids /\ NoRid \notin Rids
  BY RidFacts DEF DeliveryInv, AllKnow, JournalInv, PromisedInv, AllEntitled, ProviderTypes,
     Reached, Turned
<1>1. HeldItems' = HeldItems
  BY DEF Record, Verdict, queueVars, HeldItems, Flying, Ids
<1>2. SameQueue /\ SameRisk /\ SameSteer /\ SameProvider
  BY <1>1 DEF Record, Verdict, history, providerVars, SameQueue, SameRisk, SameSteer,
     SameProvider, Turned
<1>3. CASE Record(a)
  <2>1. proc[a].at = "record"
    BY <1>3 DEF Record, At
  <2>2. /\ proc[a].own \in Reached /\ pendingSteer.rid = NoRid
        /\ pendingDispatch \in {proc[a].own, NoRid}
    BY <1>0, <2>1 DEF Knows, Entitled, DispatchAlone, DispatchSection, NoSteer
  <2>3. /\ dispatched' = dispatched \cup {proc[a].own} /\ pendingDispatch' = NoRid
        /\ pendingSteer'.rid = NoRid
    BY <1>2, <1>3, <2>2 DEF Record, SameSteer
  <2> QED
    BY <1>0, <1>2, <2>2, <2>3, ReceiptPromised
<1>4. CASE Verdict(a)
  <2>1. CASE pendingDispatch' = pendingDispatch /\ dispatched' = dispatched
    BY <1>2, <2>1, StutterPromised DEF SamePrompt, SameReceipts
  <2>2. CASE pendingDispatch # NoRid /\ pendingDispatch' = NoRid /\ dispatched' = dispatched
    BY <1>2, <2>2, GiveUpPromised DEF SameReceipts
  <2>3. CASE /\ pendingDispatch = proc[a].rid /\ pendingDispatch' = NoRid /\ At(a, "confirm")
             /\ dispatched' = dispatched \cup {proc[a].rid}
    <3>1. proc[a].rid \in Reached
      BY <1>0, <2>3 DEF Knows, At
    <3>2. pendingSteer.rid = NoRid /\ pendingSteer'.rid = NoRid
      BY <1>0, <1>2, <2>3, <3>1 DEF OneJournal, NoSteer, SameSteer
    <3> QED
      BY <1>0, <1>2, <2>3, <3>1, <3>2, ReceiptPromised
  <2> QED
    BY <1>4, <2>1, <2>2, <2>3 DEF Verdict
<1> QED
  BY <1>3, <1>4

LEMMA FlowPromised ==
    ASSUME DeliveryInv, PromisedInv, KnowledgeKept, NEW a \in Actors, Flow(a)
    PROVE  Promised
<1>1. CASE Reconcile(a) \/ Status(a)
  <2>1. HeldItems' = HeldItems
    BY <1>1 DEF Reconcile, Status, queueVars, HeldItems, Flying, Ids
  <2>2. SameQueue /\ SameRisk /\ SamePrompt /\ SameSteer /\ SameReceipts /\ SameProvider
    BY <1>1, <2>1 DEF Reconcile, Status, history, providerVars, sessionVars, SameQueue, SameRisk,
       SamePrompt, SameSteer, SameReceipts, SameProvider, Turned
  <2> QED
    BY <2>2, StutterPromised
<1> QED
  BY <1>1, SettlePromised, RecoverPromised, SteerPromised, DispatchPromised, SendPromised,
     VerdictPromised DEF Flow

(* The clients and the queue. *)
LEMMA ClientPromised ==
    ASSUME DeliveryInv, NEW i \in Items,
           Enqueue(i) \/ enqueuePromptQueueMessageIfAbsent(i) \/ Remove(i)
    PROVE  Promised
<1>1. QueueInv
  BY DEF DeliveryInv
<1>2. /\ UNCHANGED <<discarded, unsure>>
      /\ SamePrompt /\ SameSteer /\ SameReceipts /\ SameProvider
  BY DEF Enqueue, enqueuePromptQueueMessageIfAbsent, Remove, sessionVars, providerVars,
     SamePrompt, SameSteer, SameReceipts, SameProvider, Turned
<1>3. CASE Enqueue(i) \/ enqueuePromptQueueMessageIfAbsent(i)
  <2>1. /\ enqueuePromptQueueMessage(i) /\ placed' = placed \cup {i}
        /\ removed' = removed \ {i}
    BY <1>3 DEF Enqueue, enqueuePromptQueueMessageIfAbsent
  <2>2. Delivery!Publish(i)
    BY <1>1, <1>2, <2>1, EnqueueHeld DEF SamePrompt, SameSteer, SameReceipts, SameProvider,
       Delivery!Publish, Delivery!record, Delivery!provider
  <2> QED
    BY <2>2 DEF Promised, Delivery!PromiseNext
<1>4. CASE Remove(i)
  <2>1. /\ removePromptQueueMessage(i) /\ placed' = placed /\ removed' = removed \cup {i}
    BY <1>4 DEF Remove
  <2>2. Delivery!Withdraw(i)
    BY <1>1, <1>2, <2>1, RemoveHeld DEF SamePrompt, SameSteer, SameReceipts, SameProvider,
       Delivery!Withdraw, Delivery!record, Delivery!provider
  <2> QED
    BY <2>2 DEF Promised, Delivery!PromiseNext
<1> QED
  BY <1>3, <1>4

LEMMA DrainPromised ==
    ASSUME DeliveryInv,
           \/ Retry \/ \E k \in 1..Len(messages) : Move(k)
           \/ DrainReserve \/ DrainFail \/ deferQueue
    PROVE  Promised
<1>0. QueueInv /\ "drain" \in Actors /\ Kinds("drain", proc["drain"])
  BY DEF DeliveryInv, FlowsOK, Actors
<1>1. /\ UNCHANGED <<placed, removed>>
      /\ SameRisk /\ SamePrompt /\ SameSteer /\ SameReceipts /\ SameProvider
  BY DEF Retry, Move, DrainReserve, DrainFail, deferQueue, sessionVars, providerVars, history,
     SameRisk, SamePrompt, SameSteer, SameReceipts, SameProvider, Turned
<1>2. HeldItems' = HeldItems
  <2>1. CASE UNCHANGED <<messages, inFlight>>
    BY <2>1 DEF HeldItems, Flying, Ids
  <2>2. CASE Retry
    BY <2>1, <2>2 DEF Retry, retryPromptQueueDispatch
  <2>3. CASE \E k \in 1..Len(messages) : Move(k)
    BY <1>0, <2>3, MoveHeld DEF Move
  <2>4. CASE DrainReserve
    BY <1>0, <2>4, ReserveHeld DEF DrainReserve
  <2>5. CASE DrainFail
    <3>1. proc["drain"].own \in Messages
      BY <1>0, <2>5 DEF DrainFail, At, Kinds, DrainHolds
    <3> QED
      BY <1>0, <2>5, <3>1, FailHeld DEF DrainFail
  <2>6. CASE deferQueue
    <3>1. At("drain", "defer") => proc["drain"].own \in Messages
      BY <1>0 DEF At, Kinds, DrainHolds
    <3>2. \/ UNCHANGED queueVars
          \/ At("drain", "defer") /\ failPromptQueueDispatch(proc["drain"].own, FALSE)
          \/ reservePromptQueueHeadForDispatch
      BY <2>6 DEF deferQueue
    <3>3. UNCHANGED queueVars => UNCHANGED <<messages, inFlight>>
      BY DEF queueVars
    <3> QED
      BY <1>0, <2>1, <3>1, <3>2, <3>3, FailHeld, ReserveHeld
  <2> QED
    BY <2>2, <2>3, <2>4, <2>5, <2>6
<1> QED
  BY <1>1, <1>2, StutterPromised DEF SameQueue

(* A steer takes its item, is written to the record, or is dropped. *)
LEMMA ReservePromised ==
    ASSUME DeliveryInv, PromisedInv, ReserveSteer \/ ReserveSteerRecord \/ DiscardSteer
    PROVE  Promised
<1>0. /\ QueueInv /\ RecordTypes /\ ProviderTypes /\ "steer" \in Actors
      /\ Knows("steer", proc["steer"]) /\ Kinds("steer", proc["steer"])
      /\ Entitled("steer", proc["steer"]) /\ SteerAlone
  BY DEF DeliveryInv, AllKnow, FlowsOK, Actors, JournalInv, PromisedInv, AllEntitled
<1>1. CASE ReserveSteer
  <2> DEFINE i == proc["steer"].own[1]
  <2>1. /\ UNCHANGED <<placed, removed, discarded>>
        /\ SamePrompt /\ SameSteer /\ SameReceipts /\ SameProvider
    BY <1>1 DEF ReserveSteer, sessionVars, providerVars, SamePrompt, SameSteer,
       SameReceipts, SameProvider, Turned
  <2>2. CASE ~Steerable(i)
    <3>1. UNCHANGED queueVars /\ SameRisk
      BY <1>1, <2>1, <2>2 DEF ReserveSteer, SameRisk
    <3>2. HeldItems' = HeldItems
      BY <3>1 DEF queueVars, HeldItems, Flying, Ids
    <3> QED
      BY <2>1, <3>1, <3>2, StutterPromised DEF SameQueue
  <2>3. CASE Steerable(i)
    <3>1. inFlight = NotInFlight /\ i \in Ids(messages) /\ reserveSteerSource(i)
      BY <1>1, <2>3 DEF ReserveSteer, Steerable
    <3>2. HeldItems' = HeldItems
      BY <1>0, <3>1, SteerSourceHeld
    <3> DEFINE m == inFlight'.rid
    <3>3. unsure' = unsure \cup ({m} \cap (Turned \ dispatched))
      BY <1>1, <2>3 DEF ReserveSteer, Turned
    <3>4. m[1] \in HeldItems
      <4>1. m = messages[Position(messages, i)]
        BY <3>1 DEF reserveSteerSource
      <4>2. Position(messages, i) \in 1..Len(messages)
        BY <1>0, <3>1, PositionFacts DEF QueueInv, QueueTypeOK
      <4> QED
        BY <1>0, <4>1, <4>2, HeldMembers
    <3> HIDE DEF m
    <3>5. CASE m \in Turned \ dispatched
      <4>1. m \in Rids /\ unsure' = unsure \cup {m}
        BY <1>0, <3>3, <3>5, RidFacts DEF ProviderTypes, Turned
      <4>2. Delivery!Risk(m)
        BY <2>1, <3>2, <3>4, <3>5, <4>1 DEF Delivery!Risk, SamePrompt, SameSteer,
           SameReceipts, SameProvider, Delivery!asks, Delivery!record, Delivery!provider
      <4> QED
        BY <4>1, <4>2 DEF Promised, Delivery!PromiseNext
    <3>6. CASE m \notin Turned \ dispatched
      <4>1. unsure' = unsure
        BY <3>3, <3>6
      <4> QED
        BY <2>1, <3>2, <4>1, StutterPromised DEF SameQueue, SameRisk
    <3> QED
      BY <3>5, <3>6
  <2> QED
    BY <2>2, <2>3
<1>2. CASE ReserveSteerRecord
  <2>1. HeldItems' = HeldItems
    BY <1>2 DEF ReserveSteerRecord, queueVars, HeldItems, Flying, Ids
  <2>2. SameQueue /\ SameRisk /\ SamePrompt /\ SameReceipts /\ SameProvider
    BY <1>2, <2>1 DEF ReserveSteerRecord, history, providerVars, SameQueue, SameRisk, SamePrompt,
       SameReceipts, SameProvider, Turned
  <2>3. proc["steer"].at = "reserving" /\ pendingSteer'.rid = proc["steer"].own
    BY <1>2 DEF ReserveSteerRecord, At
  <2>4. /\ proc["steer"].own \in Rids /\ proc["steer"].own \notin dispatched
        /\ pendingSteer.rid = NoRid /\ pendingDispatch = NoRid
    BY <1>0, <2>3, RidFacts DEF Kinds, Entitled, Knows, SteerAlone, SteerSection, NoSteer
  <2> QED
    BY <2>2, <2>3, <2>4, ParkPromised
<1>3. CASE DiscardSteer
  <2>1. HeldItems' = HeldItems
    BY <1>3 DEF DiscardSteer, queueVars, HeldItems, Flying, Ids
  <2>2. SameQueue /\ SamePrompt /\ SameSteer /\ SameReceipts /\ SameProvider
    BY <1>3, <2>1 DEF DiscardSteer, sessionVars, providerVars, SameQueue, SamePrompt, SameSteer,
       SameReceipts, SameProvider, Turned
  <2>3. /\ pendingSteer.rid # NoRid /\ unsure' = unsure
        /\ discarded' = discarded \cup {pendingSteer.rid[1]}
    BY <1>0, <1>3, SteerFacts DEF DiscardSteer
  <2>4. Delivery!DropSteer
    BY <2>2, <2>3 DEF Delivery!DropSteer, SameQueue, SamePrompt, SameSteer, SameReceipts,
       SameProvider, Delivery!asks, Delivery!record, Delivery!provider
  <2> QED
    BY <2>4 DEF Promised, Delivery!PromiseNext
<1> QED
  BY <1>1, <1>2, <1>3

(* The steps that leave the queue and the steer alone. *)
LEMMA RestPromised ==
    ASSUME DeliveryInv,
           \/ \E i \in Items : SteerQueued(i)
           \/ \E p \in Steers : SteerPrompt(p)
           \/ \E p \in Prompts : ComposerSend(p)
           \/ RetrySteer \/ RetryParked \/ SettleDispatch \/ SettleSteer
           \/ ClearRefused \/ DiscardParked
           \/ DrainStart \/ DrainWait \/ DrainRefuse \/ DrainProbe
           \/ TurnEnd \/ ProviderRestart \/ Crash \/ UNCHANGED vars
    PROVE  Promised
<1>1. UNCHANGED queueVars
  BY DEF SteerQueued, SteerPrompt, ComposerSend, RetrySteer, RetryParked, SettleDispatch,
     SettleSteer, ClearRefused, DiscardParked, DrainStart, DrainWait, DrainRefuse, DrainProbe,
     TurnEnd, ProviderRestart, Crash, vars
<1>2. HeldItems' = HeldItems
  BY <1>1 DEF queueVars, HeldItems, Flying, Ids
<1>3. SameQueue /\ SameRisk /\ SameSteer /\ SameReceipts
  BY <1>2 DEF SteerQueued, SteerPrompt, ComposerSend, RetrySteer, RetryParked, SettleDispatch,
     SettleSteer, ClearRefused, DiscardParked, DrainStart, DrainWait, DrainRefuse, DrainProbe,
     TurnEnd, ProviderRestart, Crash, vars, sessionVars, history,
     SameQueue, SameRisk, SameSteer, SameReceipts
<1>4. SameProvider
  BY DEF SteerQueued, SteerPrompt, ComposerSend, RetrySteer, RetryParked, SettleDispatch,
     SettleSteer, ClearRefused, DiscardParked, DrainStart, DrainWait, DrainRefuse, DrainProbe,
     TurnEnd, ProviderRestart, Crash, vars, providerVars, SameProvider, Turned,
     DeliveryInv, ProviderTypes
<1>5. pendingDispatch' \in {pendingDispatch, NoRid}
  BY DEF SteerQueued, SteerPrompt, ComposerSend, RetrySteer, RetryParked, SettleDispatch,
     SettleSteer, ClearRefused, DiscardParked, DrainStart, DrainWait, DrainRefuse, DrainProbe,
     TurnEnd, ProviderRestart, Crash, vars, sessionVars
<1> QED
  BY <1>3, <1>4, <1>5, StutterPromised, GiveUpPromised DEF SamePrompt

LEMMA DeliveryPromised ==
    ASSUME DeliveryInv, PromisedInv, [Next]_vars
    PROVE  Promised
<1>1. CASE \E a \in Actors : Flow(a)
  BY <1>1, FlowPromised, KnowledgeNext DEF Next
<1> QED
  BY <1>1, ClientPromised, DrainPromised, ReservePromised, RestPromised DEF Next, Drain

(* What the queue holds was asked for. *)
LEMMA HeldAsked ==
    ASSUME DeliveryInv, PromisedInv, [Next]_vars
    PROVE  HeldItems' \subseteq placed'
<1>1. Promised /\ HeldItems \subseteq placed
  BY DeliveryPromised DEF PromisedInv
<1>2. HeldItems' \ HeldItems \subseteq placed' /\ placed \subseteq placed'
  BY <1>1 DEF Promised, Delivery!PromiseNext, Delivery!promiseVars, Delivery!asks,
     Delivery!Publish, Delivery!Withdraw, Delivery!Consume, Delivery!Park, Delivery!GiveUpPrompt,
     Delivery!GiveUpSteer, Delivery!DropSteer, Delivery!Risk, Delivery!Run, Delivery!Join,
     Delivery!Receipt
<1> QED
  BY <1>1, <1>2

LEMMA PromisedInit == Init => PromisedInv
<1> SUFFICES ASSUME Init PROVE PromisedInv
  OBVIOUS
<1>1. HeldItems = {}
  BY DEF Init, QueueInit, HeldItems, Ids, Flying
<1> QED
  BY <1>1 DEF Init, PromisedInv, NotYet, AllEntitled, Entitled, Idle

LEMMA PromisedNext == DeliveryInv /\ PromisedInv /\ [Next]_vars => PromisedInv'
<1> SUFFICES ASSUME DeliveryInv, PromisedInv, [Next]_vars PROVE PromisedInv'
  OBVIOUS
<1>1. HeldItems' \subseteq placed'
  BY HeldAsked
<1>2. CASE Next
  BY <1>1, <1>2, EntitledNext, NotYetNext DEF PromisedInv
<1>3. CASE UNCHANGED vars
  <2>1. NotYet' /\ AllEntitled'
    BY <1>3 DEF vars, sessionVars, history, PromisedInv, NotYet, AllEntitled, Entitled
  <2> QED
    BY <1>1, <2>1 DEF PromisedInv
<1> QED
  BY <1>2, <1>3

(* KeepsDelivery: the queue, the session's record and the four flows        *)
(* implement DeliveryPromise, for any items, prompts and steers, either     *)
(* kind of provider and any number of lost answers, crashes and restarts.   *)
THEOREM DeliveryKeepsPromise == Spec => KeepsDelivery
<1>1. Init => Delivery!PromiseInit
  <2> SUFFICES ASSUME Init PROVE Delivery!PromiseInit
    OBVIOUS
  <2>1. HeldItems = {} /\ Turned = {} /\ pendingSteer.rid = NoRid
    BY DEF Init, QueueInit, HeldItems, Ids, Flying, Turned, NoSteer
  <2> QED
    BY <2>1 DEF Init, Delivery!PromiseInit
<1>2. DeliveryInv /\ PromisedInv /\ [Next]_vars => [Delivery!PromiseNext]_(Delivery!promiseVars)
  BY DeliveryPromised DEF Promised
<1> QED
  BY <1>1, <1>2, DeliveryInit, DeliveryNext, PromisedInit, PromisedNext, PTL
     DEF Spec, KeepsDelivery, Delivery!PromiseSpec
=============================================================================
