---------------------------- MODULE PromptQueue ----------------------------
(***************************************************************************)
(* The durable prompt queue of one native session                          *)
(* (apps/backend/src/core/storage-prompts.ts, storage-prompt-queue-store.ts*)
(* and the queue half of storage-native-deliveries.ts).                    *)
(*                                                                         *)
(* Every mutation is one transaction under the queue lock, so each is one  *)
(* operator here, to be used as a conjunct of an action.                   *)
(*                                                                         *)
(* A message is its request id <<item, n>>: the item is the stable row id, *)
(* n counts the identities minted for it.  An item is enqueued under       *)
(* <<item, 0>>, the case of a requestId equal to the row id.               *)
(***************************************************************************)
EXTENDS Naturals, Sequences, FiniteSets

Seqs == INSTANCE SequencesExt

CONSTANTS
    Items,     \* row ids of queued prompts
    Api,       \* the items the public API enqueues: replayed, no origin
    Origin,    \* the items a backend feature authors: replayed, with an origin
    Answers,   \* asynchronous-question answers
    Prompts,   \* composer prompts: sent directly, never queued
    Steers,    \* steering texts typed into the composer, never queued
    MaxMint,   \* bound: identities minted for one item
    NoRid, NoItem

ASSUME ItemAssumption ==
    /\ Api \subseteq Items /\ Origin \subseteq Items /\ Answers \subseteq Items
    /\ Api \cap Origin = {} /\ Answers \cap (Api \cup Origin) = {}
    /\ Prompts \cap Items = {} /\ Steers \cap (Items \cup Prompts) = {}
    /\ MaxMint \in Nat
    /\ NoItem \notin Items
    /\ NoRid \notin (Items \cup Prompts \cup Steers) \X (0..MaxMint)

VARIABLES
    messages,        \* the waiting messages, head first
    inFlight,        \* the reserved message, and whether a steer reserved it
    dispatchError,   \* the message whose failure is latched, or NoRid
    removedOrigins,  \* tombstones of removed items that have an origin
    minted           \* identities minted so far, per item

queueVars == <<messages, inFlight, dispatchError, removedOrigins, minted>>

Rids == (Items \cup Prompts \cup Steers) \X (0..MaxMint)

Messages == Items \X (0..MaxMint)

Ids(ms) == {ms[i][1] : i \in 1..Len(ms)}

NotInFlight == [rid |-> NoRid, steer |-> FALSE, after |-> NoItem]

InFlights == {NotInFlight}
             \cup [rid : Messages, steer : BOOLEAN, after : Items \cup {NoItem}]

Flying(i) == inFlight # NotInFlight /\ inFlight.rid[1] = i

Held(i) == i \in Ids(messages) \/ Flying(i)

Position(ms, i) == CHOOSE k \in 1..Len(ms) : ms[k][1] = i

Without(ms, i) == Seqs!RemoveAt(ms, Position(ms, i))

QueueInit ==
    /\ messages = <<>>
    /\ inFlight = NotInFlight
    /\ dispatchError = NoRid
    /\ removedOrigins = {}
    /\ minted = [i \in Items |-> 0]

(* The latched error survives a save of the list only while the failed    *)
(* message is still in it unchanged; items with an origin that leave the  *)
(* list are tombstoned.                                                    *)
nextPromptQueue(ms) ==
    /\ messages' = ms
    /\ dispatchError' = IF \E k \in 1..Len(ms) : ms[k] = dispatchError
                        THEN dispatchError ELSE NoRid
    /\ removedOrigins' = removedOrigins \cup
          {i \in Ids(messages) \cap Origin : i \notin Ids(ms) /\ ~Flying(i)}
    /\ UNCHANGED <<inFlight, minted>>

(* Mutant of enqueuePromptQueueMessage: only the waiting list is searched. *)
enqueueBesideFlight(i) ==
    /\ i \notin Ids(messages)
    /\ nextPromptQueue(Append(messages, <<i, 0>>))

enqueuePromptQueueMessage(i) ==
    /\ ~Held(i)
    /\ nextPromptQueue(Append(messages, <<i, 0>>))

removePromptQueueMessage(i) ==
    /\ i \in Ids(messages)
    /\ nextPromptQueue(Without(messages, i))

movePromptQueueMessage(k) ==
    /\ k \in 1..(Len(messages) - 1)
    /\ nextPromptQueue([messages EXCEPT ![k] = messages[k + 1],
                                        ![k + 1] = messages[k]])

(* The reservation handed to the drain.  One that already exists is handed *)
(* out again, whoever made it.                                             *)
Reservation ==
    IF dispatchError # NoRid THEN NoRid
    ELSE IF inFlight # NotInFlight THEN inFlight.rid
    ELSE IF messages # <<>> THEN Head(messages) ELSE NoRid

reservePromptQueueHeadForDispatch ==
    IF dispatchError = NoRid /\ inFlight = NotInFlight /\ messages # <<>>
    THEN /\ inFlight' = [rid |-> Head(messages), steer |-> FALSE, after |-> NoItem]
         /\ messages' = Tail(messages)
         /\ UNCHANGED <<dispatchError, removedOrigins, minted>>
    ELSE UNCHANGED queueVars

acknowledgePromptQueueDispatch(r) ==
    /\ inFlight' = IF inFlight.rid = r THEN NotInFlight ELSE inFlight
    /\ UNCHANGED <<messages, dispatchError, removedOrigins, minted>>

(* A retired identity is replaced by a fresh one; the row id stays. *)
failPromptQueueDispatch(r, retired) ==
    IF inFlight.rid # r THEN UNCHANGED queueVars
    ELSE LET i == r[1]
             failed == IF retired THEN <<i, minted[i] + 1>> ELSE r
         IN  /\ retired => minted[i] < MaxMint
             /\ messages' = <<failed>> \o messages
             /\ inFlight' = NotInFlight
             /\ dispatchError' = failed
             /\ minted' = [minted EXCEPT ![i] = IF retired THEN @ + 1 ELSE @]
             /\ UNCHANGED removedOrigins

retryPromptQueueDispatch ==
    /\ dispatchError # NoRid
    /\ dispatchError' = NoRid
    /\ UNCHANGED <<messages, inFlight, removedOrigins, minted>>

(* The queue half of reservePromptQueueSteer, and where the item was. *)
reserveSteerSource(i) ==
    LET k == Position(messages, i)
    IN  /\ messages' = Without(messages, i)
        /\ inFlight' = [rid |-> messages[k], steer |-> TRUE,
                        after |-> IF k = 1 THEN NoItem ELSE messages[k - 1][1]]
        /\ UNCHANGED <<dispatchError, removedOrigins, minted>>

(* Every copy of an item leaves the list; one without the item stays. *)
Others(ms, i) == IF i \in Ids(ms) THEN SelectSeq(ms, LAMBDA m : m[1] # i) ELSE ms

(* Back behind the item that was ahead of it, or to the head. *)
restoreSteeredQueueItem(fly, ms) ==
    LET others == Others(ms, fly.rid[1])
        k == IF fly.after \in Ids(others) THEN Position(others, fly.after) ELSE 0
    IN  Seqs!InsertAt(others, k + 1, fly.rid)

settlePromptQueueSteerSource(r, how) ==
    IF inFlight.steer /\ inFlight.rid = r
    THEN /\ inFlight' = NotInFlight
         /\ messages' = IF how = "restore"
                        THEN restoreSteeredQueueItem(inFlight, messages)
                        ELSE messages
         /\ UNCHANGED <<dispatchError, removedOrigins, minted>>
    ELSE UNCHANGED queueVars

QueueTypeOK ==
    /\ messages \in Seq(Messages)
    /\ inFlight \in InFlights
    /\ dispatchError \in Messages \cup {NoRid}
    /\ removedOrigins \subseteq Origin
    /\ minted \in [Items -> 0..MaxMint]
=============================================================================
