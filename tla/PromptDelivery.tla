--------------------------- MODULE PromptDelivery ---------------------------
(***************************************************************************)
(* Delivery of prompts to one native agent session                         *)
(* (apps/backend/src/core/storage-native-deliveries.ts,                    *)
(* native-agent-prompt-queue-dispatcher.ts and the dispatch and steer      *)
(* paths of native-agent-service.ts).                                      *)
(*                                                                         *)
(* Four flows of the backend interleave at their awaits: the drain of the  *)
(* queue, a composer call, a steer of a queued item, and the settlement of *)
(* what is parked.  proc[a] is where flow a is.  A flow that writes the    *)
(* session record holds its lease from its read to its last write; `lease' *)
(* names the holder while it spans several steps.  Each durable write and  *)
(* each provider call is a step of its own, so Crash falls between them:   *)
(* it loses the flows, the lease and the attempt counter, and keeps the    *)
(* session record, the queue and the provider.                             *)
(***************************************************************************)
EXTENDS PromptQueue

CONSTANTS
    MaxAttempts,    \* MAX_QUEUE_DISPATCH_ATTEMPTS
    SharedJournal,  \* the provider's steers look at its prompt journal (Codex)
    MaxCrashes,     \* bound: backend restarts
    MaxRestarts,    \* bound: provider restarts
    MaxCalls        \* bound: calls of clients

ASSUME DeliveryAssumption ==
    /\ MaxAttempts \in Nat \ {0}
    /\ SharedJournal \in BOOLEAN
    /\ Answers # {} => SharedJournal   \* only Codex asks such questions
    /\ MaxCrashes \in Nat /\ MaxRestarts \in Nat /\ MaxCalls \in Nat

VARIABLES
    pendingDispatch,  \* session.pendingDispatch: the parked composer prompt
    pendingSteer,     \* session.pendingSteer
    dispatched,       \* session.dispatchedRequestIds
    lease,            \* the flow inside the session's critical section
    proc,             \* the state of each flow
    attempts,         \* queueAttempts
    accepted,         \* provider: ids its prompt journal holds
    lost,             \* provider: ids it restored without their outcome
    steered,          \* provider: ids its steer journal holds as delivered
    turn,             \* provider: "idle", "running" or "error"
    open,             \* provider: the accepted ids of the running turn
    removed,          \* history: items a user took out of the queue
    discarded,        \* history: items whose unsettled steer a user dropped
    placed,           \* history: items that were ever queued
    unsure,           \* history: ids steered while their dispatch was unsettled
    crashes, restarts, calls

sessionVars == <<pendingDispatch, pendingSteer, dispatched>>
providerVars == <<accepted, lost, steered, turn, open>>
history == <<removed, discarded, placed, unsure>>
counters == <<crashes, restarts, calls>>
vars == <<queueVars, sessionVars, lease, proc, attempts, providerVars, history,
          counters>>

Actors == {"drain", "composer", "steer", "settle"}

Settlements == {"none", "applied", "restore", "discard"}

NoSteer == [rid |-> NoRid, source |-> FALSE, settle |-> "none"]

(* own: the request a flow delivers.  rid: the one it settles.  retry:     *)
(* allowRecoveryRetry.  keep: preserveExistingPending.                     *)
Idle == [at |-> "idle", own |-> NoRid, rid |-> NoRid, how |-> "none",
         ok |-> FALSE, retry |-> FALSE, keep |-> FALSE]

Locations == {"idle", "ready", "reserve", "answer", "dispatch", "sending",
              "record", "ack", "fail", "retired", "defer", "unheld", "status",
              "confirm", "retire", "clear", "clearRetired", "probed",
              "reserving", "steer", "steering", "recover", "reconcile",
              "intent", "source", "finish"}

Free == lease = "free"

(* The queue lock: only a steer reservation keeps it over two writes. *)
QueueFree == proc["steer"].at # "reserving"

At(a, loc) == proc[a].at = loc

Goto(a, loc) == proc' = [proc EXCEPT ![a].at = loc]

Stop(a) == proc' = [proc EXCEPT ![a] = Idle]

(* A call of a client. *)
Client == calls < MaxCalls /\ calls' = calls + 1 /\ UNCHANGED <<crashes, restarts>>

(* A steer that a queue item is the source of. *)
FromQueue(r) == r[1] \in Items \ Answers

Init ==
    /\ QueueInit
    /\ pendingDispatch = NoRid /\ pendingSteer = NoSteer /\ dispatched = {}
    /\ lease = "free" /\ proc = [a \in Actors |-> Idle] /\ attempts = 0
    /\ accepted = {} /\ lost = {} /\ steered = {} /\ turn = "idle" /\ open = {}
    /\ removed = {} /\ discarded = {} /\ placed = {} /\ unsure = {}
    /\ crashes = 0 /\ restarts = 0 /\ calls = 0

-----------------------------------------------------------------------------
(* Queue mutations of clients and backend features. *)

Enqueue(i) ==
    /\ Client
    /\ QueueFree
    /\ i \notin Api \cup Origin \cup removed
    /\ minted[i] < MaxMint
    /\ enqueuePromptQueueMessage(i)
    /\ placed' = placed \cup {i}
    /\ UNCHANGED <<sessionVars, lease, proc, attempts, providerVars, removed,
                   discarded, unsure>>

Consumed(i) == \/ i \in removedOrigins
               \/ <<i, 0>> \in dispatched
               \/ pendingDispatch = <<i, 0>>

enqueuePromptQueueMessageIfAbsent(i) ==
    /\ Client
    /\ QueueFree
    /\ i \in Api \cup Origin
    /\ minted[i] < MaxMint
    /\ ~(dispatchError # NoRid /\ dispatchError[1] = i)   \* a conflict
    /\ ~Consumed(i)
    /\ enqueuePromptQueueMessage(i)
    /\ placed' = placed \cup {i}
    /\ removed' = removed \ {i}
    /\ UNCHANGED <<sessionVars, lease, proc, attempts, providerVars, discarded,
                   unsure>>

Remove(i) ==
    /\ Client
    /\ QueueFree
    /\ removePromptQueueMessage(i)
    /\ removed' = removed \cup {i}
    /\ UNCHANGED <<sessionVars, lease, proc, attempts, providerVars, discarded,
                   placed, unsure>>

Move(k) ==
    /\ Client
    /\ QueueFree
    /\ movePromptQueueMessage(k)
    /\ UNCHANGED <<sessionVars, lease, proc, attempts, providerVars, history>>

Retry ==
    /\ Client
    /\ QueueFree
    /\ retryPromptQueueDispatch
    /\ UNCHANGED <<sessionVars, lease, proc, attempts, providerVars, history>>

-----------------------------------------------------------------------------
(* completePendingSteer: a durable intent, then the queue, then the record. *)

Complete(a, how, ok) ==
    /\ lease' = a
    /\ proc' = [proc EXCEPT
          ![a].at = IF pendingSteer.source THEN "intent" ELSE "finish",
          ![a].rid = pendingSteer.rid, ![a].how = how, ![a].ok = ok]

(* What a flow does once a settlement is over. *)
Resume(a, ok) ==
    IF a = "composer" /\ ok /\ proc[a].retry
    THEN [proc[a] EXCEPT !.at = "dispatch", !.retry = FALSE]
    ELSE Idle

Intent(a) ==
    /\ At(a, "intent")
    /\ pendingSteer' = [pendingSteer EXCEPT !.settle = proc[a].how]
    /\ Goto(a, "source")
    /\ UNCHANGED <<queueVars, pendingDispatch, dispatched, lease, attempts,
                   providerVars, history, counters>>

Source(a) ==
    /\ At(a, "source") /\ QueueFree
    /\ settlePromptQueueSteerSource(proc[a].rid, proc[a].how)
    /\ Goto(a, "finish")
    /\ UNCHANGED <<sessionVars, lease, attempts, providerVars, history, counters>>

(* Mutant of Finish: an applied steer leaves no receipt. *)
FinishWithoutReceipt(a) ==
    /\ At(a, "finish")
    /\ pendingSteer' = NoSteer
    /\ lease' = "free"
    /\ proc' = [proc EXCEPT ![a] = Resume(a, proc[a].ok)]
    /\ UNCHANGED <<queueVars, pendingDispatch, dispatched, attempts, providerVars,
                   history, counters>>

Finish(a) ==
    /\ At(a, "finish")
    /\ pendingSteer' = NoSteer
    /\ dispatched' = IF proc[a].how = "applied" THEN dispatched \cup {proc[a].rid}
                     ELSE dispatched
    /\ lease' = "free"
    /\ proc' = [proc EXCEPT ![a] =
          IF proc[a].how = "applied" /\ proc[a].rid[1] \in Answers
          THEN [@ EXCEPT !.at = "ack"] ELSE Resume(a, proc[a].ok)]
    /\ UNCHANGED <<queueVars, pendingDispatch, attempts, providerVars, history,
                   counters>>

(* acknowledgePromptQueueDispatch by the drain, or for a settled answer. *)
Acknowledge(a) ==
    /\ At(a, "ack") /\ QueueFree
    /\ acknowledgePromptQueueDispatch(IF a = "drain" THEN proc[a].own ELSE proc[a].rid)
    /\ attempts' = IF a = "drain" THEN 0 ELSE attempts
    /\ proc' = [proc EXCEPT ![a] = Resume(a, proc[a].ok)]
    /\ UNCHANGED <<sessionVars, lease, providerVars, history, counters>>

-----------------------------------------------------------------------------
(* settleAmbiguousSteer: recoverPromptQueueSteer, then the provider's word. *)

(* The receipt of steer r is on the record. *)
Parked(r) == pendingSteer # NoSteer /\ pendingSteer.rid = r

(* Mutant of Recover: an interrupted transfer always counts as unsent. *)
RecoverAlwaysRestores(a) ==
    /\ At(a, "recover") /\ Free /\ QueueFree
    /\ settlePromptQueueSteerSource(proc[a].rid, "restore")
    /\ proc' = [proc EXCEPT ![a] = Resume(a, FALSE)]
    /\ UNCHANGED <<sessionVars, lease, attempts, providerVars, history, counters>>

Recover(a) ==
    /\ At(a, "recover") /\ Free /\ QueueFree
    /\ LET r == proc[a].rid IN
       \/ /\ Parked(r) /\ pendingSteer.settle = "none"
          /\ IF proc[a].own = NoRid /\ a = "steer" THEN Stop(a)
             ELSE Goto(a, "reconcile")
          /\ UNCHANGED <<queueVars, lease>>
       \/ /\ Parked(r) /\ pendingSteer.settle # "none"
          /\ Complete(a, pendingSteer.settle, pendingSteer.settle = "applied")
          /\ UNCHANGED queueVars
       \/ /\ ~Parked(r)
          /\ settlePromptQueueSteerSource(r, IF r \in dispatched THEN "applied"
                                             ELSE "restore")
          /\ proc' = [proc EXCEPT ![a] = Resume(a, r \in dispatched)]
          /\ UNCHANGED lease
    /\ UNCHANGED <<sessionVars, attempts, providerVars, history, counters>>

(* The ids a steer finds delivered: all that ran, when it can see them. *)
SteerJournal == IF SharedJournal THEN steered \cup accepted \cup lost ELSE steered

(* The steer journal answers with the truth, or that it does not know. *)
SteerStatus(r) == {"unknown", IF r \in SteerJournal THEN "dispatched" ELSE "absent"}

(* A steer flow here is a user's retry: it sends the parked record again   *)
(* when the provider cannot tell.                                          *)
Reconcile(a) ==
    /\ At(a, "reconcile") /\ Free
    /\ LET r == proc[a].rid IN
       \/ /\ ~Parked(r)
          /\ Stop(a) /\ UNCHANGED lease
       \/ /\ Parked(r) /\ pendingSteer.settle # "none"
          /\ Complete(a, pendingSteer.settle, TRUE)
       \/ /\ Parked(r) /\ pendingSteer.settle = "none"
          /\ \E s \in SteerStatus(r) :
                \/ s = "dispatched" /\ Complete(a, "applied", TRUE)
                \/ s = "absent" /\ Complete(a, "restore", TRUE)
                \/ /\ s = "unknown"
                   /\ IF a = "steer" THEN Goto(a, "steer") ELSE Stop(a)
                   /\ UNCHANGED lease
    /\ UNCHANGED <<queueVars, sessionVars, attempts, providerVars, history,
                   counters>>

(* The background settlement a projection read schedules, and the user's   *)
(* discard of an unsettled steer.                                          *)
SettleSteer ==
    /\ At("settle", "idle") /\ pendingSteer # NoSteer
    /\ proc' = [proc EXCEPT !["settle"].at = "recover",
                            !["settle"].rid = pendingSteer.rid]
    /\ UNCHANGED <<queueVars, sessionVars, lease, attempts, providerVars, history,
                   counters>>

DiscardSteer ==
    /\ Client
    /\ At("settle", "idle") /\ Free /\ pendingSteer # NoSteer
    /\ Complete("settle", "discard", FALSE)
    /\ discarded' = discarded \cup {pendingSteer.rid[1]}
    /\ UNCHANGED <<queueVars, sessionVars, attempts, providerVars, removed, placed,
                   unsure>>

-----------------------------------------------------------------------------
(* Steering: steerQueuedPrompt, and dispatchNativeAgentSteerOnce. *)

(* A reservation that is still unsettled is recovered first, without asking *)
(* the provider; the call's second look at the queue is a call of its own.   *)
SteerQueued(i) ==
    /\ Client
    /\ At("steer", "idle") /\ turn = "running" /\ Held(i)
    /\ proc' = [proc EXCEPT !["steer"] =
          IF inFlight.steer THEN [@ EXCEPT !.at = "recover", !.rid = inFlight.rid]
          ELSE [@ EXCEPT !.at = "probed", !.own = <<i, 0>>]]
    /\ UNCHANGED <<queueVars, sessionVars, lease, attempts, providerVars, history>>

RetrySteer ==
    /\ Client
    /\ At("steer", "idle") /\ pendingSteer # NoSteer
    /\ proc' = [proc EXCEPT !["steer"].at = "recover", !["steer"].rid = pendingSteer.rid,
                            !["steer"].own = pendingSteer.rid]
    /\ UNCHANGED <<queueVars, sessionVars, lease, attempts, providerVars, history>>

Steerable(i) ==
    /\ pendingDispatch = NoRid /\ pendingSteer = NoSteer
    /\ inFlight = NotInFlight
    /\ i \in Ids(messages) /\ i \notin Origin \cup Answers
    /\ messages[Position(messages, i)] \notin dispatched

(* The queue write of reservePromptQueueSteer, then its session write. *)
ReserveSteer ==
    /\ At("steer", "probed") /\ Free
    /\ LET i == proc["steer"].own[1] IN
       \/ /\ Steerable(i)
          /\ reserveSteerSource(i)
          /\ lease' = "steer"
          /\ proc' = [proc EXCEPT !["steer"].at = "reserving",
                                  !["steer"].own = inFlight'.rid]
          /\ unsure' = unsure \cup ({inFlight'.rid} \cap ((accepted \cup lost) \ dispatched))
       \/ /\ ~Steerable(i)
          /\ Stop("steer") /\ UNCHANGED <<queueVars, lease, unsure>>
    /\ UNCHANGED <<sessionVars, attempts, providerVars, removed, discarded, placed,
                   counters>>

ReserveSteerRecord ==
    /\ At("steer", "reserving")
    /\ pendingSteer' = [rid |-> proc["steer"].own, source |-> TRUE, settle |-> "none"]
    /\ lease' = "free"
    /\ Goto("steer", "steer")
    /\ UNCHANGED <<queueVars, pendingDispatch, dispatched, attempts, providerVars,
                   history, counters>>

(* A steer typed into the composer has no queue item behind it, and its    *)
(* identity is new.                                                        *)
SteerPrompt(p) ==
    /\ Client
    /\ At("composer", "idle") /\ turn = "running"
    /\ <<p, 0>> \notin dispatched \cup steered \cup {pendingSteer.rid}
    /\ proc' = [proc EXCEPT !["composer"].at = "steer", !["composer"].own = <<p, 0>>]
    /\ UNCHANGED <<queueVars, sessionVars, lease, attempts, providerVars, history>>

SteerSendable(r) ==
    /\ pendingDispatch = NoRid
    /\ ~(r \in dispatched /\ pendingSteer = NoSteer)
    /\ FromQueue(r) => pendingSteer.rid = r
    /\ pendingSteer = NoSteer \/ pendingSteer.rid = r
    /\ pendingSteer.settle = "none"

(* A request already delivered is an applied steer; every other refusal ends *)
(* the flow without touching the record.                                     *)
SteerOnce(a) ==
    /\ At(a, "steer") /\ Free
    /\ LET r == proc[a].own IN
       \/ /\ SteerSendable(r)
          /\ pendingSteer' = IF pendingSteer = NoSteer
                             THEN [rid |-> r, source |-> FALSE, settle |-> "none"]
                             ELSE pendingSteer
          /\ lease' = a /\ Goto(a, "steering")
       \/ /\ ~SteerSendable(r)
          /\ IF a = "drain" /\ r \in dispatched /\ pendingSteer = NoSteer
                /\ pendingDispatch = NoRid
             THEN Goto(a, "ack") ELSE Stop(a)
          /\ UNCHANGED <<pendingSteer, lease>>
    /\ UNCHANGED <<queueVars, pendingDispatch, dispatched, attempts, providerVars,
                   history, counters>>

(* provider.performSessionAction: a delivered id is never delivered again.  *)
SteerSend(a) ==
    /\ At(a, "steering")
    /\ LET r == proc[a].own
           delivery == IF r \notin SteerJournal /\ turn = "running"
                       THEN steered \cup {r} ELSE steered
       IN
       \/ /\ r \in SteerJournal \/ turn = "running"
          /\ steered' = delivery
          /\ Complete(a, "applied", FALSE)
       \/ /\ r \notin steered
          /\ Complete(a, "restore", FALSE) /\ UNCHANGED steered
       \/ /\ steered' \in {steered, delivery}
          /\ lease' = "free" /\ Stop(a)
    /\ UNCHANGED <<queueVars, sessionVars, attempts, accepted, lost, turn, open,
                   history, counters>>

-----------------------------------------------------------------------------
(* dispatchNativeAgentPromptOnce, for the composer and for the drain. *)

ComposerSend(p) ==
    /\ Client
    /\ At("composer", "idle")
    /\ proc' = [proc EXCEPT !["composer"].at = "dispatch",
                            !["composer"].own = <<p, 0>>, !["composer"].retry = TRUE]
    /\ UNCHANGED <<queueVars, sessionVars, lease, attempts, providerVars, history>>

RetryParked ==
    /\ Client
    /\ At("composer", "idle") /\ pendingDispatch # NoRid
    /\ proc' = [proc EXCEPT !["composer"].at = "dispatch",
                            !["composer"].own = pendingDispatch,
                            !["composer"].retry = TRUE, !["composer"].keep = TRUE]
    /\ UNCHANGED <<queueVars, sessionVars, lease, attempts, providerVars, history>>

(* The drain backs off when something else is parked; the composer settles *)
(* it against the provider, once, and tries again.                         *)
Conflict(a, rid, loc) ==
    proc' = [proc EXCEPT ![a] =
        IF a = "drain" THEN [@ EXCEPT !.at = "defer"]
        ELSE IF proc[a].retry THEN [@ EXCEPT !.at = loc, !.rid = rid]
        ELSE Idle]

(* Mutant of Dispatch: a parked steer is not looked at. *)
DispatchBesideSteer(a) ==
    /\ At(a, "dispatch") /\ Free
    /\ pendingDispatch \in {NoRid, proc[a].own}
    /\ proc[a].own \notin dispatched
    /\ lease' = a /\ Goto(a, "sending")
    /\ pendingDispatch' = IF a = "composer" THEN proc[a].own ELSE pendingDispatch
    /\ UNCHANGED <<queueVars, pendingSteer, dispatched, attempts, providerVars,
                   history, counters>>

(* Mutant of Dispatch: the composer's prompt is sent before it is parked.  *)
DispatchUnparked(a) ==
    /\ At(a, "dispatch") /\ Free
    /\ pendingSteer = NoSteer /\ pendingDispatch \in {NoRid, proc[a].own}
    /\ proc[a].own \notin dispatched
    /\ lease' = a /\ Goto(a, "sending")
    /\ UNCHANGED <<queueVars, sessionVars, attempts, providerVars, history, counters>>

(* Only the composer's prompt is parked before it is sent: a queued one is *)
(* kept by its reservation.                                                *)
Dispatch(a) ==
    /\ At(a, "dispatch") /\ Free
    /\ LET r == proc[a].own IN
       \/ /\ pendingSteer # NoSteer
          /\ Conflict(a, pendingSteer.rid, "recover")
          /\ UNCHANGED <<lease, pendingDispatch>>
       \/ /\ pendingSteer = NoSteer /\ pendingDispatch \notin {NoRid, r}
          /\ Conflict(a, pendingDispatch, "status")
          /\ UNCHANGED <<lease, pendingDispatch>>
       \/ /\ pendingSteer = NoSteer /\ pendingDispatch \in {NoRid, r}
          /\ r \in dispatched
          /\ pendingDispatch' = NoRid
          /\ IF a = "drain" THEN Goto(a, "ack") ELSE Stop(a)
          /\ UNCHANGED lease
       \/ /\ pendingSteer = NoSteer /\ pendingDispatch \in {NoRid, r}
          /\ r \notin dispatched
          /\ pendingDispatch' = IF a = "composer" THEN r ELSE pendingDispatch
          /\ lease' = a /\ Goto(a, "sending")
    /\ UNCHANGED <<queueVars, pendingSteer, dispatched, attempts, providerVars,
                   history, counters>>

(* The provider starts a turn for an id it does not know, acknowledges one *)
(* it holds, and refuses for good one it restored without its outcome.     *)
Accept(r) ==
    /\ accepted' = accepted \cup {r}
    /\ open' = IF r \in accepted THEN open ELSE open \cup {r}
    /\ turn' = IF r \in accepted THEN turn ELSE "running"
    /\ UNCHANGED <<lost, steered>>

(* provider.send: accepted; thrown with an unknown outcome; refused, or for *)
(* the composer not reached; refused because the id is retired.             *)
Send(a) ==
    /\ At(a, "sending")
    /\ LET r == proc[a].own IN
       \/ /\ r \notin lost /\ Accept(r)
          /\ Goto(a, "record") /\ UNCHANGED lease
       \/ /\ UNCHANGED providerVars \/ (r \notin lost /\ Accept(r))
          /\ IF a = "drain" THEN Goto(a, "defer")
             ELSE proc' = [proc EXCEPT ![a].at = "status", ![a].rid = r]
          /\ lease' = "free"
       \/ /\ r \notin accepted \cup lost \/ a = "composer"
          /\ Goto(a, IF a = "drain" THEN "fail" ELSE "clear")
          /\ lease' = "free" /\ UNCHANGED providerVars
       \/ /\ r \in lost /\ UNCHANGED providerVars
          /\ Goto(a, IF a = "drain" THEN "retired" ELSE "clearRetired")
          /\ lease' = "free"
    /\ UNCHANGED <<queueVars, sessionVars, attempts, history, counters>>

Record(a) ==
    /\ At(a, "record")
    /\ dispatched' = dispatched \cup {proc[a].own}
    /\ pendingDispatch' = NoRid
    /\ lease' = "free"
    /\ IF a = "drain" THEN Goto(a, "ack") ELSE Stop(a)
    /\ UNCHANGED <<queueVars, pendingSteer, attempts, providerVars, history,
                   counters>>

(* clearPendingNativeAgentDispatch after a refusal.  A recovery retry keeps *)
(* what was parked unless the provider retired the id.                      *)
ClearRefused ==
    /\ At("composer", "clear") \/ At("composer", "clearRetired")
    /\ Free
    /\ pendingDispatch' =
          IF /\ pendingDispatch = proc["composer"].own
             /\ At("composer", "clearRetired") \/ ~proc["composer"].keep
          THEN NoRid ELSE pendingDispatch
    /\ Stop("composer")
    /\ UNCHANGED <<queueVars, pendingSteer, dispatched, lease, attempts,
                   providerVars, history, counters>>

DiscardParked ==
    /\ Client
    /\ Free /\ pendingDispatch # NoRid
    /\ pendingDispatch' = NoRid
    /\ UNCHANGED <<queueVars, pendingSteer, dispatched, lease, proc, attempts,
                   providerVars, history>>

(* settleAmbiguousDispatch: the provider is asked without the lease. *)
SettleDispatch ==
    /\ At("settle", "idle") /\ pendingDispatch # NoRid
    /\ proc' = [proc EXCEPT !["settle"].at = "status",
                            !["settle"].rid = pendingDispatch]
    /\ UNCHANGED <<queueVars, sessionVars, lease, attempts, providerVars, history,
                   counters>>

Status(a) ==
    /\ At(a, "status")
    /\ LET r == proc[a].rid IN
       \/ Stop(a)
       \/ pendingDispatch = r /\ r \in accepted /\ Goto(a, "confirm")
       \/ pendingDispatch = r /\ r \in lost /\ Goto(a, "retire")
    /\ UNCHANGED <<queueVars, sessionVars, lease, attempts, providerVars, history,
                   counters>>

(* confirmNativeAgentDispatch and retireNativeAgentDispatch. *)
Verdict(a) ==
    /\ At(a, "confirm") \/ At(a, "retire")
    /\ Free
    /\ LET r == proc[a].rid
           settled == pendingDispatch = r
       IN  /\ pendingDispatch' = IF settled THEN NoRid ELSE pendingDispatch
           /\ dispatched' = IF settled /\ At(a, "confirm") THEN dispatched \cup {r}
                            ELSE dispatched
           /\ proc' = [proc EXCEPT ![a] = Resume(a, settled /\ r # proc[a].own)]
    /\ UNCHANGED <<queueVars, pendingSteer, lease, attempts, providerVars, history,
                   counters>>

-----------------------------------------------------------------------------
(* drainReadyPromptQueue: one pass at a time for a queue. *)

DrainStart ==
    /\ At("drain", "idle")
    /\ \/ /\ inFlight.steer
          /\ proc' = [proc EXCEPT !["drain"].at = "recover",
                                  !["drain"].rid = inFlight.rid]
       \/ /\ ~inFlight.steer /\ dispatchError = NoRid
          /\ inFlight # NotInFlight \/ messages # <<>>
          /\ proc' = [proc EXCEPT !["drain"].at = "ready",
                !["drain"].own = Reservation,
                !["drain"].keep = inFlight # NotInFlight]
    /\ UNCHANGED <<queueVars, sessionVars, lease, attempts, providerVars, history,
                   counters>>

(* The pass ends without a reservation: a draft holds the queue, the turn   *)
(* runs or is blocked.  An environment that is not ready backs the queue    *)
(* off.                                                                     *)
DrainWait ==
    /\ At("drain", "ready") /\ Stop("drain")
    /\ attempts' \in {attempts} \cup (IF attempts < MaxAttempts THEN {attempts + 1} ELSE {})
    /\ UNCHANGED <<queueVars, sessionVars, lease, providerVars, history, counters>>

(* The provider's own status decides; keep tells whether the pass saw a    *)
(* reservation.                                                            *)
DrainProbe ==
    /\ At("drain", "ready")
    /\ \/ turn = "idle" /\ Goto("drain", "reserve")
       \/ turn = "running" /\ proc["drain"].own[1] \in Answers /\ Goto("drain", "answer")
       \/ turn = "error" /\ Goto("drain", IF proc["drain"].keep THEN "defer" ELSE "unheld")
    /\ UNCHANGED <<queueVars, sessionVars, lease, attempts, providerVars, history,
                   counters>>

DrainReserve ==
    /\ At("drain", "reserve") \/ At("drain", "answer")
    /\ QueueFree
    /\ reservePromptQueueHeadForDispatch
    /\ LET r == Reservation
           answered == At("drain", "answer")
       IN proc' = [proc EXCEPT !["drain"] =
            IF r = NoRid \/ (answered /\ r[1] \notin Answers) THEN Idle
            ELSE [@ EXCEPT !.own = r,
                    !.at = IF ~answered THEN "dispatch"
                           ELSE IF r \in dispatched THEN "ack" ELSE "steer"]]
    /\ UNCHANGED <<sessionVars, lease, attempts, providerVars, history, counters>>

(* A reserved message the drain itself refuses: its attachments, its goal   *)
(* identity or the mode it requires are not what they must be; or an answer *)
(* whose turn ended.                                                        *)
DrainRefuse ==
    /\ \/ /\ At("drain", "dispatch") /\ proc["drain"].own[1] \in Origin
          /\ Goto("drain", "fail")
       \/ At("drain", "steer") /\ Stop("drain")
    /\ UNCHANGED <<queueVars, sessionVars, lease, attempts, providerVars, history,
                   counters>>

(* Mutant of DrainFail: the failed message is not put back. *)
DrainFailDrops ==
    /\ At("drain", "fail") \/ At("drain", "retired")
    /\ QueueFree
    /\ acknowledgePromptQueueDispatch(proc["drain"].own)
    /\ attempts' = 0 /\ Stop("drain")
    /\ UNCHANGED <<sessionVars, lease, providerVars, history, counters>>

DrainFail ==
    /\ At("drain", "fail") \/ At("drain", "retired")
    /\ QueueFree
    /\ failPromptQueueDispatch(proc["drain"].own, At("drain", "retired"))
    /\ attempts' = 0 /\ Stop("drain")
    /\ UNCHANGED <<sessionVars, lease, providerVars, history, counters>>

(* Mutant of deferQueue: a reserved message is retried for ever. *)
deferQueueForEver ==
    /\ At("drain", "defer") \/ At("drain", "unheld")
    /\ Stop("drain")
    /\ UNCHANGED <<queueVars, sessionVars, lease, attempts, providerVars, history,
                   counters>>

(* Mutant of deferQueue: the attempts are counted and never looked at. *)
deferQueueUncapped ==
    /\ At("drain", "defer") \/ At("drain", "unheld")
    /\ attempts' = attempts + 1
    /\ Stop("drain")
    /\ UNCHANGED <<queueVars, sessionVars, lease, providerVars, history, counters>>

(* Back off; park the message once the attempts are used up.  A pass that   *)
(* reserved nothing reserves the head to park it.                           *)
deferQueue ==
    /\ At("drain", "defer") \/ At("drain", "unheld")
    /\ QueueFree
    /\ \/ /\ attempts + 1 < MaxAttempts
          /\ attempts' = attempts + 1
          /\ Stop("drain") /\ UNCHANGED queueVars
       \/ /\ attempts + 1 >= MaxAttempts /\ At("drain", "defer")
          /\ failPromptQueueDispatch(proc["drain"].own, FALSE)
          /\ attempts' = 0 /\ Stop("drain")
       \/ /\ attempts + 1 >= MaxAttempts /\ At("drain", "unheld")
          /\ reservePromptQueueHeadForDispatch
          /\ attempts' = IF Reservation = NoRid THEN MaxAttempts ELSE 0
          /\ proc' = [proc EXCEPT !["drain"] =
                IF Reservation = NoRid THEN Idle
                ELSE [@ EXCEPT !.own = Reservation, !.at = "fail"]]
    /\ UNCHANGED <<sessionVars, lease, providerVars, history, counters>>

-----------------------------------------------------------------------------
(* The provider, outside the repository's core, and restarts. *)

TurnEnd ==
    /\ turn = "running"
    /\ turn' \in {"idle", "error"}
    /\ open' = {}
    /\ UNCHANGED <<queueVars, sessionVars, lease, proc, attempts, accepted, lost,
                   steered, history, counters>>

(* Its journal keeps the ids of the turn it was running, not their outcome. *)
ProviderRestart ==
    /\ restarts < MaxRestarts /\ restarts' = restarts + 1
    /\ lost' = lost \cup open
    /\ accepted' = accepted \ open
    /\ turn' = "idle" /\ open' = {}
    /\ UNCHANGED <<queueVars, sessionVars, lease, proc, attempts, steered, history,
                   crashes, calls>>

Crash ==
    /\ crashes < MaxCrashes /\ crashes' = crashes + 1
    /\ lease' = "free" /\ proc' = [a \in Actors |-> Idle] /\ attempts' = 0
    /\ UNCHANGED <<queueVars, sessionVars, providerVars, history, restarts,
                   calls>>

Flow(a) == \/ Intent(a) \/ Source(a) \/ Finish(a) \/ Acknowledge(a)
           \/ Recover(a) \/ Reconcile(a) \/ SteerOnce(a) \/ SteerSend(a)
           \/ Dispatch(a) \/ Send(a) \/ Record(a) \/ Status(a) \/ Verdict(a)

Drain == DrainProbe \/ DrainReserve \/ DrainFail \/ deferQueue

Next ==
    \/ \E i \in Items : Enqueue(i) \/ enqueuePromptQueueMessageIfAbsent(i) \/ Remove(i)
    \/ \E k \in 1..Len(messages) : Move(k)
    \/ Retry
    \/ \E a \in Actors : Flow(a)
    \/ \E i \in Items : SteerQueued(i)
    \/ ReserveSteer \/ ReserveSteerRecord \/ RetrySteer
    \/ \E p \in Steers : SteerPrompt(p)
    \/ \E p \in Prompts : ComposerSend(p)
    \/ RetryParked \/ ClearRefused \/ DiscardParked
    \/ SettleDispatch \/ SettleSteer \/ DiscardSteer
    \/ DrainStart \/ DrainWait \/ DrainRefuse \/ Drain
    \/ TurnEnd \/ ProviderRestart \/ Crash

Spec == Init /\ [][Next]_vars

(* A flow that has started goes on, turns end, the retry timer starts a new *)
(* pass, and somebody reads the projection of a session with an unsettled   *)
(* steer.  A pass that keeps coming does not wait every time.               *)
FairSpec ==
    /\ Spec
    /\ \A a \in Actors : WF_vars(Flow(a))
    /\ WF_vars(ReserveSteer) /\ WF_vars(ReserveSteerRecord)
    /\ WF_vars(ClearRefused) /\ WF_vars(TurnEnd)
    /\ WF_vars(DrainStart) /\ WF_vars(DrainReserve) /\ WF_vars(DrainFail)
    /\ WF_vars(deferQueue) /\ SF_vars(DrainProbe)
    /\ WF_vars(SettleSteer)
-----------------------------------------------------------------------------
Procs == [at : Locations, own : Rids \cup {NoRid}, rid : Rids \cup {NoRid},
          how : Settlements, ok : BOOLEAN, retry : BOOLEAN, keep : BOOLEAN]

(* Every variable keeps its type; attempts stay within their limit. *)
TypeOK ==
    /\ QueueTypeOK
    /\ pendingDispatch \in Rids \cup {NoRid}
    /\ pendingSteer \in {NoSteer}
          \cup [rid : Rids, source : BOOLEAN, settle : Settlements]
    /\ dispatched \subseteq Rids
    /\ lease \in Actors \cup {"free"}
    /\ proc \in [Actors -> Procs]
    /\ attempts \in 0..MaxAttempts
    /\ accepted \subseteq Rids /\ lost \subseteq Rids /\ steered \subseteq Rids
    /\ open \subseteq accepted
    /\ turn \in {"idle", "running", "error"}
    /\ removed \subseteq Items /\ discarded \subseteq Items \cup Steers
    /\ placed \subseteq Items /\ unsure \subseteq Rids
    /\ crashes \in 0..MaxCrashes /\ restarts \in 0..MaxRestarts
    /\ calls \in 0..MaxCalls

(* One message is delivered once: never both inside a turn as a steer and  *)
(* as a turn of its own, whatever crashes, lost answers and concurrent     *)
(* drains come between.  A user who drops an unsettled steer accepts that  *)
(* it may have run.                                                        *)
DeliveredOnce ==
    \A r \in steered \ unsure : r \in accepted \cup lost => r[1] \in discarded

(* The refusal of reservePromptQueueSteer: a queued request that was       *)
(* already delivered is not steered.                                       *)
DeliveredIsNotSteered ==
    \A r \in steered : r \in accepted \cup lost => r[1] \in discarded

(* A queued item is never lost: unless a user took it out, it waits, is    *)
(* reserved, or reached the provider.                                      *)
NothingLost ==
    \A i \in placed \ (removed \cup discarded) :
        Held(i) \/ \E r \in accepted \cup lost \cup steered : r[1] = i

(* An item has one place in the queue: no copy waits beside another or     *)
(* beside its own reservation, whatever order reservations, failures and   *)
(* restorations come in.                                                   *)
OnePlace ==
    /\ \A j, k \in 1..Len(messages) : messages[j][1] = messages[k][1] => j = k
    /\ \A k \in 1..Len(messages) : ~Flying(messages[k][1])

(* A session never has a parked prompt and a parked steer together: each   *)
(* journal is opened under the lease after a look at the other.            *)
OneJournal == pendingDispatch = NoRid \/ pendingSteer = NoSteer

(* What the drain reserved does not stay reserved: it is acknowledged or    *)
(* put back, however many attempts end without an answer.                   *)
ReservationEnds ==
    \A m \in Messages :
        inFlight.rid = m /\ ~inFlight.steer ~> inFlight.rid # m

(* A settlement that was begun is finished, across a crash between any two  *)
(* of its three writes.                                                     *)
SettlementEnds == pendingSteer.settle # "none" ~> pendingSteer.settle = "none"

(* What the promise is about: the items that wait or are reserved, and the  *)
(* requests that opened a turn.                                             *)
HeldItems == Ids(messages) \cup {i \in Items : Flying(i)}
Turned == accepted \cup lost

Delivery == INSTANCE DeliveryPromise WITH
    Requests <- Rids, NoRequest <- NoRid,
    queued <- HeldItems, asked <- placed, withdrawn <- removed,
    dropped <- discarded, risked <- unsure,
    prompt <- pendingDispatch, steer <- pendingSteer.rid, receipts <- dispatched,
    ran <- Turned, joined <- steered

(* The queue, the session's record and its flows keep the promise of        *)
(* DeliveryPromise across lost answers, crashes and provider restarts: a    *)
(* composer prompt or steer is parked before it is sent, nothing is sent    *)
(* after its receipt, a steer that landed is not put back, and an item      *)
(* leaves the queue only when it was delivered or a user took it out.       *)
KeepsDelivery == Delivery!PromiseSpec
=============================================================================
