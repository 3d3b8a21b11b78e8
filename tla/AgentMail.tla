----------------------------- MODULE AgentMail -----------------------------
(***************************************************************************)
(* Delivery of agent mail to one native mailbox                            *)
(* (apps/backend/src/core/storage-agent-mail-injects.ts, the drain of      *)
(* agent-mail-service.ts, and the mail half of native-agent-service.ts).   *)
(*                                                                         *)
(* The drain claims a message and its siblings, one durable write each,    *)
(* offers them to the session as one prompt under the first one's request  *)
(* id, and settles them one write each.  A claim a user asked to deliver   *)
(* now is steered into the running turn under a fresh id first.  After a   *)
(* crash the claims that are left are settled against the journals before  *)
(* the drain goes on.                                                      *)
(*                                                                         *)
(* The request id of a message is the message; 1, 2, ... are steer ids,    *)
(* and Typed is the id of prompts typed into the tab.                      *)
(***************************************************************************)
EXTENDS Naturals, Sequences, FiniteSets

Seqs == INSTANCE SequencesExt

CONSTANTS
    Mail,          \* the messages to this mailbox
    Typed, NoRid,
    MaxBatch,      \* MAX_MAIL_INJECT_BATCH
    MaxVerify,     \* AGENT_MAIL_MAX_VERIFY_ATTEMPTS
    MaxSteers,     \* bound: steer ids
    MaxReleases,   \* bound: releases of a message by a user
    MaxRecoveries, \* bound: a user's decisions on a parked dispatch
    MaxTyped,      \* bound: typed prompts
    MaxCrashes,    \* bound: backend restarts
    MaxRestarts    \* bound: provider restarts

ASSUME MailAssumption ==
    /\ Typed \notin Mail /\ NoRid \notin Mail /\ Typed # NoRid
    /\ MaxBatch \in Nat \ {0} /\ MaxVerify \in Nat
    /\ MaxSteers \in Nat /\ MaxReleases \in Nat /\ MaxRecoveries \in Nat
    /\ MaxTyped \in Nat /\ MaxCrashes \in Nat /\ MaxRestarts \in Nat
    /\ ({Typed, NoRid} \cup Mail) \cap (0..MaxSteers) = {}

VARIABLES
    placement,        \* where each message is
    pendingInject,    \* the store's queue of entries, oldest first
    pendingDispatch,  \* session.pendingDispatch, with the mail its text carries
    pendingSteer,     \* session.pendingSteer, with the mail its text carries
    dispatched,       \* session.dispatchedRequestIds
    retired,          \* session.retiredDispatch
    drain,            \* the injector: its place, snapshot, batch and result
    taken,            \* provider: ids its prompt journal holds
    lost,             \* provider: ids it restored without their outcome
    steerLog,         \* provider: its steer journal
    turn,             \* the tab: "idle", or "busy" with a turn, draft or queue
    seen,             \* history: how often the agent got each message
    offered,          \* history: the messages offered under each id
    resent,           \* history: how often a user sent each message again
    strays,           \* history: siblings a refused steer sent as a prompt
    used              \* the bounded counters

storeVars == <<placement, pendingInject>>
sessionVars == <<pendingDispatch, pendingSteer, dispatched, retired>>
providerVars == <<taken, lost, steerLog, turn, seen>>
history == <<offered, resent, strays>>
vars == <<storeVars, sessionVars, drain, providerVars, history, used>>

SteerIds == 1..MaxSteers
Rids == Mail \cup SteerIds \cup {Typed}

NoDispatch == [rid |-> NoRid, mail |-> {}, refused |-> FALSE]
NoSteer == [rid |-> NoRid, mail |-> {}]

(* verify: verifyRequestId.  tries: verificationAttempts.  steer:           *)
(* steerRequested.  held: retryAt is ahead.  deferred: nextAttemptAt is.    *)
Entry(m, s) == [id |-> m, verify |-> NoRid, tries |-> 0, steer |-> s,
                steerId |-> NoRid, held |-> FALSE, deferred |-> FALSE,
                reason |-> "none"]

Results == {"accepted", "held", "retry", "verify", "failed"}

Result(what, r, s) == [what |-> what, rid |-> r, steer |-> s]

(* list, pos: the pass's snapshot and its place in it.  from: the next      *)
(* sibling.  known: the journal's answers of this pass.                     *)
Off == [at |-> "idle", list |-> <<>>, pos |-> 0, from |-> 0, batch |-> <<>>,
        steer |-> NoRid, known |-> {}, answer |-> "none",
        result |-> Result("held", NoRid, FALSE)]

At(loc) == drain.at = loc
Goto(loc) == drain' = [drain EXCEPT !.at = loc]
Settle(res) == drain' = [drain EXCEPT !.at = "settle", !.result = res]

Bump(counter) == used' = [used EXCEPT ![counter] = @ + 1]

Queued(m) == {k \in 1..Len(pendingInject) : pendingInject[k].id = m}
Index(m) == CHOOSE k \in Queued(m) : TRUE
EntryOf(m) == pendingInject[Index(m)]
Replace(m, e) == [pendingInject EXCEPT ![Index(m)] = e]
Put(m, e) == IF Queued(m) = {} THEN Append(pendingInject, e) ELSE Replace(m, e)
Drop(m) == IF Queued(m) = {} THEN pendingInject
           ELSE Seqs!RemoveAt(pendingInject, Index(m))

(* The session's lease is held over the dispatch of a prompt or a steer. *)
LeaseFree == drain.at \notin {"sending", "record", "refused", "steering", "steered"}

Claimed == drain.batch[1]

Members(seq) == {seq[k] : k \in 1..Len(seq)}

Init ==
    /\ placement = [m \in Mail |-> "unsent"] /\ pendingInject = <<>>
    /\ pendingDispatch = NoDispatch /\ pendingSteer = NoSteer
    /\ dispatched = {} /\ retired = NoRid
    /\ drain = Off
    /\ taken = {} /\ lost = {} /\ turn = "idle"
    /\ steerLog = [s \in SteerIds |-> "none"]
    /\ seen = [m \in Mail |-> 0]
    /\ offered = [r \in Rids |-> {}] /\ resent = [m \in Mail |-> 0]
    /\ strays = {}
    /\ used = [steers |-> 0, releases |-> 0, recoveries |-> 0, typed |-> 0,
               crashes |-> 0, restarts |-> 0]

-----------------------------------------------------------------------------
(* Mail arrives, and users release it. *)

sendAgentMail(m, s) ==
    /\ placement[m] = "unsent"
    /\ s => MaxSteers > 0
    /\ placement' = [placement EXCEPT ![m] = "pending"]
    /\ pendingInject' = Append(pendingInject, Entry(m, s))
    /\ UNCHANGED <<sessionVars, drain, providerVars, history, used>>

(* Mutant of retryAgentMailInject: a released message is always queued. *)
retryQueuesAgain(m, s) ==
    /\ used.releases < MaxReleases /\ Bump("releases")
    /\ s => MaxSteers > 0
    /\ placement[m] \in {"pending", "failed"}
    /\ pendingInject' = Append(pendingInject, Entry(m, s))
    /\ placement' = [placement EXCEPT ![m] = "pending"]
    /\ resent' = [resent EXCEPT ![m] = IF placement[m] = "failed" THEN @ + 1 ELSE @]
    /\ UNCHANGED <<sessionVars, drain, providerVars, offered, strays>>

(* Retry, or Deliver now when s.  The remaining wait is skipped; an         *)
(* unconfirmed dispatch is confirmed first and not offered again.           *)
retryAgentMailInject(m, s) ==
    /\ used.releases < MaxReleases /\ Bump("releases")
    /\ s => MaxSteers > 0
    /\ placement[m] \in {"pending", "failed"}
    /\ LET e == IF Queued(m) = {} THEN Entry(m, FALSE) ELSE EntryOf(m)
           woken == IF placement[m] = "pending"
                    THEN [e EXCEPT !.held = FALSE, !.deferred = FALSE] ELSE e
       IN pendingInject' = Put(m, [woken EXCEPT !.steer = @ \/ (s /\ e.verify = NoRid)])
    /\ placement' = [placement EXCEPT ![m] = "pending"]
    /\ resent' = [resent EXCEPT ![m] = IF placement[m] = "failed" THEN @ + 1 ELSE @]
    /\ UNCHANGED <<sessionVars, drain, providerVars, offered, strays>>

(* A coordinator's unused Deliver now expires. *)
clearAgentMailSteerRequest(m) ==
    /\ Queued(m) # {} /\ EntryOf(m).steer /\ EntryOf(m).verify = NoRid
    /\ pendingInject' = Replace(m, [EntryOf(m) EXCEPT !.steer = FALSE])
    /\ UNCHANGED <<placement, sessionVars, drain, providerVars, history, used>>

(* The wait of an entry is over. *)
Elapse(m) ==
    /\ Queued(m) # {} /\ (EntryOf(m).held \/ EntryOf(m).deferred)
    /\ pendingInject' = Replace(m, [EntryOf(m) EXCEPT !.held = FALSE, !.deferred = FALSE])
    /\ UNCHANGED <<placement, sessionVars, drain, providerVars, history, used>>

resetBackoff == [k \in 1..Len(pendingInject) |->
                    [pendingInject[k] EXCEPT !.deferred = FALSE]]

(* An activity edge of the tab. *)
resetAgentMailInjectBackoff ==
    /\ pendingInject # resetBackoff
    /\ pendingInject' = resetBackoff
    /\ UNCHANGED <<placement, sessionVars, drain, providerVars, history, used>>

-----------------------------------------------------------------------------
(* The store: a claim, and what an outcome does to a claimed message. *)

Claimable(m, r) ==
    /\ placement[m] = "pending"
    /\ Queued(m) # {} => /\ EntryOf(m).verify = r
                         /\ ~EntryOf(m).held /\ ~EntryOf(m).deferred

beginAgentMailInject(m, s) ==
    /\ placement' = [placement EXCEPT ![m] = "submitting"]
    /\ pendingInject' = IF Queued(m) = {} \/ s = NoRid THEN pendingInject
                        ELSE Replace(m, [EntryOf(m) EXCEPT !.steerId = s])

(* Mutant of Finished: a message is verified under its own id. *)
FinishedUnderOwnId(m, res) ==
    CASE res.what = "held" -> [Entry(m, FALSE) EXCEPT !.deferred = TRUE, !.reason = "held"]
      [] res.what = "retry" -> [Entry(m, FALSE) EXCEPT !.held = TRUE, !.reason = "retrying"]
      [] res.what = "verify" ->
            [Entry(m, FALSE) EXCEPT !.held = TRUE, !.reason = "verifying", !.verify = m,
                !.tries = 1 + IF Queued(m) = {} THEN 0 ELSE EntryOf(m).tries]

(* Mutant of Finished: inconclusive answers are not counted. *)
FinishedUncounted(m, res) ==
    CASE res.what = "held" -> [Entry(m, FALSE) EXCEPT !.deferred = TRUE, !.reason = "held"]
      [] res.what = "retry" -> [Entry(m, FALSE) EXCEPT !.held = TRUE, !.reason = "retrying"]
      [] res.what = "verify" ->
            [Entry(m, FALSE) EXCEPT !.held = TRUE, !.reason = "verifying",
                !.verify = res.rid, !.steerId = IF res.steer THEN res.rid ELSE NoRid]

(* The entry a message goes back to the queue with. *)
Finished(m, res) ==
    CASE res.what = "held" -> [Entry(m, FALSE) EXCEPT !.deferred = TRUE, !.reason = "held"]
      [] res.what = "retry" -> [Entry(m, FALSE) EXCEPT !.held = TRUE, !.reason = "retrying"]
      [] res.what = "verify" ->
            [Entry(m, FALSE) EXCEPT !.held = TRUE, !.reason = "verifying",
                !.verify = res.rid, !.steerId = IF res.steer THEN res.rid ELSE NoRid,
                !.tries = 1 + IF Queued(m) = {} THEN 0 ELSE EntryOf(m).tries]

(* Mutant of finishAgentMailInject: a failed message keeps its entry. *)
finishKeepsFailed(m, res) ==
    IF placement[m] # "submitting" THEN UNCHANGED storeVars
    ELSE /\ placement' = [placement EXCEPT ![m] =
               CASE res.what = "accepted" -> "injected"
                 [] res.what = "failed" -> "failed"
                 [] OTHER -> "pending"]
         /\ pendingInject' = CASE res.what = "accepted" -> Drop(m)
                               [] res.what = "failed" -> pendingInject
                               [] OTHER -> Put(m, Finished(m, res))

finishAgentMailInject(m, res) ==
    IF placement[m] # "submitting" THEN UNCHANGED storeVars
    ELSE /\ placement' = [placement EXCEPT ![m] =
               CASE res.what = "accepted" -> "injected"
                 [] res.what = "failed" -> "failed"
                 [] OTHER -> "pending"]
         /\ pendingInject' = IF res.what \in {"accepted", "failed"} THEN Drop(m)
                             ELSE Put(m, Finished(m, res))

-----------------------------------------------------------------------------
(* What the session and its provider can prove about a request id. *)

confirmNativeAgentDispatch(r) ==
    /\ r \in taken
    /\ pendingDispatch' = NoDispatch
    /\ dispatched' = dispatched \cup {r}
    /\ retired' = NoRid
    /\ UNCHANGED pendingSteer

retireNativeAgentDispatch(r) ==
    /\ r \in lost
    /\ pendingDispatch' = NoDispatch
    /\ retired' = r
    /\ UNCHANGED <<dispatched, pendingSteer>>

Unsettled(r) == pendingDispatch.rid = r /\ ~pendingDispatch.refused

(* Mutant of reconcileMailInject: a missing row counts as unsent. *)
reconcileMissingAsUnsent(r, recovery, status) ==
    /\ UNCHANGED sessionVars
    /\ status = IF r \in dispatched THEN "dispatched"
                ELSE IF Unsettled(r) \/ retired = r THEN "unknown"
                ELSE "not-dispatched"

reconcileMailInject(r, recovery, status) ==
    \/ /\ r \in dispatched /\ status = "dispatched" /\ UNCHANGED sessionVars
    \/ /\ r \notin dispatched /\ Unsettled(r)
       /\ \/ status = "dispatched" /\ confirmNativeAgentDispatch(r)
          \/ status = "unknown" /\ (retireNativeAgentDispatch(r) \/ UNCHANGED sessionVars)
    \/ /\ r \notin dispatched /\ ~Unsettled(r)
       /\ status = IF retired # r /\ (pendingDispatch.rid = r \/ recovery)
                   THEN "not-dispatched" ELSE "unknown"
       /\ UNCHANGED sessionVars

completePendingSteer(applied) ==
    /\ pendingSteer' = NoSteer
    /\ dispatched' = IF applied THEN dispatched \cup {pendingSteer.rid} ELSE dispatched
    /\ UNCHANGED <<pendingDispatch, retired>>

(* The steer journal answers with what it recorded, or cannot be asked. *)
SteerStatus(s) == {"unknown"} \cup ({steerLog[s]} \ {"none"})

reconcileMailSteer(s, status) ==
    \/ /\ s \in dispatched /\ status = "dispatched" /\ UNCHANGED sessionVars
    \/ /\ s \notin dispatched
       /\ \E answer \in SteerStatus(s) :
             /\ status = IF answer = "absent" THEN "not-dispatched" ELSE answer
             /\ IF pendingSteer.rid = s /\ answer # "unknown"
                THEN completePendingSteer(answer = "dispatched")
                ELSE UNCHANGED sessionVars

-----------------------------------------------------------------------------
(* drainEnvironmentInjects: one pass over a snapshot of the queue. *)

Listed(includeDeferred) ==
    {k \in 1..Len(pendingInject) :
        /\ placement[pendingInject[k].id] = "pending" /\ ~pendingInject[k].held
        /\ pendingInject[k].deferred => includeDeferred}

(* The order of a pass: a stable sort that puts the deferred entries last. *)
Before(j, k) == IF pendingInject[j].deferred = pendingInject[k].deferred THEN j < k
                ELSE pendingInject[k].deferred

(* The one list of the entries in that order, as a set. *)
listPendingAgentMailInjects(includeDeferred) ==
    LET listed == Listed(includeDeferred)
        places == 1..Cardinality(listed)
        sorted == {order \in [places -> listed] :
                      \A n, o \in places : n < o => Before(order[n], order[o])}
    IN  {[n \in places |-> pendingInject[order[n]]] : order \in sorted}

drainInjects ==
    /\ At("idle")
    /\ \E d \in BOOLEAN : \E list \in listPendingAgentMailInjects(d) :
          /\ list # <<>>
          /\ drain' = [Off EXCEPT !.at = "next", !.pos = 1, !.list = list]
    /\ UNCHANGED <<storeVars, sessionVars, providerVars, history, used>>

Here == drain.list[drain.pos]

(* The next message of the pass, or of the recovery when pos is 0. *)
Advance ==
    drain' = IF drain.pos = 0 THEN [Off EXCEPT !.at = "down"]
             ELSE IF drain.pos = Len(drain.list) THEN Off
             ELSE [Off EXCEPT !.at = "next", !.pos = drain.pos + 1,
                              !.list = drain.list, !.known = drain.known]

(* Mutant of VerifyResult: the journal is asked for ever. *)
VerifyForEver(e, status) ==
    CASE status = "dispatched" -> Result("accepted", NoRid, FALSE)
      [] status = "not-dispatched" -> Result("held", NoRid, FALSE)
      [] OTHER -> Result("verify", e.verify, e.steerId = e.verify)

(* Mutant of VerifyResult: a message nobody can confirm counts as delivered. *)
VerifyGivesUp(e, status) ==
    CASE status = "not-dispatched" -> Result("held", NoRid, FALSE)
      [] status = "unknown" /\ e.tries < MaxVerify ->
            Result("verify", e.verify, e.steerId = e.verify)
      [] OTHER -> Result("accepted", NoRid, FALSE)

(* verifyAmbiguousInject: the journal is asked once per pass and id. *)
VerifyResult(e, status) ==
    CASE status = "dispatched" -> Result("accepted", NoRid, FALSE)
      [] status = "not-dispatched" -> Result("held", NoRid, FALSE)
      [] OTHER -> IF e.tries >= MaxVerify THEN Result("failed", NoRid, FALSE)
                  ELSE Result("verify", e.verify, e.steerId = e.verify)

VerifyAsk ==
    /\ At("next") /\ Here.verify # NoRid
    /\ \E status \in {"dispatched", "not-dispatched", "unknown"} :
          /\ IF \E p \in drain.known : p[1] = Here.verify
             THEN <<Here.verify, status>> \in drain.known /\ UNCHANGED sessionVars
             ELSE IF Here.steerId = Here.verify
             THEN reconcileMailSteer(Here.verify, status)
             ELSE reconcileMailInject(Here.verify, FALSE, status)
          /\ drain' = [drain EXCEPT !.at = "verdict",
                          !.known = @ \cup {<<Here.verify, status>>},
                          !.result = VerifyResult(Here, status)]
    /\ UNCHANGED <<storeVars, providerVars, history, used>>

VerifyClaim ==
    /\ At("verdict")
    /\ IF Claimable(Here.id, Here.verify)
       THEN /\ beginAgentMailInject(Here.id, NoRid)
            /\ drain' = [drain EXCEPT !.at = "settle", !.batch = <<Here.id>>]
       ELSE Advance /\ UNCHANGED storeVars
    /\ UNCHANGED <<sessionVars, providerVars, history, used>>

(* A proven refusal is cleared first.  The observation of a busy tab may be *)
(* stale, and one of an idle tab too old to be used.                        *)
mailInjectPresence(p) ==
    /\ UNCHANGED <<pendingSteer, dispatched, retired>>
    /\ IF pendingDispatch = NoDispatch \/ pendingDispatch.refused
       THEN /\ pendingDispatch' = NoDispatch
            /\ p \in IF turn = "busy" THEN {"working", "unknown", "idle"}
                     ELSE {"idle", "unknown"}
       ELSE p = "working" /\ UNCHANGED pendingDispatch

(* The presence cache is refreshed on its own timer too. *)
refreshPresence ==
    /\ LeaseFree /\ pendingDispatch.refused
    /\ mailInjectPresence("unknown")
    /\ UNCHANGED <<storeVars, drain, providerVars, history, used>>

(* The clean-up of a proven refusal may fail: the tab then counts as        *)
(* working.                                                                 *)
Presence(p) ==
    \/ mailInjectPresence(p)
    \/ pendingDispatch.refused /\ p = "working" /\ UNCHANGED sessionVars

Steering(p) == Here.steer /\ p = "working" /\ used.steers < MaxSteers

(* A message the pass leaves waiting. *)
Skip ==
    /\ At("next") /\ Here.verify = NoRid
    /\ \E p \in {"idle", "working", "unknown"} :
          /\ Presence(p)
          /\ ~Steering(p) /\ (p = "working" \/ (Here.deferred /\ p # "idle"))
    /\ Advance
    /\ UNCHANGED <<storeVars, providerVars, history, used>>

(* An idle tab ends the backoff of the whole mailbox. *)
Approach ==
    /\ At("next") /\ Here.verify = NoRid
    /\ \E p \in {"idle", "unknown"} :
          /\ Presence(p)
          /\ Here.deferred => p = "idle"
    /\ pendingInject' = IF Here.deferred THEN resetBackoff ELSE pendingInject
    /\ Goto("claim")
    /\ UNCHANGED <<placement, providerVars, history, used>>

ApproachSteer ==
    /\ At("next") /\ Here.verify = NoRid
    /\ Presence("working") /\ Steering("working")
    /\ Bump("steers")
    /\ drain' = [drain EXCEPT !.at = "claim", !.steer = used.steers + 1]
    /\ UNCHANGED <<storeVars, providerVars, history>>

(* The claim; a carrier too large for a steer is put back. *)
Claim ==
    /\ At("claim")
    /\ IF Claimable(Here.id, NoRid)
       THEN /\ beginAgentMailInject(Here.id, drain.steer)
            /\ \E next \in {"gather"} \cup (IF drain.steer # NoRid THEN {"settle"} ELSE {}) :
                  drain' = [drain EXCEPT !.at = next, !.batch = <<Here.id>>, !.from = 1,
                                         !.result = Result("held", NoRid, FALSE)]
       ELSE Advance /\ UNCHANGED storeVars
    /\ UNCHANGED <<sessionVars, providerVars, history, used>>

Offer == IF drain.steer = NoRid THEN "dispatch" ELSE "steer"

(* The siblings ride along, each claimed by a write of its own, until the   *)
(* batch or its carrier is full.                                            *)
Gather ==
    /\ At("gather")
    /\ IF drain.from > Len(drain.list) \/ Len(drain.batch) >= MaxBatch
       THEN Goto(Offer) /\ UNCHANGED storeVars
       ELSE LET e == drain.list[drain.from] IN
            IF /\ e.id # Claimed /\ ~e.deferred /\ e.verify = NoRid
               /\ Claimable(e.id, NoRid)
            THEN /\ beginAgentMailInject(e.id, drain.steer)
                 /\ \/ drain' = [drain EXCEPT !.batch = Append(@, e.id), !.from = @ + 1]
                    \/ Goto("full")
            ELSE drain' = [drain EXCEPT !.from = @ + 1] /\ UNCHANGED storeVars
    /\ UNCHANGED <<sessionVars, providerVars, history, used>>

GiveBack ==
    /\ At("full")
    /\ finishAgentMailInject(drain.list[drain.from].id, Result("held", NoRid, FALSE))
    /\ Goto(Offer)
    /\ UNCHANGED <<sessionVars, providerVars, history, used>>

(* Each message of the batch is settled by a write of its own.  The code    *)
(* settles in the order of the messages' times; any order is allowed here.  *)
SettleOne ==
    /\ At("settle")
    /\ \E k \in 1..Len(drain.batch) :
          /\ finishAgentMailInject(drain.batch[k], drain.result)
          /\ IF Len(drain.batch) = 1 THEN Advance
             ELSE drain' = [drain EXCEPT !.batch = Seqs!RemoveAt(@, k)]
    /\ UNCHANGED <<sessionVars, providerVars, history, used>>

-----------------------------------------------------------------------------
(* steerMailInject: the record is durable before the provider sees it. *)

Give(ms) == seen' = [m \in Mail |-> IF m \in ms THEN seen[m] + 1 ELSE seen[m]]

Batch == Members(drain.batch)

OfferUnder(r) == offered' = [offered EXCEPT ![r] = @ \cup Batch]

(* Something parked, or a provider that cannot steer, refuses the steer; a *)
(* turn that is over sends the mail the ordinary way.                      *)
SteerRecord ==
    /\ At("steer")
    /\ \/ Settle(Result("held", NoRid, FALSE)) /\ UNCHANGED <<sessionVars, offered>>
       \/ /\ pendingDispatch = NoDispatch /\ pendingSteer = NoSteer
          /\ Goto("dispatch") /\ UNCHANGED <<sessionVars, offered>>
       \/ /\ pendingDispatch = NoDispatch /\ pendingSteer = NoSteer /\ turn = "busy"
          /\ pendingSteer' = [rid |-> drain.steer, mail |-> Batch]
          /\ OfferUnder(drain.steer)
          /\ Goto("steering") /\ UNCHANGED <<pendingDispatch, dispatched, retired>>
    /\ UNCHANGED <<storeVars, providerVars, resent, strays, used>>

(* The provider delivers an id it does not know into a running turn,       *)
(* records one it could not deliver, and may leave either unanswered.      *)
PerformSteer(s, ms, answer) ==
    \/ /\ steerLog[s] = "none" /\ turn = "busy" /\ answer \in {"applied", "unknown"}
       /\ steerLog' = [steerLog EXCEPT ![s] = "dispatched"] /\ Give(ms)
    \/ /\ steerLog[s] = "none" /\ answer \in {"idle", "refused", "unknown"}
       /\ steerLog' = [steerLog EXCEPT ![s] = "absent"] /\ UNCHANGED seen
    \/ /\ answer = CASE steerLog[s] = "dispatched" -> "applied"
                     [] steerLog[s] = "absent" -> "idle"
                     [] OTHER -> "unknown"
       /\ UNCHANGED <<steerLog, seen>>
    \/ answer = "refused" /\ steerLog[s] = "none" /\ UNCHANGED <<steerLog, seen>>

SteerSend ==
    /\ At("steering")
    /\ \E answer \in {"applied", "idle", "refused", "unknown"} :
          /\ PerformSteer(drain.steer, Batch, answer)
          /\ drain' = [drain EXCEPT !.at = "steered", !.answer = answer]
    /\ UNCHANGED <<storeVars, sessionVars, taken, lost, turn, history, used>>

SteerOutcome ==
    /\ At("steered")
    /\ IF drain.answer = "unknown" THEN UNCHANGED sessionVars
       ELSE completePendingSteer(drain.answer = "applied")
    /\ CASE drain.answer = "applied" -> Settle(Result("accepted", NoRid, FALSE))
         [] drain.answer = "unknown" -> Settle(Result("verify", drain.steer, TRUE))
         [] drain.answer = "refused" -> Settle(Result("held", NoRid, FALSE))
         [] drain.answer = "idle" -> drain' = [drain EXCEPT !.at = "dispatch", !.answer = "none"]
    /\ UNCHANGED <<storeVars, providerVars, history, used>>

-----------------------------------------------------------------------------
(* dispatchMailInject, under the request id of the claimed message. *)

(* Refused before the journal is opened: a fence, a lease, a bridge that   *)
(* would not start, a parked steer; something else parked; or the id is    *)
(* already delivered.                                                      *)
DispatchEarly ==
    /\ At("dispatch")
    /\ \/ Settle(Result("retry", NoRid, FALSE)) /\ UNCHANGED sessionVars
       \/ /\ pendingDispatch = NoDispatch \/ pendingDispatch.rid # Claimed
          /\ Settle(Result("held", NoRid, FALSE)) /\ UNCHANGED sessionVars
       \/ /\ pendingSteer = NoSteer /\ pendingDispatch.rid \in {NoRid, Claimed}
          /\ Claimed \in dispatched
          /\ pendingDispatch' = NoDispatch
          /\ Settle(Result("accepted", NoRid, FALSE))
          /\ UNCHANGED <<pendingSteer, dispatched, retired>>
    /\ UNCHANGED <<storeVars, providerVars, history, used>>

(* The row is written whether or not the tab is then seen to be free; what  *)
(* is seen may be out of date.                                              *)
Dispatch ==
    /\ At("dispatch")
    /\ pendingSteer = NoSteer /\ pendingDispatch.rid \in {NoRid, Claimed}
    /\ Claimed \notin dispatched
    /\ pendingDispatch' = [rid |-> Claimed, mail |-> Batch, refused |-> FALSE]
    /\ \E gate \in {"busy", "free"} :
          drain' = [drain EXCEPT !.at = "sending", !.answer = gate]
    /\ UNCHANGED <<storeVars, pendingSteer, dispatched, retired, providerVars, history,
                   used>>

(* A busy tab: the row goes again, nothing was sent. *)
Hold ==
    /\ At("sending") /\ drain.answer = "busy"
    /\ pendingDispatch' = NoDispatch
    /\ Settle(Result("held", NoRid, FALSE))
    /\ UNCHANGED <<storeVars, pendingSteer, dispatched, retired, providerVars, history,
                   used>>

(* The provider starts a turn for an id it does not know, acknowledges one *)
(* it holds, and refuses for good one it restored without its outcome.     *)
Accept(r, ms) ==
    /\ r \notin lost
    /\ taken' = taken \cup {r}
    /\ IF r \in taken THEN UNCHANGED <<seen, turn>> ELSE Give(ms) /\ turn' = "busy"
    /\ UNCHANGED <<lost, steerLog>>

(* Accepted; no answer; provably not processed; rejected. *)
Send ==
    /\ At("sending") /\ drain.answer = "free"
    /\ OfferUnder(Claimed)
    /\ strays' = IF drain.steer = NoRid THEN strays ELSE strays \cup (Batch \ {Claimed})
    /\ \/ Accept(Claimed, Batch) /\ Goto("record")
       \/ /\ Accept(Claimed, Batch) \/ UNCHANGED providerVars
          /\ Settle(Result("verify", Claimed, FALSE))
       \/ Claimed \notin taken /\ Goto("refused") /\ UNCHANGED providerVars
       \/ /\ Claimed \notin taken /\ UNCHANGED providerVars
          /\ Settle(Result("retry", NoRid, FALSE))
    /\ UNCHANGED <<storeVars, sessionVars, resent, used>>

Record ==
    /\ At("record")
    /\ dispatched' = dispatched \cup {Claimed}
    /\ pendingDispatch' = NoDispatch /\ retired' = NoRid
    /\ Settle(Result("accepted", NoRid, FALSE))
    /\ UNCHANGED <<storeVars, pendingSteer, providerVars, history, used>>

(* The proof of a refusal is durable before the row is released, and stays *)
(* when the release fails.                                                 *)
RecordRefusal ==
    /\ At("refused")
    /\ pendingDispatch' = [pendingDispatch EXCEPT !.refused = TRUE]
    /\ Goto("release")
    /\ UNCHANGED <<storeVars, pendingSteer, dispatched, retired, providerVars, history,
                   used>>

Release ==
    /\ At("release")
    /\ pendingDispatch' \in {pendingDispatch, IF pendingDispatch.refused THEN NoDispatch
                                              ELSE pendingDispatch}
    /\ Settle(Result("held", NoRid, FALSE))
    /\ UNCHANGED <<storeVars, pendingSteer, dispatched, retired, providerVars, history,
                   used>>

-----------------------------------------------------------------------------
(* Restart: every claim that is left is settled against the journals. *)

Crash ==
    /\ used.crashes < MaxCrashes /\ Bump("crashes")
    /\ drain' = [Off EXCEPT !.at = "down"]
    /\ UNCHANGED <<storeVars, sessionVars, providerVars, history>>

Interrupted == {m \in Mail : placement[m] = "submitting"}

InitAsk(m) ==
    /\ At("down") /\ m \in Interrupted
    /\ LET s == IF Queued(m) = {} THEN NoRid ELSE EntryOf(m).steerId IN
       \E status \in {"dispatched", "not-dispatched", "unknown"} :
          /\ reconcileMailInject(m, s # NoRid, status)
          /\ drain' = [drain EXCEPT !.at = "asked", !.batch = <<m>>, !.steer = s,
                                    !.answer = status]
    /\ UNCHANGED <<storeVars, providerVars, history, used>>

InitResult(status) ==
    CASE status = "dispatched" -> Result("accepted", NoRid, FALSE)
      [] status = "not-dispatched" -> Result("held", NoRid, FALSE)
      [] OTHER -> Result("failed", NoRid, FALSE)

(* Mutant of InitSteer: the steer journal is not asked. *)
InitWithoutSteer ==
    /\ At("asked")
    /\ Settle(InitResult(drain.answer))
    /\ UNCHANGED <<storeVars, sessionVars, providerVars, history, used>>

(* A steer may have landed although the dispatch it falls back to did not. *)
InitSteer ==
    /\ At("asked")
    /\ IF drain.steer = NoRid \/ drain.answer = "dispatched"
       THEN Settle(InitResult(drain.answer)) /\ UNCHANGED sessionVars
       ELSE \E status \in {"dispatched", "not-dispatched", "unknown"} :
               /\ reconcileMailSteer(drain.steer, status)
               /\ Settle(InitResult(IF status = "not-dispatched" THEN drain.answer
                                    ELSE status))
    /\ UNCHANGED <<storeVars, providerVars, history, used>>

(* Mutant of InitDone: the drain goes on while claims are left. *)
InitDoneEarly ==
    /\ At("down")
    /\ drain' = Off
    /\ UNCHANGED <<storeVars, sessionVars, providerVars, history, used>>

(* The presence is refreshed only now: that may drop the proof of a refusal. *)
InitDone ==
    /\ At("down") /\ Interrupted = {}
    /\ \E p \in {"idle", "working", "unknown"} : Presence(p)
    /\ drain' = Off
    /\ UNCHANGED <<storeVars, providerVars, history, used>>

-----------------------------------------------------------------------------
(* The rest of the session: settlements that projection reads schedule, the *)
(* user's decisions on what is parked, and prompts typed into the tab.      *)

settleAmbiguousDispatch ==
    /\ LeaseFree /\ pendingDispatch # NoDispatch
    /\ \/ confirmNativeAgentDispatch(pendingDispatch.rid)
       \/ retireNativeAgentDispatch(pendingDispatch.rid)
    /\ UNCHANGED <<storeVars, drain, providerVars, history, used>>

settleAmbiguousSteer ==
    /\ LeaseFree /\ pendingSteer # NoSteer
    /\ steerLog[pendingSteer.rid] # "none"
    /\ completePendingSteer(steerLog[pendingSteer.rid] = "dispatched")
    /\ UNCHANGED <<storeVars, drain, providerVars, history, used>>

(* The parked text goes out again under its own id.  A rejection keeps the  *)
(* row unless the provider retired the id.                                  *)
retryRecoverableDispatch ==
    /\ used.recoveries < MaxRecoveries /\ Bump("recoveries")
    /\ LeaseFree /\ pendingDispatch.rid \in Mail
    /\ LET r == pendingDispatch.rid
           again == [pendingDispatch EXCEPT !.refused = FALSE]
       IN \/ /\ Accept(r, pendingDispatch.mail)
             /\ dispatched' = dispatched \cup {r}
             /\ pendingDispatch' = NoDispatch /\ retired' = NoRid
          \/ /\ Accept(r, pendingDispatch.mail) \/ UNCHANGED providerVars
             /\ pendingDispatch' = again /\ UNCHANGED <<dispatched, retired>>
          \/ /\ r \in lost /\ UNCHANGED providerVars
             /\ pendingDispatch' = NoDispatch /\ UNCHANGED <<dispatched, retired>>
    /\ resent' = [m \in Mail |-> resent[m] + IF m \in pendingDispatch.mail THEN 1 ELSE 0]
    /\ UNCHANGED <<storeVars, pendingSteer, drain, offered, strays>>

retryRecoverableSteer ==
    /\ used.recoveries < MaxRecoveries /\ Bump("recoveries")
    /\ LeaseFree /\ pendingSteer # NoSteer
    /\ \E answer \in {"applied", "idle", "refused", "unknown"} :
          /\ PerformSteer(pendingSteer.rid, pendingSteer.mail, answer)
          /\ IF answer = "unknown" THEN UNCHANGED sessionVars
             ELSE completePendingSteer(answer = "applied")
    /\ UNCHANGED <<storeVars, drain, taken, lost, turn, history>>

discardRecoverableDispatch ==
    /\ used.recoveries < MaxRecoveries /\ Bump("recoveries")
    /\ LeaseFree
    /\ \/ /\ pendingDispatch # NoDispatch
          /\ pendingDispatch' = NoDispatch /\ UNCHANGED <<pendingSteer, dispatched, retired>>
       \/ pendingSteer # NoSteer /\ completePendingSteer(FALSE)
    /\ UNCHANGED <<storeVars, drain, providerVars, history>>

(* A typed prompt is accepted, or its row stays parked without an answer. *)
dispatchIntent ==
    /\ used.typed < MaxTyped /\ Bump("typed")
    /\ LeaseFree /\ pendingDispatch = NoDispatch /\ pendingSteer = NoSteer
    /\ taken' = taken \cup {Typed} /\ turn' = "busy"
    /\ \/ pendingDispatch' = NoDispatch /\ retired' = NoRid
       \/ /\ pendingDispatch' = [NoDispatch EXCEPT !.rid = Typed] /\ UNCHANGED retired
    /\ UNCHANGED <<storeVars, pendingSteer, dispatched, drain, lost, steerLog, seen,
                   history>>

(* The tab: a turn starts by itself, a user types a draft or queues; and ends. *)
TurnStart ==
    /\ turn = "idle" /\ turn' = "busy"
    /\ UNCHANGED <<storeVars, sessionVars, drain, taken, lost, steerLog, seen, history,
                   used>>

TurnEnd ==
    /\ turn = "busy" /\ turn' = "idle"
    /\ UNCHANGED <<storeVars, sessionVars, drain, taken, lost, steerLog, seen, history,
                   used>>

(* A restarted provider has lost the outcome of the ids it was running. *)
ProviderRestart ==
    /\ used.restarts < MaxRestarts /\ Bump("restarts")
    /\ \E open \in SUBSET taken : taken' = taken \ open /\ lost' = lost \cup open
    /\ turn' = "idle"
    /\ UNCHANGED <<storeVars, sessionVars, drain, steerLog, seen, history>>

Verify == VerifyAsk \/ VerifyClaim
Batching == Claim \/ Gather \/ GiveBack
Steer == SteerRecord \/ SteerSend \/ SteerOutcome
Inject == DispatchEarly \/ Dispatch \/ Hold \/ Send \/ Record \/ RecordRefusal \/ Release
Recovery == (\E m \in Mail : InitAsk(m)) \/ InitSteer \/ InitDone

Next ==
    \/ \E m \in Mail, s \in BOOLEAN : sendAgentMail(m, s) \/ retryAgentMailInject(m, s)
    \/ \E m \in Mail : clearAgentMailSteerRequest(m) \/ Elapse(m)
    \/ resetAgentMailInjectBackoff \/ refreshPresence
    \/ drainInjects \/ Verify \/ Skip \/ Approach \/ ApproachSteer
    \/ Batching \/ SettleOne \/ Steer \/ Inject
    \/ Crash \/ Recovery
    \/ settleAmbiguousDispatch \/ settleAmbiguousSteer
    \/ retryRecoverableDispatch \/ retryRecoverableSteer \/ discardRecoverableDispatch
    \/ dispatchIntent \/ TurnStart \/ TurnEnd \/ ProviderRestart

Spec == Init /\ [][Next]_vars

(* The injector's timer starts passes and a pass that has started goes on,  *)
(* waits elapse, a backend that is down comes back, turns end, projection   *)
(* reads settle what can be settled; a tab that is idle again and again is  *)
(* seen idle.                                                               *)
FairSpec ==
    /\ Spec
    /\ WF_vars(drainInjects) /\ WF_vars(Verify) /\ WF_vars(Skip \/ Approach \/ ApproachSteer)
    /\ SF_vars(Approach)
    /\ WF_vars(Batching) /\ WF_vars(SettleOne) /\ WF_vars(Steer) /\ WF_vars(Inject)
    /\ WF_vars(Recovery) /\ WF_vars(TurnEnd)
    /\ \A m \in Mail : WF_vars(Elapse(m))
    /\ WF_vars(settleAmbiguousDispatch) /\ WF_vars(settleAmbiguousSteer)
-----------------------------------------------------------------------------
RidsOrNone == Rids \cup {NoRid}

Entries == [id : Mail, verify : RidsOrNone, tries : 0..(MaxVerify + 1), steer : BOOLEAN,
            steerId : RidsOrNone, held : BOOLEAN, deferred : BOOLEAN,
            reason : {"none", "held", "retrying", "verifying"}]

Locations == {"idle", "next", "verdict", "claim", "gather", "full", "settle", "steer",
              "steering", "steered", "dispatch", "sending", "record", "refused",
              "release", "down", "asked"}

(* Every variable keeps its type, the bounded counters aside. *)
TypeOK ==
    /\ placement \in [Mail -> {"unsent", "pending", "submitting", "injected", "failed"}]
    /\ pendingInject \in Seq(Entries)
    /\ pendingDispatch \in {NoDispatch} \cup
          [rid : Mail \cup {Typed}, mail : SUBSET Mail, refused : BOOLEAN]
    /\ pendingSteer \in {NoSteer} \cup [rid : SteerIds, mail : SUBSET Mail]
    /\ dispatched \subseteq Rids /\ retired \in RidsOrNone
    /\ drain.at \in Locations /\ drain.list \in Seq(Entries)
    /\ drain.batch \in Seq(Mail) /\ drain.steer \in SteerIds \cup {NoRid}
    /\ drain.result \in [what : Results, rid : RidsOrNone, steer : BOOLEAN]
    /\ taken \subseteq Rids /\ lost \subseteq Rids /\ turn \in {"idle", "busy"}
    /\ steerLog \in [SteerIds -> {"none", "dispatched", "absent"}]
    /\ seen \in [Mail -> Nat] /\ resent \in [Mail -> Nat]
    /\ offered \in [Rids -> SUBSET Mail] /\ strays \subseteq Mail

(* The journals exist for this: no crash, lost answer or late settlement    *)
(* makes the drain give the agent a message twice.  A user who sends a      *)
(* message again may, and so may the fallback of a steer for the siblings   *)
(* of its batch.                                                            *)
MailOnce == \A m \in Mail \ strays : seen[m] <= 1 + resent[m]

(* agent-messaging.md, "so mail is never sent twice": the same of every     *)
(* message.                                                                 *)
NeverTwice == \A m \in Mail : seen[m] <= 1 + resent[m]

(* agent-messaging.md, "injected: Carrier was accepted as a prompt": a      *)
(* message shown as delivered did reach the agent.                          *)
InjectedWasSeen == \A m \in Mail : placement[m] = "injected" => seen[m] > 0

(* The queue and the placements agree: a message that waits or is claimed   *)
(* has one entry, every other message has none, so no message is forgotten  *)
(* or drained twice after any order of claims, settlements and restarts.    *)
PendingHasEntry ==
    \A m \in Mail : Cardinality(Queued(m)) =
        IF placement[m] \in {"pending", "submitting"} THEN 1 ELSE 0

(* A message is verified under the id its carrier was sent with, the        *)
(* claimed message's or a steer's, never under an id that did not carry it. *)
VerifiesTheCarrier ==
    \A k \in 1..Len(pendingInject) :
        LET e == pendingInject[k] IN e.verify # NoRid => e.id \in offered[e.verify]

(* A claim does not outlive its pass: it is settled, by the drain or by the *)
(* restart, whatever fails in between.                                      *)
ClaimEnds == \A m \in Mail : placement[m] = "submitting" ~> placement[m] # "submitting"

(* An unconfirmed dispatch is settled in the end: the journal's answers are *)
(* counted, and the message fails when none is conclusive.                  *)
VerifyEnds ==
    \A m \in Mail :
        (\E k \in Queued(m) : pendingInject[k].verify # NoRid)
            ~> ~(\E k \in Queued(m) : pendingInject[k].verify # NoRid)

(* The comment at the end of drainEnvironmentInjects: a refused message     *)
(* waits and retries rather than asking anyone to press Retry.              *)
RetryIsOffered ==
    \A m \in Mail :
        (placement[m] = "pending" /\ \E k \in Queued(m) : pendingInject[k].reason = "retrying")
            ~> ~(placement[m] = "pending"
                   /\ \E k \in Queued(m) : pendingInject[k].reason = "retrying")
=============================================================================
