# Orkestrator backend: TLA+ models, checks and proofs

This directory is a verification development for the backend of Orkestrator: the process
that runs coding agents (Claude, Codex, OpenCode, ACP agents and tmux terminals) in
environments, queues and delivers their prompts, carries mail between them, and shares a
machine's expensive work fairly. Paths below are relative to the repository root; `core/`
stands for `apps/backend/src/core/`.

`PROJECT.json` lists the components, the runs, the source lines of every definition, a
mutant for every property, the hazards the properties are aimed at, the findings, and the
theorems.

## 1. Inventory

### How the parts fit together

The backend is one Node process: single threaded, but every `await` is a point where
another flow may run. Its durable state is a set of records (sessions, prompt queues,
mailboxes) that `storage.ts` mutates one at a time: a record mutation is atomic, a flow
made of two mutations is not. Flows that need several mutations of a session hold its
lease (`withNativeAgentSessionLease`). The agents run behind bridges, HTTP servers that
wrap a vendor SDK and outlive a crash of the backend (and the reverse). A bridge keeps a
prompt journal, so that the backend can ask what became of a request id whose answer it
never got, and most keep a steer journal beside it.

    client / API / backend feature           other agents
         |  enqueue, send, steer                  |  send_message, Deliver now
         v                                        v
    durable prompt queue  --drain-->  native   <--drain--  mailbox (pendingInject)
    (storage-prompts)                 session              (storage-agent-mail-injects)
                                      record: pendingDispatch, pendingSteer,
                                              dispatchedRequestIds
                                         |  prompt / steer, under a request id
                                         v
                                 bridge: journals, running turn
    
    every git, docker, build and disk operation  -->  work admission pools
    every periodic sweep, poll and supervisor    -->  recurring-work scheduler

    environment record --delete--> tombstone, cleanup ledger --passes--> host resources
    environment record --move----> journal, fence over its folders
    graph runs  <-- who may use the checkout -->  Build Pipelines

### Components that are modelled

| Component | State it keeps | Operations | What makes it correct |
|---|---|---|---|
| Work admission pools (`core/work-admission.ts`) | `active`, `activeByTarget`, `waiters` with `bypassed`, `closed`, leases | `acquire`, hand-off, `run`, abort, release, `close`, drain | limits hold, no slot idles beside a waiter that could have it, nobody is passed over without bound, nested pools cannot deadlock, `close` strands nobody |
| Durable prompt queue (`core/storage-prompts.ts`, `storage-prompt-queue-store.ts`) | `messages`, `inFlight`, `dispatchError`, tombstones of removed origins | enqueue, replay-safe enqueue, remove, move, reserve, acknowledge, fail, retry, reservation by a steer | an item has one place, is never lost, and is not published again once consumed |
| Native prompt delivery (`core/storage-native-deliveries.ts`, `native-agent-prompt-queue-dispatcher.ts`, parts of `native-agent-service.ts`) | `pendingDispatch`, `pendingSteer`, `dispatchedRequestIds`, attempts, the bridge's journals | composer send, queue drain, steer of a queued or typed message, settlement, retry and discard of what is parked | a message is delivered once, never lost, and every reservation and settlement ends, across crashes, lost answers and bridge restarts |
| Agent mail delivery (`core/storage-agent-mail-injects.ts`, `agent-mail-service.ts`, mail half of `native-agent-service.ts`) | `pendingInject` entries, placements, the session's two journals | arrival, claim of a batch, steer or dispatch, verification, release by a user, restart recovery | queue and placements agree, a message reaches the agent once, one shown as delivered did reach it, claims and verifications end |
| Environment deletion (`core/environment-delete.ts`, `environment-cleanup*.ts`, `environment-deletion-steps.ts`) | the record with its tombstone, the cleanup ledger (`pending`, `attempts`, `attemptedVersions`), lifecycle queues, the state of the reconcile passes | delete, cleanup steps with deadlines, passes, backoff, re-arming by a new version, shutdown, restart | what a delete could not remove is never forgotten, is removed in a safe order, and is retried |
| Recurring-work scheduler (`core/recurring-scheduler.ts`) | entries (due time, `dirty`, `bypassed`, `running`), orphans, two counters, one timer, a queued pump | register, replace, update, invalidate, request, pause, remove, host resume, dispose, pump, settlement | one run per key, limits and reserves hold, no wake-up is lost, a change is followed by a later run |
| Workspace sharing (`core/workspace-writers.ts`, admission in `graph-run-scheduling.ts`, `graph-run-pass.ts`, `graph-run-service.ts`, stage starts of `build-pipeline-service-supervisor.ts`) | the lock table of graph runs, the projection of pipeline records, claims | passes, saves, seeding scans, stage claims, notes and late reads, restart | one writer or any readers, across the two engines; the tables agree with the store |
| Environment move and fence (`core/environment-move.ts`, `environment-replacement-fence.ts`, reservation of `workspace-code-rewind.ts`) | holds of the fence, `worktreeMove` journal, folders, git's record | holds, reservation, move by git, rename or copy, rollback, recovery at startup | nothing writes while folders move, no edit is lost, record, folder and git agree |
| Keyed trailing flight (`core/keyed-trailing-flight.ts`) | one lane: the run in flight and the queued run | `run`, settlement | a caller is answered by a run that started after it asked |

### Components that are not modelled

`PROJECT.json` names every one with the reason. In short:

* candidates for further modules: the tmux prompt queue drain, scheduled jobs, the planner
  and executors of graph runs, multi-review scheduling, coordinator status wakes, event
  fan-out and replay;
* mostly input and output, or formats: the remote gateway, storage files, change tracking,
  MCP management, the control MCP server, web annotations, the clients;
* external: the bridges' SDKs, Docker and git. The models use the bridge as a provider that
  may accept, refuse, answer late or not at all, and restart without its outcomes.

### Which behaviours are hard

* **Crash between two durable writes.** Settling a steer of a queued item is three writes
  in two records; a mail batch is claimed and settled one write per message.
* **Accepted without an answer.** Retry, journal look-up, bridge restart and a user's
  "retry" or "discard" all decide what became of the same request.
* **State read before an `await`, used after it.** The drain reserves long after it read
  the queue; a mail pass claims siblings out of a snapshot.
* **Two journals.** A request may have gone out as a steer or as a prompt; each recovery
  path must ask the right one under the right id.
* **A record that goes before its resources.** Deletion removes the environment's record
  although cleanup steps failed; a move commits a path while the old folder still exists.
  What a restart finds has to tell the whole story.
* **Tables in memory about records on disk.** Lock tables, projections and claims are empty
  after a restart, and are filled by scans that race what they scan.
* **Waiting.** Nested admission pools, classes of priority, backoff, verification and
  retry timers: somebody must always go on.

## 2. Modules

| Module | Contents |
|---|---|
| `WorkAdmission` | the pools: one action per branch of `acquire`, per release, abort, `close`, and per iteration of the drain loop |
| `PromptQueue` | the queue record and its mutations, as operators on `messages`, `inFlight`, `dispatchError`, `removedOrigins` |
| `PromptDelivery` | extends `PromptQueue`: session record, flows, provider, crash and restart |
| `DeliveryPromise` | abstract: what delivery to a session promises about each message; implemented by `PromptDelivery` |
| `AgentMail` | one native mailbox, the injector, the session's journals, provider, crash and recovery |
| `EnvironmentDeletion` | the delete task, the cleanup ledger, the reconciler, shutdown and restart |
| `DeletionPromise` | abstract: what a deletion promises about a host resource, in four actions; implemented by `EnvironmentDeletion` |
| `RecurringScheduler` | the scheduler of keyed recurring work |
| `WorkspaceSharing` | graph runs and Build Pipelines that share one checkout |
| `EnvironmentMove` | the fence and the journaled move of a worktree |
| `TrailingFlight` | one lane of `KeyedTrailingFlight` |
| `FreshAnswer` | abstract: a caller is answered by a run that started after it asked; implemented by `TrailingFlight` |
| `WorkAdmissionProofs`, `PromptDeliveryProofs`, `AgentMailProofs`, `EnvironmentDeletionProofs`, `RecurringSchedulerProofs`, `WorkspaceSharingProofs`, `EnvironmentMoveProofs` | theorems about one component |
| `CoordinationProofs` | theorems about `TrailingFlight` and about the composition `MCCoordination` |
| `MCWorkAdmission`, `MCPromptDelivery`, `MCAgentMail`, `MCCoordination` | symmetry sets, constant values and the composition for TLC |

Definitions that follow a comment "Mutant of X" are altered forms of `X` and appear in no
action; each breaks the property `PROJECT.json` pairs it with.

### WorkAdmission

A caller is one asynchronous flow. It acquires pools in nested `run()` calls and passes the
leases it holds as `holding`; `nest[c]` is that stack, `slot[c][p]` the granted lease.
`waitsIn`, `request`, `bypassed` and `ahead` stand for the `waiters` array: `ahead[c]` is the
set of waiters with a smaller `seq`. `AcquireHandOff`, `AcquireRefused`, `AcquireNow` and
`AcquireWait` are the branches of `acquire`, in the order of its early returns. `drain()` is
a synchronous loop; it is one `DrainGrant` per iteration and a `DrainEnd`, and every other
action waits for `draining = NoPool`, so no other flow sees the loop half done. Metrics,
`status()` and wait-time recording are left out.

### PromptQueue and PromptDelivery

One session and its queue. A request id is `<<item, mint>>`: an item that is retried after a
retirement gets a new id (`mint`). Items are of four sorts, since the code treats them
differently: `Api` (a public-API client, replay-safe enqueue), `Origin` (authored by a
backend feature, with a tombstone), `Answers` (answers to asynchronous questions, Codex
only) and ordinary ones. `Prompts` and `Steers` are composer prompts and typed steers.

Four flows interleave: `drain`, `composer`, `steer`, `settle`. `proc[a].at` is the `await` a
flow stands at. `lease` names the flow that holds the session lease over several steps.
Each durable write and each provider call is a step, so a `Crash` falls between any two. It
drops flows, lease and attempts and keeps the records and the provider.

* Drain: `DrainStart` (a pass finds work), `DrainWait` (draft, hold, busy), `DrainProbe`
  (status of the bridge), `DrainReserve`, `Dispatch`, `Send`, `Record`, `Acknowledge`,
  `DrainRefuse`, `DrainFail`, `deferQueue`.
* Composer: `ComposerSend`, then the same `Dispatch`/`Send`/`Record`, `ClearRefused`;
  `RetryParked` and `DiscardParked` are a user's decisions on `pendingDispatch`.
* Steer: `SteerQueued`, `ReserveSteer`, `ReserveSteerRecord` (the reservation's second
  write), `SteerPrompt` (typed), `SteerOnce`, `SteerSend`; `RetrySteer`, `DiscardSteer`.
* Settlement: `SettleSteer`/`Recover`/`Reconcile`, then `Intent`, `Source`, `Finish`: the
  three writes of `completePendingSteer`. `SettleDispatch`/`Status`/`Verdict` settle a
  parked prompt against the bridge's journal.
* Provider (external): `accepted` and `lost` are the prompt journal, `steered` the steer
  journal, `turn` and `open` the running turn. `SharedJournal` is TRUE for Codex, whose
  steers are looked up in the prompt journal as well.

`removed`, `discarded`, `placed` and `unsure` are history variables for the properties:
`unsure` collects ids that were steered while an earlier dispatch of them was unsettled.

`DeliveryPromise` says what all this is for, without flows, leases, reservations, journals and
answers: an item is published, and leaves the queue because a user took it out (`Withdraw`) or
because it reached the provider or its steer was dropped (`Consume`); a prompt or a steer is
parked on the session's record, one at a time and never one with a receipt (`Park`), and may be
given up (`GiveUpPrompt`, `GiveUpSteer`: not a steer that joined a turn, unless a user drops it,
`DropSteer`); the provider makes a turn of the parked prompt, or of an item while nothing is
parked (`Run`), or joins the parked steer to a turn (`Join`), never after a receipt, and both of
one id only at a user's risk (`Risk`); a receipt is of something that reached the provider
(`Receipt`). `KeepsDelivery` maps `queued` to the items that wait or are reserved (`HeldItems`),
`ran` to what opened a turn, remembered by the journal or lost with it (`Turned`), `joined` to
the steer journal, `prompt` and `steer` to `pendingDispatch` and `pendingSteer`, `receipts` to
`dispatchedRequestIds`. The reservation of an item, its steer and its restoration are stutters
of the queue: the item stays held until one of the writes that consume it.

### AgentMail

One native mailbox and its session. `pendingInject` is the store's list of entries
(`verify`, `tries`, `steer`, `steerId`, `held`, `deferred`, `reason` for the fields the code
reads); `drain` is the injector's pass: its snapshot and place in it, the claimed batch, the
steer id, and the result to settle. The store lists pending entries in the order it sorts them
by (`Before`); the snapshot of a pass is that sorted list. The messages of one batch are
settled one write each, in any order. `drainInjects`, `VerifyAsk`/`VerifyClaim`, `Skip`,
`Approach`/`ApproachSteer`, `Claim`, `Gather`, `GiveBack`, `SteerRecord`, `SteerSend`,
`SteerOutcome`, `DispatchEarly`, `Dispatch`, `Hold`, `Send`, `Record`, `RecordRefusal`,
`Release` and `SettleOne` are the pass in its order. `Crash` puts the injector `down`;
`InitAsk`, `InitSteer` and `InitDone` are the recovery in `init()`. Beside the pass run
`sendAgentMail`, `retryAgentMailInject`, `clearAgentMailSteerRequest`, the settlement of
ambiguous dispatches and steers, a user's retry and discard of a parked dispatch, and typed
prompts (`dispatchIntent`).

History: `seen` counts how often the agent got each message, `offered` the messages each id
was offered with, `resent` how often a user sent a message again knowingly, `strays` the
siblings of a batch whose refused steer was sent as a prompt (finding 2 below).

### EnvironmentDeletion and DeletionPromise

A delete is a task on the lifecycle queue of its environment (`queue`), and `todo[e]` is the
set of statements it still has before it, in the order of `Position`: the tombstone, the
ledger entry, one statement per cleanup step that applies (`Owns`), the removal of the
record, the end. A retry of the reconciler is a task on the same queue whose `todo` is what
the entry names. `StepSucceeds`, `StepRefused`, `StepFails`, `CompletionUnrecorded` and
`Deadline` are the outcomes of `runEnvironmentCleanupStep`: a failed step may have had its
effect. A pass is `List`, `ReadLive`, one decision per entry (`Rearm`, `SkipExhausted`,
`Defer`, `QueueRetry`, `RetryNotAdmitted`) and `EndPass` or `PassThrows`; `rerun` and `timer`
are the scheduler's. Time is abstract: an entry that was attempted is not due until
`BackoffPasses`. `Restart` keeps record, host and ledger, deletes again what carries a
tombstone and starts a pass, possibly under another version.

`DeletionPromise` says it without tasks, passes and faults: an environment is condemned, its
resources become owed, attempts remove a resource and strike it off only when it is settled
and after what has to go before it, and the record goes only when the rest is owed.

### RecurringScheduler

One action per branch of `register`, `request` and `settle`, and one per other operation.
A key is `due`, due `later` or `idle`; `TimePasses` makes one due. The pump is a synchronous
loop: `PumpBegin`, one `PumpStart` per start, `PumpEnd` (which arms the timer), and nothing
else meanwhile. `runs[k]` are the operations that have really not settled, `job[k].run` and
`orphan[k]` what the scheduler believes about them. `unseen` is history: keys invalidated
since their last run started.

### WorkspaceSharing

One environment. `act[g][i]` is what is stored and true of an activation, `lock` the graph
side's table; `stored` is a pipeline's record, `entry` its image in `WorkspaceWriters`,
`using` what its agent really does. A graph pass is `PassBegin`, rounds of `PassAdmit`
(decision and reservation in one step, as in the code) and `PassSave`, starts, and `PassEnd`
from wherever it stands, since a save may be fenced or refused. A pipeline claims, saves,
sends, and releases in separate steps. `notes` are reads under way, applied in any order.
`RestartBackend` empties the tables and leaves records and agents alone.

### EnvironmentMove

`held[k]` counts the holds of the fence, `mover` who has reserved it. The move is a program
counter `at` over the `await`s of `moveEnvironmentOnce`, `journal` what is on the record and
`rec` the move's own copy; `disk[f]` is absent, partial, or a whole checkout with so many
edits. Every command and write may fail with or without its effect (`WriteRejected`: a store
write can be published and still reject). `MoveCrash` may fall anywhere; `Adopt`, `Abandon`
and `RecoveryFails` are the recovery. A rewind borrows the fence (`BeginRewind`,
`BindRewind`, `EndRewind`).

### TrailingFlight, FreshAnswer and MCCoordination

`AdvanceLane` is separate from `WorkSettles`, because the `finally` of `execute` runs in a
later microtask than the work's own settlement, and callers may arrive between.

The five components above share no state. `MCCoordination` extends them all and lets each
behaviour exercise one (`focus`), so that their state spaces add up.

## 3. What the runs check

| Run | Instance | Shows |
|---|---|---|
| `admission` | 2 pools, 3 callers, 2 targets, 2 classes; one slot, two waiters, starvation limit 1, hand-offs | `TypeOK`, `SlotsBounded`, `NoIdleSlot`, `StarvationBound`, `ClosedHasNoWaiter`, `WaitsInOrder` |
| `admission_nested` | 2 nested pools, 3 callers, 2 classes, fair | `EveryWaitEnds` |
| `prompt_queue` | an API item and a backend item, a composer prompt, separate journals, one crash, one bridge restart, 4 client calls | `TypeOK`, `DeliveredOnce`, `NothingLost`, `OnePlace`, `OneJournal` |
| `prompt_codex` | an API item, an answer, a typed steer, a composer prompt, shared journal, one crash, one restart, 3 calls | `DeliveredOnce`, `NothingLost`, `OnePlace`, `KeepsDelivery` (implements `DeliveryPromise`) |
| `prompt_live` | one item, a composer prompt, 2 attempts, one crash, 3 calls, fair | `ReservationEnds`, `SettlementEnds` |
| `mail_queue` | 2 messages in one batch, a steer, one crash, one bridge restart | `TypeOK`, `PendingHasEntry`, `VerifiesTheCarrier`, `MailOnce`, `InjectedWasSeen` |
| `mail_live` | one message, a steer, a release, a recovery decision, a typed prompt, one crash, fair | `PendingHasEntry`, `MailOnce`, `ClaimEnds`, `VerifyEnds` |
| `coordination` | see below; two faults or three, restarts and crashes in every component that has them | `TypeOK`, `NothingForgotten`, `RetryScheduled`, `KeepsPromise` (deletion); `RunsAccounted`, `NoLostWake`, `InvalidationAnswered` (scheduler); `OneWriter`, `LocksFollowStore` (sharing); `MoveExcludes`, `EditsKept`, `GitFollows` (move); `AnswersAreFresh` (flight) |
| `prompt_steered_again`, `mail_twice`, `mail_unseen`, `mail_refused` | see findings | violated |

### Bounds and why they are enough

Every unbounded counter has a named bound: `MaxNested`, `MaxMint`, `MaxAttempts`,
`MaxCrashes`, `MaxRestarts`, `MaxCalls`, `MaxBatch`, `MaxVerify`, `MaxSteers`, `MaxReleases`,
`MaxRecoveries`, `MaxTyped`, `MaxFaults`, `MaxStarts`, `MaxRevision`, `MaxHolds`, `MaxEdits`,
`MaxMoveFaults`.

* Admission: saturation needs one slot, passing over needs a holder and two waiters, a
  circular wait needs two pools. `MaxNested` bounds only hand-offs; `admission_nested` sets
  it to zero, so a caller nests both pools there but is never handed its own slot.
* Prompts: the record has one `inFlight`, one `pendingDispatch`, one `pendingSteer`, so two
  items and a competitor fill every place; four calls let both items be queued, one be
  steered and a prompt be typed. A crash and a bridge restart may fall anywhere and in
  either order. A second crash meets the same records as the first, since recovery writes
  only states that the flows write as well.
* Mail: the hazards are about one claimed message and one sibling. `MaxVerify = 1` still
  reaches both verdicts (asked again, given up). `mail_queue` has no user decisions and
  `mail_live` has all of them with one message; both at once exceed TLC's reach in minutes.
* Deletion: a local environment (worktree, branch) and a container one (container, volumes),
  so both orders that matter are there; an attempt cap of 2 and three faults let an entry be
  retried, deferred, exhausted, and re-armed by the second version after the one restart.
  The third fault is kept for behaviours with one deleted environment (`FaultsShared`).
  Networks are treated as volumes are, and kept branches change no task; both are covered by
  the proofs, whose constants are arbitrary.
* Scheduler: two keys, a class each with a pool, a reserve and neither; limits of 1 and 2,
  so that every refusal, a full pool, a full class and a starving key occur.
* Sharing: a writing and a reading run and one pipeline with three saves: setup, a stage,
  and its end or a second stage; one restart.
* Move: two folders, so a worktree can go and come back; two edits tell an old copy from a
  new one; two faults (a failing command and a failing rollback), two crashes (one during
  recovery).
* Flight: three callers: one in flight, one queued, one that finds the queue taken.
* Symmetry is used for callers, targets and messages in runs without temporal properties.

### Fairness

* `WorkAdmission`: the drain loop is synchronous, so it ends (weak fairness); the work of a
  lease settles, whatever it nests (strong fairness per depth of the nest, because the work
  of an outer lease goes on only after the inner one). Nothing forces acquisitions, aborts
  or `close`.
* `PromptDelivery`: a started flow goes on (every provider call has a timeout, so it
  answers or fails), turns end, the retry timer starts passes; `SettleSteer` runs because
  the projection of a session is read by its clients and by the backend's refresh. Strong
  fairness of `DrainProbe`: a pass that keeps coming is not kept waiting every single time.
* `AgentMail`: the injector's interval starts passes, backoffs elapse, a restarted backend
  runs `init`, and a tab that is idle again and again is met idle (strong fairness of
  `Approach`). Nothing forces a user.

`coordination` checks safety and states no fairness: that a retry, a pump or a follow-up run
has its cause in place is the invariant (`RetryScheduled`, `NoLostWake`), and that timers fire
and promises settle is Node's part.

`CHECK_DEADLOCK FALSE` stands where the system may rest: an empty queue, nothing left to
delete, a disposed scheduler, every caller answered, or bounds used up.

## 4. What is proved

`tlapm` checks every proof; the constants are arbitrary apart from the named assumptions.

**`WorkAdmissionProofs`** (from `PoolAssumption` and `LimitAssumption`): `TypeCorrect`,
`SlotsAlwaysBounded`, `NeverIdleSlot`, `StarvationAlwaysBounded`, `ClosedNeverStrands`,
`AlwaysWaitsInOrder`. None is inductive alone. The invariant `IInv` adds:

* `Accounting`: the counters are the cardinalities of the holders, so that the limits of
  `canGrant` speak about leases; with `NestBacked` (a slot is held exactly for the leases on
  the stack) a release pops a lease that is really counted.
* `OnlyDrainingIdle`: an eligible waiter exists only in the pool that is draining, which
  gives `NoIdleSlot`; `WaitersAsk` ties a waiter to its request.
* `QueueOrder` (`ahead` is a strict order of the waiters of one pool), `QueueBounded` (at
  most `MaxWaiting`) and `BypassBudget`: a waiter passed over more than the limit has
  spent, for each extra time, one waiter that was ahead of it. This is the heart of
  `StarvationBound`: past the limit only an older starving waiter can be preferred, and it
  leaves the queue by that.
* `ClosedHasNoWaiter` and `WaitsInOrder` are inductive beside these.

**`PromptDeliveryProofs`** (from `ItemAssumption` and `DeliveryAssumption`):
`OneJournalAlways`, `DeliveryTyped`, `DeliveredOnceAlways`, `NothingIsLost`, `AlwaysOnePlace`
and the refinement `DeliveryKeepsPromise`, for any items, prompts, clients, crashes and restarts, with separate or shared journals.

* A flow checks the other journal when it takes the lease and writes several steps later, so
  `OneJournal` needs to know what cannot happen between: `FlowShape` (which flow can stand at
  which location), `LeaseHeld` (a location inside a critical section implies that the flow
  holds the lease, so two flows are never there together), `SteerAlone` (while a steer is
  between its check and its record no prompt is parked) and `DispatchAlone` (the same the other
  way round). Their conjunction with `OneJournal` is `JournalInv`.
* `DeliveryInv` adds what each flow knows at each `await` (`AllKnow`): at `sending` its request
  is not on record as dispatched; at `record`, `ack` and `confirm` it did reach the provider;
  while a steer is settled, the decision the flow carries (`applied`, `restore`, `discard`) is
  true of the provider (`Settled`). `RecordInv` says the same of the durable record, which is
  what a crash leaves: everything in `dispatchedRequestIds` reached the provider, and every
  steered request is on record, dropped by a user, or still parked. A steer delivers nothing
  that already ran unless the id is marked `unsure` (`Steerworthy`).
* `NothingLost` and `OnePlace` go with these through every queue mutation. The queue operators
  remove by position (`Without`), so the facts about them are stated for one position and
  need no induction over the list.
* For the refinement, `PromisedInv` adds what entitles a step beyond what the safety properties
  need: a parked steer, or one about to be parked, has no receipt (`NotYet`); a flow between
  `Dispatch` and its send, or with an accepted answer it has not recorded, works for the parked
  prompt, or is the drain with nothing parked, and the drain's item was asked for
  (`AllEntitled`); what is held was published. Only the holder of the lease changes what
  another flow is entitled by (`Undisputed`). The queue lemmas state the exact effect of each
  mutation on `HeldItems`, so that an action of the queue is one of `Publish`, `Withdraw`,
  `Consume` or a stutter; each action of `Next` is then one step of `DeliveryPromise`.

**`AgentMailProofs`** (from `MailAssumption`): `MailTyped`, `PendingAlwaysHasEntry`,
`AlwaysVerifiesTheCarrier`, and under the conditions below `MailOnceUndisturbed`,
`InjectedWasSeenCalm`, `MailOnceAlways`, `InjectedWasSeenAlways`, for any messages, batch sizes, releases, steers, crashes and
restarts. A pass works from a snapshot of the list while senders, users and recoveries change
the store, so `MailInv` relates the two:

* `StoreInv`: entries are unique by id, a message has an entry exactly while it waits or is
  claimed, and the id an entry is to be verified under is one it was offered under.
* `Fresh`: the snapshot's attempt count of what is still to be verified is not lower than the
  store's, since nobody but the pass counts; `Ahead`: the claimed batch holds nothing that the
  pass has still to verify; `BatchInv`: a claim has attempts left. From these the stored count
  never passes its maximum by more than one, although the pass decides by the snapshot.
* `ResultInv`: the id a result names carried the whole batch, up to the step that settles it;
  `LeaseInv`: the row or steer opened under the lease is still there when its answer comes.

`MailOnce` and `InjectedWasSeen` are not true of every behaviour (findings 2 and 3 and the last
items of section 5), so the theorems name the behaviours they are true of. A behaviour is
`Lossless` so far when nobody has decided on a parked dispatch and no bridge has restarted, and
`Calm` when nobody has released a message or decided on a parked dispatch, and typed prompts,
steers and bridge restarts have not all three happened. `MailOnceUndisturbed` holds in both
kinds, `InjectedWasSeenCalm` in calm ones; both with any number of crashes. `MailOnceAlways` and
`InjectedWasSeenAlways` state the same by the bounds that exclude such steps, which are those of
`mail_queue`. `OnceInv` is what a message must satisfy before it can be offered:

* `Free` messages are those that may be offered: the agent has not got them, and in a calm
  behaviour no id that went out, or may have gone out, is theirs. `SeenOnce` says that every
  message without a carrier is free, `EntriesOnce` what the id an entry is verified under says
  of it (the id arrived, or the message is free), also for a steer that was refused and sent
  as a prompt.
* A pass acts on what it read, so the same is said of its snapshot and the answers it keeps
  (`SnapshotOnce`), of its batch between two awaits (`BatchOnce`, `ClaimsOnce`, `OpenOnce`), of
  the result it has still to settle (`ResultsOnce`), of the steer id it took (`SteerIdOnce`)
  and of the answer a restart has got and not yet written (`AskedOnce`).
* `RowOnce` ties the session's record to the bridge. In a lossless behaviour every mail id the
  bridge got is on record as dispatched or still parked, so "not dispatched" is a true answer.
  In a calm one the journal may be gone, but an id is not offered twice, and where a steer's
  fallback relies on the one slot for retired ids (`retiredDispatch`), no typed prompt clears it.

**`EnvironmentDeletionProofs`** (from `DeletionAssumption`): `NothingIsForgotten`, the
refinement `DeletionKeepsPromise`, `RetriesAreScheduled` and `DeletionTyped`. `DeletionInv` says for each environment that from the
ledger write on everything left on the host is owed or a kept branch (`Covered`), which
alone is not preserved: a branch step must not run while the worktree is there, or "kept"
would be struck off a branch that is only checked out. `TaskInv` states it by what the
running task has still before it, `QueueInv` that a delete is first in its
queue and holds the guard, `DeleteInv` how the record and the entry follow its progress,
`PassInv` that a pass retries only entries whose record is gone. Every action is then a step of
`DeletionPromise` or leaves its variables alone. `RetryScheduled` is inductive only beside
`RetryInv`: at most one retry is in all the queues, the one the pass waits for (`OneRetry`); a
retry that has not started finds an entry with an attempt left (`AttemptInv`), so an entry that
a pass counts on is not exhausted behind its back; the timer is armed only between passes and a
rerun asked for only during one (`TimerInv`).

**`RecurringSchedulerProofs`** (from `SchedulerAssumption`): `InvalidationIsAnswered`,
`RunsAlwaysAccounted`, `WakesAreNeverLost`, `SchedulerTyped`. `SchedulerInv`: an unsettled
operation of a key is the one its entry or its orphan names, and never both, so a start finds
none; a key in `unseen` is registered. On top of it `NoLostWake` is inductive: a step that
queues no pump leaves the startable keys alone, or makes one startable that the timer was armed
for. `SlotInv` counts keys instead of operations: as a key has one operation at most, both
counters are cardinalities of sets of keys (`Holders`), which grow by one key when a run starts,
shrink by one when it settles, and stay when a run is fenced, removed or adopted.

**`WorkspaceSharingProofs`** (from `SharingAssumption`): `LocksAreTheStore`, `AlwaysOneWriter`,
`SharingTyped`. `LockInv` begins before the seeding: `Synced` (a run between its passes has the
lock its record says as soon as one pass has touched it) and `Untouched` (a run that no pass has
touched is in the store as an unfinished scan has read it), which is what makes a seeding right
that visits old reads. `OneWriter` needs both tables to cover what is really going on:
`RunInv` (outside the gap a seeded lock has every activation that runs, is admitted, or is
about to be by a save under way) and `PipeInv` (the projection is never ahead of the store; once
seeded or about to be it has the record, or a claim stands for the save it has not seen; an
agent does what the record says). `Apart` then says of the two tables what `OneWriter` says of
the agents.

**`EnvironmentMoveProofs`** (from `MoveAssumption`): `FenceExcludes`, `EditsAreKept`,
`GitAlwaysFollows`, `MoveTyped`. `FenceInv` ties the program counter to who has reserved the
fence and whether the folders are bound, and splits the holds in those a reservation excludes
at once and path writes, which only the binding excludes. `FilesInv` says for every location
where the checkout is and what the journal on the record knows: `Recovers` (whatever journal a
crash leaves, the phase it names and the folders decide rightly between adopting and
abandoning), `Source`, `Moved` and `Destination` (which folder is whole before the move, during
a rename, a copy or a rollback, and after the commit), `FilesUntouched` (outside of a move the
record's folder is whole and known to git, also beside a journal that a rejected write left).

**`CoordinationProofs`**: `LaneImplementsFreshAnswer`, from `LaneInv` (a lane has callers in
flight, and without a lane nobody is in flight or queued), `FlightTyped`, and for the
composition `ComponentsCompose`: a behaviour of `MCCoordination` is a behaviour of each of its
five components, so each of their theorems holds of what `coordination` checks; with them
`CoordinationTyped`.

Between them the theorems state every invariant, action property and refinement that a passing
run checks, for every value of the constants; `MailOnce` and `InjectedWasSeen` under the
conditions named above.

### What is only model-checked

* Every liveness property: `EveryWaitEnds`, `ReservationEnds`, `SettlementEnds`, `ClaimEnds`,
  `VerifyEnds`. TLAPS does not prove liveness under fairness, nor anything with ENABLED.
* `MailOnce` and `InjectedWasSeen` outside of the conditions of their theorems, where they are
  not true for every value of the constants: larger instances reach the divergences about
  `retiredDispatch`, released claims and discarded dispatches at the end of section 5, and
  `mail_unseen` shows `InjectedWasSeen` fail after a release. `mail_live` checks `MailOnce` with
  one message and a user's decision on its parked dispatch, which no theorem covers.

## 5. Findings

Each is shown by a run that TLC ends with a counterexample; the quotations are in
`PROJECT.json`.

1. `prompt_steered_again` (`core/storage-native-deliveries.ts:514`). A queued message whose
   send was accepted without an answer is put back after the last attempt. It is not in
   `dispatchedRequestIds`, so it may be steered: with separate journals it is delivered twice.
   `DeliveredOnce` excludes exactly these ids (`unsure`) and holds for all others.
2. `mail_twice` (`core/native-agent-service.ts:3259`). A "Deliver now" batch that falls back
   to an ordinary dispatch goes out under the first message's id. After a crash the sibling is
   looked up under its own id, which was never used, and is sent again. `MailOnce` excludes
   exactly these siblings (`strays`).
3. `mail_unseen` (`core/storage-native-deliveries.ts:149`). A user's retry of a message that
   was delivered after all takes a new sibling along; the dispatch is deduplicated and both
   count as delivered. `InjectedWasSeen` holds without such a retry (`mail_queue`).
4. `mail_refused` (`core/native-agent-service.ts:3371`). A prompt the bridge rejects leaves
   `pendingDispatch`, and the delivery gate then reads the tab as working: the retry waits
   for a user.

Smaller divergences between comments and code, met while modelling and modelled as the code
has them, without a run:

* `work-admission.ts` says a starving waiter is granted next regardless of class. When
  several starve, the oldest goes first; the bound that holds is
  `starvationLimit + maxWaiting - 1`.
* `reservePromptQueueHeadForDispatch` returns an existing reservation, also one a steer made
  (cf. `storage-native-deliveries.ts:666`); the drain then holds the steer's item, and the
  session's parked steer is what keeps it from being sent.
* A replayed enqueue that falls between the queue write and the session write of a
  steer's settlement publishes the item again (cf. `storage-prompts.ts:346-352`); the request
  id then deduplicates it.
* The `dispatchError` latch outlives a failed head that is steered out of the queue (cf.
  `storage-prompts.ts:403-404`).
* A reconcile pass that throws, and a delete that throws after it removed the record, ask for
  no further pass (`environment-cleanup-reconciler.ts:869`, `environment-delete.ts:432`): the
  entries wait for the next delete or the next start. `RetryScheduled` names them (`stalled`).
* `graph-run-scheduling.ts:497-499` says that startup recovery seeds every run's holds before
  any admission. A run that a pass has touched is passed over by the seeding
  (`graph-run-service.ts:346`), and while that pass is still under way its lock is empty; in
  this window another run or a pipeline may be admitted beside its activations. `OneWriter`
  names the window (`gap`).
* `environment-move.ts:473-474` says of the rename that a failed rollback keeps the journal
  whatever paths exist. The copy's own `catch` (`environment-move.ts:292`) has no such rule:
  when the copy is gone again and its `git worktree repair` fails, the move counts as rolled
  back and git may still have the removed folder on record. `GitFollows` names the case
  (`unrepaired`).
* A user who retries a parked mail dispatch and also presses "Deliver now" can send it twice;
  the model counts that as the user's decision (`resent`).
* The session keeps one retired dispatch (`retiredDispatch`), and the acceptance of any later
  prompt clears it (`storage-native-deliveries.ts:256`, `:380`). A "Deliver now" that fell back
  to a dispatch, was accepted, and lost its record to a crash and the bridge's journal to a
  bridge restart is protected by that slot alone: if a typed prompt is accepted before the
  mail service recovers, the recovery reads "not dispatched" and the message is sent again.
* A batch that was accepted without an answer and whose first message is given up after a bridge
  restart is no longer told from a refused one, once a user has released that message, a typed
  prompt has cleared the slot, and the bridge then refuses the message
  (`native-agent-service.ts:3903`): the sibling's verification reads the refused row as "not
  dispatched" and the sibling is sent again.
* A "Deliver now" that fell back to an ordinary dispatch leaves its row to the restart's recovery
  (`native-agent-service.ts:3255-3262`). If a user discards the parked dispatch before the
  recovery has asked (`discardRecoverableDispatch`, `native-agent-service.ts:2194`;
  `agent-mail-service.ts:289-307`), the missing row reads "not dispatched" although the prompt
  was accepted: the message is queued again and can go out under another message's id.

## 6. What is left out, and the plan

Left out of the modelled components:

* queue: legacy outstanding claims, the whole-list save with its revision check, goal items,
  job receipts, compose drafts (a drain may wait for one at any time, `DrainWait`), tmux
  submission fences;
* delivery: the 1000-id cap of `dispatchedRequestIds`, sign-in resends, goal continuations,
  handoffs, launch fences, acknowledgement of blank text;
* mail: tmux and pipeline mailboxes, coalescing holds, the loop budget, worker starts,
  expiry, failing store writes, the lengths of backoffs.
* deletion: the error texts on the record, deletion after a merge, the hourly orphan sweeps,
  the cap of the ledger, a pass asked for after shutdown began (its retries are refused);
* scheduler: metrics, `status()`, the report of `dispose`, exceptions of the timer factory,
  and what a run asks in its first synchronous stretch, taken as asked right after the pump;
* sharing: bespoke Multi Reviews (in the projection, but they never claim), deletions of
  records, code rewinds and cancellations, more than one environment, and everything of a
  graph run that is not its use of the checkout;
* move: the identity of the source folder and the `sourceCleaned` mark (nobody else uses the
  folders of the model), commands of a reservation's own owner, relocation of conversations
  beyond whether it failed; the idle checks of agents are one variable, `turn`;
* flights: `KeyedSingleFlight`, which joins whatever runs.

### Not modelled

Most of the repository is outside of what these models can be faithful to: the clients,
the bridges around vendor SDKs, transcript projection, protocol schemas, configuration
formats and the gateway are data conversion and input or output, whose correctness is in
formats and not in orders of events. `PROJECT.json` gives the reason for each part.

Plan, in this order:

1. The tmux drain (`core/prompt-queue-drainer.ts`) on top of `PromptQueue`: delivery without
   a journal.
2. Scheduled jobs and their catch-up; multi-review scheduling; status wakes; event replay.
3. `AgentMail` as an implementation of an abstract specification of delivery, as
   `PromptDelivery` is of `DeliveryPromise` (each message waits, then is delivered once or given
   to a user to decide).

Components that share no state share a run (`coordination`), so that the number of runs stays
at one per question.

Proofs to come: the refinement of item 3.
