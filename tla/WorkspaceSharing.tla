------------------------- MODULE WorkspaceSharing --------------------------
(***************************************************************************)
(* Who may use the checkout of one environment: graph runs                 *)
(* (GraphWorkspaceLocks and selectGraphAdmissions of                       *)
(* graph-run-scheduling.ts, graph-run-pass.ts, graph-run-service.ts)       *)
(* beside Build Pipelines (workspace-writers.ts and the stage supervisor). *)
(*                                                                         *)
(* Each side keeps an in-memory table of what it uses: graph runs their    *)
(* lock table, pipelines a projection of their stored records plus the     *)
(* claims of stage starts under way.  Each asks the other's table before   *)
(* it starts.  Both tables are empty after a restart, while the stored     *)
(* records and the agents are not, and are seeded by a scan of the store.  *)
(*                                                                         *)
(* A run's activations are its nodes, once each, in record order.  The     *)
(* run's own limits (agents, sessions, tokens) may hold back any of them.  *)
(* Bespoke Multi Reviews are in the projection as pipelines are, but never *)
(* ask before they start; they are left out, as are deletions of records,  *)
(* code rewinds and cancellations.                                         *)
(***************************************************************************)
EXTENDS Integers, Sequences

CONSTANTS
    GraphRuns,       \* graph runs of the environment
    Nodes,           \* Nodes[g]: the workspace access of g's nodes, in order
    Pipelines,       \* Build Pipelines of the environment
    MaxRevision,     \* bound: saves of a pipeline's record
    MaxRestarts      \* bound: restarts of the backend

Accesses == {"read", "write"}

ASSUME SharingAssumption ==
    /\ Nodes \in [GraphRuns -> Seq(Accesses)]
    /\ MaxRevision \in Nat /\ MaxRestarts \in Nat

VARIABLES
    act,             \* act[g][i]: the activation of node i of run g; "admitted" is
                     \* stored before it runs, "ended" is not yet observed
    lock,            \* GraphWorkspaceLocks: the activations each run holds it with
    graphSeeded,     \* workspaceSeeded
    passed,          \* runs a pass touched before the seeding
    graphScan,       \* {} or the holds of the runs as the discovery has read them
    graphPass,       \* the pass over each run: where it is, and what it will save
    stored,          \* each pipeline's record: its phase and its revision
    entry,           \* WorkspaceWriters.entries, or NoEntered
    claim,           \* claims: the use a stage start has claimed, or "none"
    opened,          \* pipelines whose stage start has saved its session
    notes,           \* reads of a record whose result has not been applied
    scan,            \* the records the seed scan read, or {} outside a scan
    writersSeeded,   \* WorkspaceWriters.seeded
    using,           \* what each pipeline's agent or setup does in the checkout
    gap,             \* history: the graph side was seeded without a run's holds
    restarts

sharingVars == <<act, lock, graphSeeded, passed, graphScan, graphPass, stored, entry, claim,
                 opened, notes, scan, writersSeeded, using, gap, restarts>>
graphVars == <<act, lock, graphSeeded, passed, graphScan, graphPass, gap>>
pipelineVars == <<stored, entry, claim, opened, notes, scan, writersSeeded, using>>

ActStates == {"ready", "admitted", "running", "ended", "done"}
Phases == {"created", "waiting-for-setup", "building", "reviewing", "complete"}
Records == [rev : 0..MaxRevision, phase : Phases]
NoEntered == [rev |-> -1, phase |-> "created"]
Idle == [at |-> "idle", settled |-> {}, admit |-> {}]

SharingTypeOK ==
    /\ \A g \in GraphRuns : act[g] \in [DOMAIN Nodes[g] -> ActStates]
    /\ \A g \in GraphRuns : lock[g] \subseteq DOMAIN Nodes[g]
    /\ \A g \in GraphRuns :
           graphPass[g] \in [at : {"idle", "open", "saving", "started"},
                             settled : SUBSET DOMAIN Nodes[g], admit : SUBSET DOMAIN Nodes[g]]
    /\ passed \subseteq GraphRuns
    /\ graphScan \subseteq [GraphRuns -> UNION {SUBSET DOMAIN Nodes[g] : g \in GraphRuns}]
    /\ graphSeeded \in BOOLEAN /\ writersSeeded \in BOOLEAN /\ gap \in BOOLEAN
    /\ stored \in [Pipelines -> Records]
    /\ entry \in [Pipelines -> Records \cup {NoEntered}]
    /\ claim \in [Pipelines -> Accesses \cup {"none"}]
    /\ using \in [Pipelines -> Accesses \cup {"none"}]
    /\ notes \subseteq Pipelines \X Records /\ scan \subseteq Pipelines \X Records
    /\ opened \subseteq Pipelines
    /\ restarts \in 0..MaxRestarts

SharingInit ==
    /\ act = [g \in GraphRuns |-> [i \in DOMAIN Nodes[g] |-> "ready"]]
    /\ lock = [g \in GraphRuns |-> {}]
    /\ graphSeeded = FALSE /\ passed = {} /\ graphScan = {} /\ gap = FALSE
    /\ graphPass = [g \in GraphRuns |-> Idle]
    /\ stored = [w \in Pipelines |-> [rev |-> 0, phase |-> "created"]]
    /\ entry = [w \in Pipelines |-> NoEntered]
    /\ claim = [w \in Pipelines |-> "none"]
    /\ opened = {} /\ notes = {} /\ scan = {} /\ writersSeeded = FALSE
    /\ using = [w \in Pipelines |-> "none"]
    /\ restarts = 0

----------------------------------------------------------------------------
(* What each side's table says.                                            *)

\* graphWorkspaceAllows: one writer and nobody else, or any number of readers.
Allows(uses, access) == IF access = "write" THEN uses = {} ELSE "write" \notin uses

AccessesOf(g, S) == {Nodes[g][i] : i \in S}

\* graphRunWorkspaceHold of the stored run.
StoredHold(g) == {i \in DOMAIN Nodes[g] : act[g][i] \in {"admitted", "running", "ended"}}

\* others: what the runs other than g hold.
Others(g) == UNION {AccessesOf(h, lock[h]) : h \in GraphRuns \ {g}}
GraphHold == UNION {AccessesOf(h, lock[h]) : h \in GraphRuns}

\* buildPipelineWorkspaceUse.
Use(phase) == CASE phase \in {"waiting-for-setup", "building"} -> "write"
                [] phase = "reviewing" -> "read"
                [] OTHER -> "none"

Strongest(a, b) == IF "write" \in {a, b} THEN "write" ELSE IF a = "none" THEN b ELSE a

\* externalHold.
ExternalHold == {Strongest(Use(entry[w].phase), claim[w]) : w \in Pipelines} \ {"none"}

\* Mutant of Apply: whatever was read last is kept.
ApplyLast(e, w, r) == [e EXCEPT ![w] = r]

\* apply: the newest revision is kept.
Apply(e, w, r) == IF e[w].rev > r.rev THEN e ELSE [e EXCEPT ![w] = r]

----------------------------------------------------------------------------
(* Graph runs.                                                             *)

PassBegin(g) ==
    /\ graphPass[g] = Idle
    /\ graphPass' = [graphPass EXCEPT ![g].at = "open"]
    /\ passed' = IF graphSeeded THEN passed ELSE passed \cup {g}
    /\ UNCHANGED <<act, lock, graphSeeded, graphScan, gap, pipelineVars, restarts>>

\* selectGraphAdmissions: the ready activations are judged in record order, each with
\* those admitted before it; a writer that has to wait holds back everything after it.
Select(g, mine, wanted, admit) ==
    \A i \in wanted :
        LET before == {j \in wanted : j < i}
        IN i \in admit <=>
               /\ \A j \in before \ admit : Nodes[g][j] # "write"
               /\ Allows(mine \cup AccessesOf(g, before \cap admit) \cup Others(g), Nodes[g][i])
               /\ Allows(ExternalHold, Nodes[g][i])

Wanted(g) == {i \in DOMAIN Nodes[g] : act[g][i] = "ready"}
Ended(g) == {i \in DOMAIN Nodes[g] : act[g][i] = "ended"}

\* A round of the pass: what it has observed to be over settles, and the locks are
\* reserved before the decision is saved.  Until both tables are seeded nothing is
\* admitted.  Another round follows when a start has settled already.
PassAdmit(g, seen, wanted, admit) ==
    /\ graphPass[g].at = "open" \/ (graphPass[g].at = "started" /\ seen # {})
    /\ LET left == StoredHold(g) \ seen
       IN /\ IF graphSeeded /\ writersSeeded
             THEN Select(g, AccessesOf(g, left), wanted, admit) ELSE admit = {}
          /\ graphPass' = [graphPass EXCEPT ![g] =
                 [at |-> "saving", settled |-> seen, admit |-> admit]]
          /\ lock' = IF admit = {} THEN lock ELSE [lock EXCEPT ![g] = left \cup admit]
    /\ UNCHANGED <<act, graphSeeded, passed, graphScan, gap, pipelineVars, restarts>>

PassSave(g) ==
    /\ graphPass[g].at = "saving"
    /\ act' = [act EXCEPT ![g] = [i \in DOMAIN Nodes[g] |->
           IF i \in graphPass[g].settled THEN "done"
           ELSE IF i \in graphPass[g].admit THEN "admitted" ELSE act[g][i]]]
    /\ graphPass' = [graphPass EXCEPT ![g] = [Idle EXCEPT !.at = "started"]]
    /\ UNCHANGED <<lock, graphSeeded, passed, graphScan, gap, pipelineVars, restarts>>

\* The executor starts what was admitted, or recovers what an earlier process had
\* admitted and not started.
StartActivation(g, i) ==
    /\ graphPass[g].at \in {"open", "started"}
    /\ act[g][i] = "admitted"
    /\ act' = [act EXCEPT ![g][i] = "running"]
    /\ UNCHANGED <<lock, graphSeeded, passed, graphScan, graphPass, gap, pipelineVars, restarts>>

ActivationEnds(g, i) ==
    /\ act[g][i] = "running"
    /\ act' = [act EXCEPT ![g][i] = "ended"]
    /\ UNCHANGED <<lock, graphSeeded, passed, graphScan, graphPass, gap, pipelineVars, restarts>>

\* The pass returns or throws; a fenced or conflicting save is lost.  Either way the
\* lock table follows the stored run (syncLocks).
PassEnd(g) ==
    /\ graphPass[g] # Idle
    /\ graphPass' = [graphPass EXCEPT ![g] = Idle]
    /\ lock' = [lock EXCEPT ![g] = StoredHold(g)]
    /\ UNCHANGED <<act, graphSeeded, passed, graphScan, gap, pipelineVars, restarts>>

\* discover, up to the answer of the store; one that fails is tried again.
ReadGraphRuns ==
    /\ ~graphSeeded
    /\ graphScan' = {[g \in GraphRuns |-> StoredHold(g)]}
    /\ UNCHANGED <<act, lock, graphSeeded, passed, graphPass, gap, pipelineVars, restarts>>

\* Mutant of SeedGraphs: what was read replaces what a pass has done meanwhile.
SeedGraphsOver ==
    /\ ~graphSeeded
    /\ \E read \in graphScan : lock' = read
    /\ graphSeeded' = TRUE
    /\ passed' = {} /\ graphScan' = {}
    /\ gap' = (gap \/ \E g \in passed : ~(StoredHold(g) \subseteq lock[g]))
    /\ UNCHANGED <<act, graphPass, pipelineVars, restarts>>

\* The runs read are visited; a run that a pass has touched keeps what it has.
SeedGraphs ==
    /\ ~graphSeeded
    /\ \E read \in graphScan :
           lock' = [g \in GraphRuns |-> IF g \in passed THEN lock[g] ELSE read[g]]
    /\ graphSeeded' = TRUE
    /\ passed' = {} /\ graphScan' = {}
    /\ gap' = (gap \/ \E g \in passed : ~(StoredHold(g) \subseteq lock[g]))
    /\ UNCHANGED <<act, graphPass, pipelineVars, restarts>>

----------------------------------------------------------------------------
(* Pipelines.  A pass begins by reading and noting its record.             *)

Noted(w) == Apply(entry, w, stored[w])

\* claim: refused while the graph side is not seeded or holds the checkout in a
\* way the stage cannot share.
Claimable(access) == graphSeeded /\ Allows(GraphHold, access)

EnterSetup(w) ==
    /\ stored[w].phase = "created"
    /\ stored[w].rev < MaxRevision
    /\ stored' = [stored EXCEPT ![w] = [rev |-> @.rev + 1, phase |-> "waiting-for-setup"]]
    /\ entry' = Apply(entry, w, stored'[w])
    /\ UNCHANGED <<claim, opened, notes, scan, writersSeeded, using, graphVars, restarts>>

\* The claim is given back at once: the record says write already.
RunSetup(w) ==
    /\ stored[w].phase = "waiting-for-setup"
    /\ using[w] = "none" /\ claim[w] = "none"
    /\ Claimable("write")
    /\ entry' = Noted(w)
    /\ using' = [using EXCEPT ![w] = "write"]
    /\ UNCHANGED <<stored, claim, opened, notes, scan, writersSeeded, graphVars, restarts>>

\* startStage up to its first await.
ClaimStage(w, phase) ==
    /\ stored[w].phase \notin {"created", "complete"}
    /\ stored[w].rev < MaxRevision
    /\ using[w] = "none" /\ claim[w] = "none"
    /\ Claimable(Use(phase))
    /\ entry' = Noted(w)
    /\ claim' = [claim EXCEPT ![w] = Use(phase)]
    /\ UNCHANGED <<stored, opened, notes, scan, writersSeeded, using, graphVars, restarts>>

\* The session is saved before the prompt is sent; its listeners read the record.
SaveStage(w) ==
    /\ claim[w] # "none" /\ w \notin opened
    /\ stored[w].rev < MaxRevision
    /\ opened' = opened \cup {w}
    /\ stored' = [stored EXCEPT ![w] =
           [rev |-> @.rev + 1, phase |-> IF claim[w] = "write" THEN "building" ELSE "reviewing"]]
    /\ notes' = notes \cup {<<w, stored'[w]>>}
    /\ UNCHANGED <<entry, claim, scan, writersSeeded, using, graphVars, restarts>>

\* The save is noted, the prompt is sent, or not, and the claim is released.
StartStage(w, sent) ==
    /\ w \in opened
    /\ opened' = opened \ {w}
    /\ entry' = Noted(w)
    /\ claim' = [claim EXCEPT ![w] = "none"]
    /\ using' = IF sent THEN [using EXCEPT ![w] = claim[w]] ELSE using
    /\ UNCHANGED <<stored, notes, scan, writersSeeded, graphVars, restarts>>

\* The stage could not be opened: the claim goes and nothing was saved.
StageNotOpened(w) ==
    /\ claim[w] # "none" /\ w \notin opened
    /\ claim' = [claim EXCEPT ![w] = "none"]
    /\ UNCHANGED <<stored, entry, opened, notes, scan, writersSeeded, using, graphVars,
                   restarts>>

\* A saved prompt that was not sent is sent by a later pass, under the record.
SendPending(w) ==
    /\ stored[w].phase \in {"building", "reviewing"}
    /\ using[w] = "none" /\ claim[w] = "none"
    /\ entry' = Noted(w)
    /\ using' = [using EXCEPT ![w] = Use(stored[w].phase)]
    /\ UNCHANGED <<stored, claim, opened, notes, scan, writersSeeded, graphVars, restarts>>

TurnEnds(w) ==
    /\ using[w] # "none"
    /\ using' = [using EXCEPT ![w] = "none"]
    /\ UNCHANGED <<stored, entry, claim, opened, notes, scan, writersSeeded, graphVars, restarts>>

\* The pipeline is complete or failed; the save is noted.
FinishPipeline(w) ==
    /\ stored[w].phase \notin {"created", "complete"}
    /\ stored[w].rev < MaxRevision
    /\ using[w] = "none" /\ claim[w] = "none"
    /\ stored' = [stored EXCEPT ![w] = [rev |-> @.rev + 1, phase |-> "complete"]]
    /\ entry' = Apply(entry, w, stored'[w])
    /\ UNCHANGED <<claim, opened, notes, scan, writersSeeded, using, graphVars, restarts>>

\* A read begun when the record changed is applied, with what it read then.
ApplyNote(n) ==
    /\ n \in notes
    /\ notes' = notes \ {n}
    /\ entry' = Apply(entry, n[1], n[2])
    /\ UNCHANGED <<stored, claim, opened, scan, writersSeeded, using, graphVars, restarts>>

\* ready: the scan of the store, and what it read applied some time later.
ScanPipelines ==
    /\ ~writersSeeded /\ scan = {}
    /\ scan' = {<<w, stored[w]>> : w \in Pipelines}
    /\ UNCHANGED <<stored, entry, claim, opened, notes, writersSeeded, using, graphVars, restarts>>

SeedPipelines ==
    /\ scan # {}
    /\ entry' = [w \in Pipelines |-> LET r == CHOOSE n \in scan : n[1] = w
                                     IN Apply(entry, w, r[2])[w]]
    /\ scan' = {} /\ writersSeeded' = TRUE
    /\ UNCHANGED <<stored, claim, opened, notes, using, graphVars, restarts>>

ScanFails ==
    /\ scan # {}
    /\ scan' = {}
    /\ UNCHANGED <<stored, entry, claim, opened, notes, writersSeeded, using, graphVars, restarts>>

----------------------------------------------------------------------------
\* A restart empties the tables; records and agents are not touched.
RestartBackend ==
    /\ restarts < MaxRestarts
    /\ restarts' = restarts + 1
    /\ lock' = [g \in GraphRuns |-> {}]
    /\ graphSeeded' = FALSE /\ passed' = {} /\ graphScan' = {}
    /\ graphPass' = [g \in GraphRuns |-> Idle]
    /\ entry' = [w \in Pipelines |-> NoEntered]
    /\ claim' = [w \in Pipelines |-> "none"]
    /\ opened' = {} /\ notes' = {} /\ scan' = {} /\ writersSeeded' = FALSE
    /\ UNCHANGED <<act, gap, stored, using>>

GraphStep(g) ==
    \/ PassBegin(g) \/ PassSave(g) \/ PassEnd(g)
    \/ \E seen \in SUBSET Ended(g), wanted \in SUBSET Wanted(g) :
           \E admit \in SUBSET wanted : PassAdmit(g, seen, wanted, admit)
    \/ \E i \in DOMAIN Nodes[g] : StartActivation(g, i) \/ ActivationEnds(g, i)

PipelineStep(w) ==
    \/ EnterSetup(w) \/ RunSetup(w)
    \/ \E phase \in {"building", "reviewing"} : ClaimStage(w, phase)
    \/ SaveStage(w) \/ StageNotOpened(w) \/ SendPending(w)
    \/ \E sent \in BOOLEAN : StartStage(w, sent)
    \/ TurnEnds(w) \/ FinishPipeline(w)

SharingNext ==
    \/ \E g \in GraphRuns : GraphStep(g)
    \/ \E w \in Pipelines : PipelineStep(w)
    \/ \E n \in notes : ApplyNote(n)
    \/ ScanPipelines \/ SeedPipelines \/ ScanFails \/ ReadGraphRuns \/ SeedGraphs \/ RestartBackend

SharingSpec == SharingInit /\ [][SharingNext]_sharingVars

----------------------------------------------------------------------------
(* Properties.                                                             *)

GraphUses(S) == {Nodes[x[1]][x[2]] : x \in S}

RunningActivations ==
    {x \in UNION {{g} \X DOMAIN Nodes[g] : g \in GraphRuns} : act[x[1]][x[2]] = "running"}

\* D3 across engines: while a graph activation writes the checkout no other
\* activation and no pipeline uses it, and while a pipeline writes it no graph
\* activation reads it, whatever was in flight when either side decided and
\* across restarts.  The exception is the window SeedGraphs leaves open when a
\* pass of a run with stored holds is under way (gap).
OneWriter ==
    ~gap =>
        \A x \in RunningActivations :
            Allows(GraphUses(RunningActivations \ {x})
                       \cup ({using[w] : w \in Pipelines} \ {"none"}), Nodes[x[1]][x[2]])

\* Once seeded, a run that no pass is working on holds exactly what its stored
\* record says: no reservation outlives the pass that made it, and none is lost.
LocksFollowStore ==
    graphSeeded => \A g \in GraphRuns : graphPass[g] = Idle => lock[g] = StoredHold(g)
=============================================================================
