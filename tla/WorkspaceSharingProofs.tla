---------------------- MODULE WorkspaceSharingProofs -----------------------
(***************************************************************************)
(* For any number of graph runs, nodes, pipelines and restarts, the lock   *)
(* table of the graph side follows the stored runs, and a graph activation *)
(* that writes is alone in the checkout.                                   *)
(*                                                                         *)
(* LocksFollowStore starts with the seeding.  What makes the seeding       *)
(* right, although passes come and go between the answer of the store and  *)
(* the visit of what it said, is the second half of LockInv: a run that no *)
(* pass has touched is in the store as it was read.                        *)
(*                                                                         *)
(* OneWriter is about what runs; what is kept apart is more: activations   *)
(* that are admitted or about to be (Active), and what a pipeline has      *)
(* claimed or will do under its record without asking again (Uses).  Each  *)
(* side's table has whatever the other must not disturb: the lock table    *)
(* what is active (RunInv), the projection and the claims together what a  *)
(* pipeline uses (PipeInv), although reads of the records arrive late and  *)
(* out of order.                                                           *)
(***************************************************************************)
EXTENDS WorkspaceSharing, TLAPS

SharingShape ==
    /\ DOMAIN act = GraphRuns /\ DOMAIN lock = GraphRuns /\ DOMAIN graphPass = GraphRuns
    /\ \A g \in GraphRuns : DOMAIN act[g] = DOMAIN Nodes[g]
    /\ \A g \in GraphRuns : DOMAIN graphPass[g] = DOMAIN Idle

\* The table is right for a run between its passes ...
Synced(g) == graphPass[g] = Idle /\ (graphSeeded \/ g \in passed) => lock[g] = StoredHold(g)

\* ... and the discovery's copy is right for a run that has had none.
Untouched(g) ==
    ~graphSeeded /\ g \notin passed =>
        graphPass[g] = Idle /\ \A read \in graphScan : read[g] = StoredHold(g)

LockInv == SharingShape /\ \A g \in GraphRuns : Synced(g) /\ Untouched(g)

----------------------------------------------------------------------------
LEMMA LockInit == SharingInit => LockInv
BY DEF SharingInit, LockInv, SharingShape, Synced, Untouched, StoredHold, Idle

LEMMA PassBeginStep ==
    ASSUME LockInv, NEW g \in GraphRuns, PassBegin(g) PROVE LockInv'
<1>1. \A h \in GraphRuns : StoredHold(h)' = StoredHold(h)
  BY DEF PassBegin, StoredHold
<1>2. graphPass'[g] # Idle /\ DOMAIN graphPass'[g] = DOMAIN Idle
  BY DEF PassBegin, LockInv, SharingShape, Idle
<1>3. graphSeeded \/ g \in passed'
  BY DEF PassBegin
<1>4. \A h \in GraphRuns \ {g} : /\ graphPass'[h] = graphPass[h]
                                 /\ h \in passed' <=> h \in passed
  BY DEF PassBegin, LockInv, SharingShape
<1> QED
  BY <1>1, <1>2, <1>3, <1>4 DEF PassBegin, LockInv, SharingShape, Synced, Untouched

\* A step of the pass over g, which is touched and stays away from Idle.
LEMMA InsidePassStep ==
    ASSUME LockInv, NEW g \in GraphRuns, graphPass[g] # Idle, SharingShape',
           graphPass'[g] # Idle,
           \A h \in GraphRuns \ {g} :
               lock'[h] = lock[h] /\ act'[h] = act[h] /\ graphPass'[h] = graphPass[h],
           UNCHANGED <<graphSeeded, passed, graphScan>>
    PROVE  LockInv'
<1>1. \A h \in GraphRuns \ {g} : StoredHold(h)' = StoredHold(h)
  BY DEF StoredHold
<1>2. graphSeeded \/ g \in passed
  BY DEF LockInv, Untouched
<1> QED
  BY <1>1, <1>2 DEF LockInv, Synced, Untouched

LEMMA PassAdmitStep ==
    ASSUME LockInv, NEW g \in GraphRuns, NEW seen, NEW wanted, NEW admit,
           PassAdmit(g, seen, wanted, admit)
    PROVE  LockInv'
<1>1. graphPass[g] # Idle
  BY DEF PassAdmit, Idle
<1>2. PICK left :
          /\ graphPass' = [graphPass EXCEPT ![g] =
                 [at |-> "saving", settled |-> seen, admit |-> admit]]
          /\ lock' = IF admit = {} THEN lock ELSE [lock EXCEPT ![g] = left \cup admit]
  BY DEF PassAdmit
<1>3. UNCHANGED <<act, graphSeeded, passed, graphScan>>
  BY DEF PassAdmit
<1>4. graphPass'[g] # Idle /\ SharingShape'
  BY <1>2, <1>3 DEF LockInv, SharingShape, Idle
<1> QED
  BY <1>1, <1>2, <1>3, <1>4, InsidePassStep DEF LockInv, SharingShape

LEMMA PassSaveStep ==
    ASSUME LockInv, NEW g \in GraphRuns, PassSave(g) PROVE LockInv'
<1>1. graphPass[g] # Idle
  BY DEF PassSave, Idle
<1>2. graphPass' = [graphPass EXCEPT ![g] = [Idle EXCEPT !.at = "started"]]
  BY DEF PassSave
<1>3. graphPass'[g] # Idle /\ SharingShape'
  BY <1>2 DEF PassSave, LockInv, SharingShape, Idle
<1>4. \A h \in GraphRuns \ {g} :
          lock'[h] = lock[h] /\ act'[h] = act[h] /\ graphPass'[h] = graphPass[h]
  BY <1>2 DEF PassSave, LockInv, SharingShape
<1> QED
  BY <1>1, <1>3, <1>4, InsidePassStep DEF PassSave

\* An activation starts or ends: what the stored run holds stays the same.
LEMMA ActivationStep ==
    ASSUME LockInv, NEW g \in GraphRuns, NEW i \in DOMAIN Nodes[g],
           StartActivation(g, i) \/ ActivationEnds(g, i)
    PROVE  LockInv'
<1>1. UNCHANGED <<lock, graphSeeded, passed, graphScan, graphPass>>
  BY DEF StartActivation, ActivationEnds
<1>2. SharingShape'
  BY <1>1 DEF StartActivation, ActivationEnds, LockInv, SharingShape
<1>3. \A h \in GraphRuns : StoredHold(h)' = StoredHold(h)
  BY DEF StartActivation, ActivationEnds, StoredHold, LockInv, SharingShape
<1> QED
  BY <1>1, <1>2, <1>3 DEF LockInv, Synced, Untouched

LEMMA PassEndStep ==
    ASSUME LockInv, NEW g \in GraphRuns, PassEnd(g) PROVE LockInv'
<1>1. \A h \in GraphRuns : StoredHold(h)' = StoredHold(h)
  BY DEF PassEnd, StoredHold
<1>2. lock'[g] = StoredHold(g)
  BY DEF PassEnd, LockInv, SharingShape
<1>3. graphSeeded \/ g \in passed
  BY DEF PassEnd, LockInv, Untouched
<1>4. \A h \in GraphRuns \ {g} : lock'[h] = lock[h] /\ graphPass'[h] = graphPass[h]
  BY DEF PassEnd, LockInv, SharingShape
<1>5. SharingShape'
  BY DEF PassEnd, LockInv, SharingShape
<1> QED
  BY <1>1, <1>2, <1>3, <1>4, <1>5 DEF PassEnd, LockInv, Synced, Untouched

LEMMA SeedSteps ==
    ASSUME LockInv, ReadGraphRuns \/ SeedGraphs \/ RestartBackend
    PROVE  LockInv'
<1>1. CASE ReadGraphRuns
  BY <1>1 DEF ReadGraphRuns, LockInv, SharingShape, Synced, Untouched, StoredHold
<1>2. CASE SeedGraphs
  <2>1. PICK read \in graphScan :
            lock' = [g \in GraphRuns |-> IF g \in passed THEN lock[g] ELSE read[g]]
    BY <1>2 DEF SeedGraphs
  <2>2. \A g \in GraphRuns : StoredHold(g)' = StoredHold(g)
    BY <1>2 DEF SeedGraphs, StoredHold
  <2>3. SharingShape'
    BY <1>2, <2>1 DEF SeedGraphs, LockInv, SharingShape
  <2>4. \A g \in GraphRuns : graphPass[g] = Idle => lock'[g] = StoredHold(g)
    BY <1>2, <2>1 DEF SeedGraphs, LockInv, Synced, Untouched
  <2> QED
    BY <1>2, <2>2, <2>3, <2>4 DEF SeedGraphs, LockInv, Synced, Untouched
<1>3. CASE RestartBackend
  BY <1>3 DEF RestartBackend, LockInv, SharingShape, Synced, Untouched, StoredHold, Idle
<1> QED
  BY <1>1, <1>2, <1>3

\* The steps of the pipelines do not touch the graph side.
LEMMA PipelineSteps ==
    ASSUME LockInv, UNCHANGED graphVars PROVE LockInv'
BY DEF graphVars, LockInv, SharingShape, Synced, Untouched, StoredHold

LEMMA LockNext == LockInv /\ [SharingNext]_sharingVars => LockInv'
<1> SUFFICES ASSUME LockInv, [SharingNext]_sharingVars PROVE LockInv'
  OBVIOUS
<1>1. ASSUME NEW g \in GraphRuns, GraphStep(g) PROVE LockInv'
  BY <1>1, PassBeginStep, PassAdmitStep, PassSaveStep, PassEndStep, ActivationStep DEF GraphStep
<1>2. ASSUME NEW w \in Pipelines, PipelineStep(w) PROVE UNCHANGED graphVars
  BY <1>2 DEF PipelineStep, EnterSetup, RunSetup, ClaimStage, SaveStage, StageNotOpened,
              SendPending, StartStage, TurnEnds, FinishPipeline
<1>3. ASSUME NEW n \in notes, ApplyNote(n) PROVE UNCHANGED graphVars
  BY <1>3 DEF ApplyNote
<1>4. CASE ScanPipelines \/ SeedPipelines \/ ScanFails
  <2>1. UNCHANGED graphVars
    BY <1>4 DEF ScanPipelines, SeedPipelines, ScanFails
  <2> QED
    BY <2>1, PipelineSteps
<1>5. CASE ReadGraphRuns \/ SeedGraphs \/ RestartBackend
  BY <1>5, SeedSteps
<1>6. CASE UNCHANGED sharingVars
  BY <1>6, PipelineSteps DEF sharingVars, graphVars
<1> QED
  BY <1>1, <1>2, <1>3, <1>4, <1>5, <1>6, PipelineSteps DEF SharingNext

\* LocksFollowStore: once discovery has seeded the table, a graph run that no pass
\* is working on holds exactly what its stored record says, whichever passes ran
\* while the store was read, failed or lost their save.
THEOREM LocksAreTheStore == SharingSpec => []LocksFollowStore
<1>1. LockInv => LocksFollowStore
  BY DEF LockInv, Synced, LocksFollowStore
<1> QED
  BY <1>1, LockInit, LockNext, PTL DEF SharingSpec

----------------------------------------------------------------------------
(* The graph side of OneWriter.                                            *)

Passes(g) == [at : {"idle", "open", "saving", "started"},
              settled : SUBSET DOMAIN Nodes[g], admit : SUBSET DOMAIN Nodes[g]]

\* The activations of g that use the checkout, or will once a save has come back.
\* One that has ended, observed or not, does not.
Active(g) ==
    {i \in DOMAIN Nodes[g] : act[g][i] \in {"admitted", "running"} \/ i \in graphPass[g].admit}

\* What a pass may do to its run, and that the table has whatever is active.
RunInv(g) ==
    /\ act[g] \in [DOMAIN Nodes[g] -> ActStates]
    /\ lock[g] \subseteq DOMAIN Nodes[g]
    /\ graphPass[g] \in Passes(g)
    /\ graphPass[g].settled \subseteq Ended(g) /\ graphPass[g].admit \subseteq Wanted(g)
    /\ graphPass[g].at # "saving" => graphPass[g].settled = {} /\ graphPass[g].admit = {}
    /\ ~graphSeeded => graphPass[g].admit = {}
    /\ graphSeeded /\ ~gap => Active(g) \subseteq lock[g]

GraphTypes ==
    /\ passed \subseteq GraphRuns
    /\ graphScan \subseteq [GraphRuns -> UNION {SUBSET DOMAIN Nodes[g] : g \in GraphRuns}]
    /\ graphSeeded \in BOOLEAN /\ gap \in BOOLEAN

GraphInv == LockInv /\ GraphTypes /\ \A g \in GraphRuns : RunInv(g)

LEMMA IdlePass ==
    ASSUME NEW g \in GraphRuns
    PROVE  /\ Idle \in Passes(g) /\ Idle.at = "idle" /\ Idle.settled = {} /\ Idle.admit = {}
           /\ \A p \in Passes(g) : p.at = "idle" => p # [Idle EXCEPT !.at = "started"]
           /\ [Idle EXCEPT !.at = "started"] \in Passes(g)
           /\ [Idle EXCEPT !.at = "started"].at = "started"
           /\ [Idle EXCEPT !.at = "started"].settled = {}
           /\ [Idle EXCEPT !.at = "started"].admit = {}
BY DEF Idle, Passes

\* A step of g changes nothing of the other runs.
LEMMA OneRunStep ==
    ASSUME GraphInv, LockInv', GraphTypes', NEW g \in GraphRuns, RunInv(g)',
           \A h \in GraphRuns \ {g} :
               lock'[h] = lock[h] /\ act'[h] = act[h] /\ graphPass'[h] = graphPass[h],
           UNCHANGED <<graphSeeded, gap>>
    PROVE  GraphInv'
<1>1. ASSUME NEW h \in GraphRuns, h # g PROVE RunInv(h)'
  BY <1>1 DEF GraphInv, RunInv, Ended, Wanted, Active
<1> QED
  BY <1>1 DEF GraphInv

LEMMA GraphInit == SharingInit => GraphInv
<1> SUFFICES ASSUME SharingInit PROVE GraphInv
  OBVIOUS
<1>1. LockInv /\ GraphTypes
  BY LockInit DEF SharingInit, GraphTypes
<1>2. ASSUME NEW g \in GraphRuns PROVE RunInv(g)
  BY IdlePass DEF SharingInit, RunInv, ActStates
<1> QED
  BY <1>1, <1>2 DEF GraphInv

LEMMA PassBeginRun ==
    ASSUME GraphInv, NEW g \in GraphRuns, PassBegin(g)
    PROVE  GraphInv' /\ \A h \in GraphRuns : Active(h)' \subseteq Active(h)
<1>1. LockInv /\ GraphTypes /\ RunInv(g) /\ LockInv'
  BY PassBeginStep DEF GraphInv
<1>2. /\ UNCHANGED <<act, lock, graphSeeded, graphScan, gap>>
      /\ graphPass'[g] = [Idle EXCEPT !.at = "open"]
      /\ \A h \in GraphRuns \ {g} : graphPass'[h] = graphPass[h]
  BY <1>1 DEF PassBegin, LockInv, SharingShape
<1>3. /\ graphPass'[g] \in Passes(g) /\ graphPass'[g].at = "open"
      /\ graphPass'[g].settled = {} /\ graphPass'[g].admit = {} /\ graphPass[g].admit = {}
  BY <1>2 DEF PassBegin, Passes, Idle
<1>4. Active(g)' = Active(g)
  BY <1>2, <1>3 DEF Active
<1>5. RunInv(g)'
  BY <1>1, <1>2, <1>3, <1>4 DEF RunInv
<1>6. GraphTypes'
  BY <1>1, <1>2 DEF GraphTypes, PassBegin
<1>7. \A h \in GraphRuns \ {g} : Active(h)' = Active(h)
  BY <1>2 DEF Active
<1> QED
  BY <1>1, <1>2, <1>4, <1>5, <1>6, <1>7, OneRunStep

\* Whatever a round decides, its run still holds what it uses.
LEMMA PassAdmitRun ==
    ASSUME GraphInv, NEW g \in GraphRuns, NEW seen \in SUBSET Ended(g),
           NEW wanted \in SUBSET Wanted(g), NEW admit \in SUBSET wanted,
           PassAdmit(g, seen, wanted, admit)
    PROVE  /\ GraphInv'
           /\ graphPass[g].admit = {} /\ Active(g)' = Active(g) \cup admit
           /\ Active(g) \subseteq StoredHold(g) \ seen
           /\ \A h \in GraphRuns \ {g} : Active(h)' = Active(h)
<1>1. LockInv /\ GraphTypes /\ RunInv(g) /\ LockInv'
  BY PassAdmitStep DEF GraphInv
<1>2. /\ UNCHANGED <<act, graphSeeded, passed, graphScan, gap>>
      /\ graphPass'[g] = [at |-> "saving", settled |-> seen, admit |-> admit]
      /\ lock'[g] = IF admit = {} THEN lock[g] ELSE (StoredHold(g) \ seen) \cup admit
      /\ \A h \in GraphRuns \ {g} : graphPass'[h] = graphPass[h] /\ lock'[h] = lock[h]
  BY <1>1 DEF PassAdmit, LockInv, SharingShape
<1>3. ~graphSeeded => admit = {}
  BY DEF PassAdmit
<1>4. /\ graphPass'[g] \in Passes(g) /\ graphPass'[g].at = "saving"
      /\ graphPass'[g].settled = seen /\ graphPass'[g].admit = admit
  BY <1>2 DEF Passes, Ended, Wanted
<1>5. graphPass[g].admit = {}
  BY <1>1 DEF PassAdmit, RunInv
<1>6. Active(g)' = Active(g) \cup admit
  BY <1>2, <1>4, <1>5 DEF Active, Wanted
<1>7. Active(g) \subseteq StoredHold(g) \ seen
  BY <1>5 DEF Active, StoredHold, Ended
<1>8. RunInv(g)'
  <2>1. lock'[g] \subseteq DOMAIN Nodes[g]
    BY <1>1, <1>2 DEF RunInv, StoredHold, Wanted
  <2>2. graphSeeded /\ ~gap => Active(g)' \subseteq lock'[g]
    BY <1>1, <1>2, <1>6, <1>7 DEF RunInv
  <2>3. seen \subseteq Ended(g)' /\ admit \subseteq Wanted(g)'
    BY <1>2 DEF Ended, Wanted
  <2> QED
    BY <1>1, <1>2, <1>3, <1>4, <2>1, <2>2, <2>3 DEF RunInv
<1>9. GraphTypes'
  BY <1>1, <1>2 DEF GraphTypes
<1>10. \A h \in GraphRuns \ {g} : Active(h)' = Active(h)
  BY <1>2 DEF Active
<1> QED
  BY <1>1, <1>2, <1>5, <1>6, <1>7, <1>8, <1>9, <1>10, OneRunStep

LEMMA PassSaveRun ==
    ASSUME GraphInv, NEW g \in GraphRuns, PassSave(g)
    PROVE  GraphInv' /\ \A h \in GraphRuns : Active(h)' \subseteq Active(h)
<1>1. LockInv /\ GraphTypes /\ RunInv(g) /\ LockInv'
  BY PassSaveStep DEF GraphInv
<1>2. /\ UNCHANGED <<lock, graphSeeded, passed, graphScan, gap>>
      /\ graphPass'[g] = [Idle EXCEPT !.at = "started"]
      /\ act'[g] = [i \in DOMAIN Nodes[g] |->
             IF i \in graphPass[g].settled THEN "done"
             ELSE IF i \in graphPass[g].admit THEN "admitted" ELSE act[g][i]]
      /\ \A h \in GraphRuns \ {g} : graphPass'[h] = graphPass[h] /\ act'[h] = act[h]
  BY <1>1 DEF PassSave, LockInv, SharingShape
<1>3. /\ graphPass'[g] \in Passes(g) /\ graphPass'[g].at = "started"
      /\ graphPass'[g].settled = {} /\ graphPass'[g].admit = {}
  BY <1>2, IdlePass
<1>4. Active(g)' \subseteq Active(g)
  BY <1>2, <1>3 DEF Active
<1>5. act'[g] \in [DOMAIN Nodes[g] -> ActStates]
  BY <1>1, <1>2 DEF RunInv, ActStates
<1>6. RunInv(g)'
  BY <1>1, <1>2, <1>3, <1>4, <1>5 DEF RunInv
<1>7. GraphTypes'
  BY <1>1, <1>2 DEF GraphTypes
<1>8. \A h \in GraphRuns \ {g} : Active(h)' = Active(h)
  BY <1>2 DEF Active
<1> QED
  BY <1>1, <1>2, <1>4, <1>6, <1>7, <1>8, OneRunStep

LEMMA ActivationRun ==
    ASSUME GraphInv, NEW g \in GraphRuns, NEW i \in DOMAIN Nodes[g],
           StartActivation(g, i) \/ ActivationEnds(g, i)
    PROVE  GraphInv' /\ \A h \in GraphRuns : Active(h)' \subseteq Active(h)
<1>1. LockInv /\ GraphTypes /\ RunInv(g) /\ LockInv'
  BY ActivationStep DEF GraphInv
<1>2. PICK a \in {"running", "ended"} :
          act' = [act EXCEPT ![g][i] = a] /\ (a = "running" => act[g][i] = "admitted")
  BY DEF StartActivation, ActivationEnds
<1>3. /\ UNCHANGED <<lock, graphSeeded, passed, graphScan, graphPass, gap>>
      /\ act[g][i] \in {"admitted", "running"}
  BY DEF StartActivation, ActivationEnds
<1>4. /\ act'[g] = [act[g] EXCEPT ![i] = a]
      /\ \A h \in GraphRuns \ {g} : act'[h] = act[h]
  BY <1>1, <1>2 DEF LockInv, SharingShape
<1>5. act[g] \in [DOMAIN Nodes[g] -> ActStates]
  BY <1>1 DEF RunInv
<1>6. /\ act'[g] \in [DOMAIN Nodes[g] -> ActStates] /\ act'[g][i] = a
      /\ \A j \in DOMAIN Nodes[g] \ {i} : act'[g][j] = act[g][j]
  BY <1>4, <1>5 DEF ActStates
<1>7. Active(g)' \subseteq Active(g) /\ Ended(g) \subseteq Ended(g)' /\ Wanted(g)' = Wanted(g)
  BY <1>2, <1>3, <1>6 DEF Active, Ended, Wanted
<1>8. RunInv(g)'
  BY <1>1, <1>3, <1>6, <1>7 DEF RunInv
<1>9. GraphTypes'
  BY <1>1, <1>3 DEF GraphTypes
<1>10. \A h \in GraphRuns \ {g} : Active(h)' = Active(h)
  BY <1>3, <1>4 DEF Active
<1> QED
  BY <1>1, <1>3, <1>4, <1>7, <1>8, <1>9, <1>10, OneRunStep

LEMMA PassEndRun ==
    ASSUME GraphInv, NEW g \in GraphRuns, PassEnd(g)
    PROVE  GraphInv' /\ \A h \in GraphRuns : Active(h)' \subseteq Active(h)
<1>1. LockInv /\ GraphTypes /\ RunInv(g) /\ LockInv'
  BY PassEndStep DEF GraphInv
<1>2. /\ UNCHANGED <<act, graphSeeded, passed, graphScan, gap>>
      /\ graphPass'[g] = Idle /\ lock'[g] = StoredHold(g)
      /\ \A h \in GraphRuns \ {g} : graphPass'[h] = graphPass[h] /\ lock'[h] = lock[h]
  BY <1>1 DEF PassEnd, LockInv, SharingShape
<1>3. Active(g)' \subseteq Active(g) /\ Active(g)' \subseteq lock'[g]
      /\ lock'[g] \subseteq DOMAIN Nodes[g]
  BY <1>2, IdlePass DEF Active, StoredHold
<1>4. RunInv(g)'
  BY <1>1, <1>2, <1>3, IdlePass DEF RunInv
<1>5. GraphTypes'
  BY <1>1, <1>2 DEF GraphTypes
<1>6. \A h \in GraphRuns \ {g} : Active(h)' = Active(h)
  BY <1>2 DEF Active
<1> QED
  BY <1>1, <1>2, <1>3, <1>4, <1>5, <1>6, OneRunStep

\* Seeding: the stored holds of the runs no pass has touched, and gap for the others.
LEMMA SeedRuns ==
    ASSUME GraphInv, ReadGraphRuns \/ SeedGraphs \/ RestartBackend
    PROVE  /\ GraphInv' /\ (gap => gap')
           /\ \A h \in GraphRuns : Active(h)' \subseteq Active(h)
<1>1. LockInv /\ GraphTypes /\ LockInv' /\ \A g \in GraphRuns : RunInv(g)
  BY SeedSteps DEF GraphInv
<1>2. CASE ReadGraphRuns
  <2>1. /\ UNCHANGED <<act, lock, graphSeeded, passed, graphPass, gap>>
        /\ graphScan' = {[g \in GraphRuns |-> StoredHold(g)]}
    BY <1>2 DEF ReadGraphRuns
  <2>2. [g \in GraphRuns |-> StoredHold(g)]
          \in [GraphRuns -> UNION {SUBSET DOMAIN Nodes[g] : g \in GraphRuns}]
    BY DEF StoredHold
  <2>3. GraphTypes'
    BY <1>1, <2>1, <2>2 DEF GraphTypes
  <2>4. \A g \in GraphRuns : RunInv(g)' /\ Active(g)' = Active(g)
    BY <1>1, <2>1 DEF RunInv, Active, Ended, Wanted
  <2> QED
    BY <1>1, <2>1, <2>3, <2>4 DEF GraphInv
<1>3. CASE SeedGraphs
  <2>1. PICK read \in graphScan :
            lock' = [g \in GraphRuns |-> IF g \in passed THEN lock[g] ELSE read[g]]
    BY <1>3 DEF SeedGraphs
  <2>2. /\ UNCHANGED <<act, graphPass>> /\ ~graphSeeded /\ graphSeeded' = TRUE
        /\ passed' = {} /\ graphScan' = {}
        /\ gap' = (gap \/ \E g \in passed : ~(StoredHold(g) \subseteq lock[g]))
    BY <1>3 DEF SeedGraphs
  <2>3. ASSUME NEW g \in GraphRuns PROVE RunInv(g)' /\ Active(g)' = Active(g)
    <3>1. RunInv(g) /\ Untouched(g) /\ graphPass[g].admit = {}
      BY <1>1, <2>2 DEF LockInv, RunInv
    <3>2. Active(g)' = Active(g) /\ Active(g) \subseteq StoredHold(g)
          /\ StoredHold(g) \subseteq DOMAIN Nodes[g]
      BY <2>2, <3>1 DEF Active, StoredHold
    <3>3. CASE g \in passed
      <4>1. lock'[g] = lock[g] /\ (~gap' => StoredHold(g) \subseteq lock[g])
        BY <2>1, <2>2, <3>3
      <4> QED
        BY <2>2, <3>1, <3>2, <4>1 DEF RunInv, Ended, Wanted
    <3>4. CASE g \notin passed
      <4>1. lock'[g] = StoredHold(g)
        BY <2>1, <2>2, <3>1, <3>4 DEF Untouched
      <4> QED
        BY <2>2, <3>1, <3>2, <4>1 DEF RunInv, Ended, Wanted
    <3> QED
      BY <3>2, <3>3, <3>4
  <2>4. GraphTypes' /\ (gap => gap')
    BY <1>1, <2>2 DEF GraphTypes
  <2> QED
    BY <1>1, <2>3, <2>4 DEF GraphInv
<1>4. CASE RestartBackend
  <2>1. /\ UNCHANGED <<act, gap>> /\ graphSeeded' = FALSE /\ passed' = {} /\ graphScan' = {}
        /\ lock' = [g \in GraphRuns |-> {}] /\ graphPass' = [g \in GraphRuns |-> Idle]
    BY <1>4 DEF RestartBackend
  <2>2. ASSUME NEW g \in GraphRuns PROVE RunInv(g)' /\ Active(g)' \subseteq Active(g)
    <3>1. RunInv(g) /\ lock'[g] = {} /\ graphPass'[g] = Idle
      BY <1>1, <2>1
    <3> QED
      BY <2>1, <3>1, IdlePass DEF RunInv, Active, Ended, Wanted
  <2>3. GraphTypes'
    BY <1>1, <2>1 DEF GraphTypes
  <2> QED
    BY <1>1, <2>1, <2>2, <2>3 DEF GraphInv
<1> QED
  BY <1>2, <1>3, <1>4

LEMMA SameGraphs ==
    ASSUME GraphInv, UNCHANGED graphVars
    PROVE  GraphInv' /\ \A h \in GraphRuns : Active(h)' = Active(h)
<1>1. LockInv' /\ GraphTypes'
  BY PipelineSteps DEF GraphInv, GraphTypes, graphVars
<1>2. \A g \in GraphRuns : RunInv(g)' /\ Active(g)' = Active(g)
  BY DEF GraphInv, RunInv, Active, Ended, Wanted, graphVars
<1> QED
  BY <1>1, <1>2 DEF GraphInv

----------------------------------------------------------------------------
(* The pipeline side.                                                      *)

EntryRecords == Records \cup {NoEntered}

PipelineTypes ==
    /\ stored \in [Pipelines -> Records] /\ entry \in [Pipelines -> EntryRecords]
    /\ claim \in [Pipelines -> Accesses \cup {"none"}]
    /\ using \in [Pipelines -> Accesses \cup {"none"}]
    /\ notes \subseteq Pipelines \X Records /\ scan \subseteq Pipelines \X Records
    /\ opened \subseteq Pipelines
    /\ writersSeeded \in BOOLEAN

\* r is what some earlier read of w's record may have returned.
Older(r, w) == r.rev <= stored[w].rev /\ (r.rev = stored[w].rev => r = stored[w])

\* The projection is never ahead of the store.  An agent does what the record says;
\* once the projection is seeded, or about to be, it has the record, or a claim
\* stands for the save that it has not seen.
PipeInv(w) ==
    /\ Older(entry[w], w)
    /\ using[w] # "none" => using[w] = Use(stored[w].phase) /\ claim[w] = "none"
    /\ claim[w] # "none" => stored[w].phase # "created"
    /\ w \in opened => claim[w] # "none" /\ claim[w] = Use(stored[w].phase)
    /\ writersSeeded \/ scan # {} =>
           \/ w \in opened \/ entry[w] = stored[w]
           \/ ~writersSeeded /\ <<w, stored[w]>> \in scan

\* A scan has read one record of every pipeline.
ScanInv ==
    /\ \A n \in notes \cup scan : Older(n[2], n[1])
    /\ scan # {} => \A w \in Pipelines : \E n \in scan : n[1] = w
    /\ \A n, m \in scan : n[1] = m[1] => n = m

PipelineInv == PipelineTypes /\ ScanInv /\ \A w \in Pipelines : PipeInv(w)

LEMMA UseType == \A phase \in Phases : Use(phase) \in Accesses \cup {"none"}
BY DEF Phases, Use, Accesses

LEMMA RecordType ==
    ASSUME NEW r \in EntryRecords
    PROVE  /\ r.rev \in Int /\ r.phase \in Phases
           /\ r \in Records => r.rev \in 0..MaxRevision
           /\ \A x \in Records : x = [rev |-> x.rev, phase |-> x.phase]
<1>1. NoEntered.rev = -1 /\ NoEntered.phase \in Phases
  BY DEF NoEntered, Phases
<1>2. \A x \in Records : /\ x.rev \in 0..MaxRevision /\ x.phase \in Phases
                         /\ x = [rev |-> x.rev, phase |-> x.phase]
  BY DEF Records
<1>3. MaxRevision \in Nat
  BY SharingAssumption
<1> QED
  BY <1>1, <1>2, <1>3 DEF EntryRecords

\* What Apply does to the projection.
LEMMA Applying ==
    ASSUME NEW e \in [Pipelines -> EntryRecords], NEW w \in Pipelines, NEW r \in Records
    PROVE  /\ Apply(e, w, r) \in [Pipelines -> EntryRecords]
           /\ Apply(e, w, r)[w] = IF e[w].rev > r.rev THEN e[w] ELSE r
           /\ \A v \in Pipelines \ {w} : Apply(e, w, r)[v] = e[v]
BY DEF Apply, EntryRecords

\* Noting the stored record brings the projection up to date.
LEMMA Noting ==
    ASSUME PipelineInv, NEW w \in Pipelines
    PROVE  /\ Noted(w) \in [Pipelines -> EntryRecords] /\ Noted(w)[w] = stored[w]
           /\ \A v \in Pipelines \ {w} : Noted(w)[v] = entry[v]
<1>1. /\ entry \in [Pipelines -> EntryRecords] /\ stored[w] \in Records /\ entry[w] \in EntryRecords
      /\ stored[w] \in EntryRecords /\ Older(entry[w], w)
  BY DEF PipelineInv, PipelineTypes, PipeInv, EntryRecords
<1>2. entry[w].rev \in Int /\ stored[w].rev \in Int
  BY <1>1, RecordType
<1> QED
  BY <1>1, <1>2, Applying DEF Noted, Older

\* A save gives w's record the next revision: whatever was read before is older.
LEMMA Saving ==
    ASSUME PipelineInv, NEW w \in Pipelines, NEW phase \in Phases, stored[w].rev < MaxRevision,
           stored' = [stored EXCEPT ![w] = [rev |-> @.rev + 1, phase |-> phase]]
    PROVE  /\ stored' \in [Pipelines -> Records] /\ stored'[w].phase = phase
           /\ \A v \in Pipelines \ {w} : stored'[v] = stored[v]
           /\ \A r \in EntryRecords : Older(r, w) => Older(r, w)' /\ r.rev < stored'[w].rev
           /\ \A n \in Pipelines \X Records : Older(n[2], n[1]) => Older(n[2], n[1])'
<1>1. stored \in [Pipelines -> Records] /\ stored[w] \in Records /\ stored[w] \in EntryRecords
  BY DEF PipelineInv, PipelineTypes, EntryRecords
<1>2. /\ stored'[w] = [rev |-> stored[w].rev + 1, phase |-> phase]
      /\ \A v \in Pipelines \ {w} : stored'[v] = stored[v]
  BY <1>1
<1>3. stored[w].rev \in 0..MaxRevision /\ MaxRevision \in Nat
  BY <1>1, RecordType, SharingAssumption
<1>4. stored'[w] \in Records /\ stored'[w].rev = stored[w].rev + 1 /\ stored'[w].phase = phase
  BY <1>2, <1>3 DEF Records
<1>5. stored' \in [Pipelines -> Records]
  BY <1>1, <1>4
<1>6. ASSUME NEW r \in EntryRecords, Older(r, w) PROVE Older(r, w)' /\ r.rev < stored'[w].rev
  <2>1. r.rev \in Int
    BY RecordType
  <2> QED
    BY <1>3, <1>4, <1>6, <2>1 DEF Older
<1>7. ASSUME NEW n \in Pipelines \X Records, Older(n[2], n[1]) PROVE Older(n[2], n[1])'
  <2>1. n[1] \in Pipelines /\ n[2] \in EntryRecords
    BY DEF EntryRecords
  <2>2. CASE n[1] = w
    BY <1>6, <1>7, <2>1, <2>2
  <2>3. CASE n[1] # w
    BY <1>2, <1>7, <2>1, <2>3 DEF Older
  <2> QED
    BY <2>2, <2>3
<1> QED
  BY <1>2, <1>4, <1>5, <1>6, <1>7

\* A step of w changes nothing of the other pipelines.
LEMMA OnePipelineStep ==
    ASSUME PipelineInv, PipelineTypes', ScanInv', NEW w \in Pipelines, PipeInv(w)',
           UNCHANGED <<scan, writersSeeded>>,
           \A v \in Pipelines \ {w} :
               /\ stored'[v] = stored[v] /\ entry'[v] = entry[v] /\ claim'[v] = claim[v]
               /\ using'[v] = using[v] /\ (v \in opened' <=> v \in opened)
    PROVE  PipelineInv'
<1>1. ASSUME NEW v \in Pipelines, v # w PROVE PipeInv(v)'
  BY <1>1 DEF PipelineInv, PipeInv, Older
<1> QED
  BY <1>1 DEF PipelineInv

LEMMA PipelineInit == SharingInit => PipelineInv
<1> SUFFICES ASSUME SharingInit PROVE PipelineInv
  OBVIOUS
<1>1. [rev |-> 0, phase |-> "created"] \in Records
  BY SharingAssumption DEF Records, Phases
<1>2. PipelineTypes
  BY <1>1 DEF SharingInit, PipelineTypes, EntryRecords
<1>3. ASSUME NEW w \in Pipelines PROVE PipeInv(w)
  <2>1. Older(entry[w], w)
    BY DEF SharingInit, Older, NoEntered
  <2> QED
    BY <2>1 DEF SharingInit, PipeInv
<1> QED
  BY <1>2, <1>3 DEF SharingInit, PipelineInv, ScanInv

\* What w does in the checkout, has claimed, or will do under its record without
\* another claim (SendPending).
Uses(w) ==
    ({claim[w], using[w]} \cup
        (IF stored[w].phase \in {"building", "reviewing"} THEN {Use(stored[w].phase)} ELSE {}))
    \ {"none"}

\* A pipeline begins no use that it has not claimed.
Claims == \A w \in Pipelines : \A u \in Uses(w)' : u \in Uses(w) \/ Claimable(u)

LEMMA SameUses ==
    ASSUME NEW v, claim'[v] = claim[v], using'[v] = using[v], stored'[v] = stored[v]
    PROVE  Uses(v)' = Uses(v)
BY DEF Uses

\* EnterSetup and FinishPipeline: a save that is noted at once.
LEMMA SaveSteps ==
    ASSUME PipelineInv, NEW w \in Pipelines, EnterSetup(w) \/ FinishPipeline(w)
    PROVE  PipelineInv' /\ Claims
<1>1. PICK phase \in {"waiting-for-setup", "complete"} :
          stored' = [stored EXCEPT ![w] = [rev |-> @.rev + 1, phase |-> phase]]
  BY DEF EnterSetup, FinishPipeline
<1>2. /\ stored[w].rev < MaxRevision /\ entry' = Apply(entry, w, stored'[w])
      /\ UNCHANGED <<claim, opened, notes, scan, writersSeeded, using>>
  BY DEF EnterSetup, FinishPipeline
<1>3. PipelineTypes /\ ScanInv /\ PipeInv(w) /\ phase \in Phases
  BY <1>1 DEF PipelineInv, Phases
<1>4. /\ stored' \in [Pipelines -> Records] /\ stored'[w].phase = phase
      /\ \A v \in Pipelines \ {w} : stored'[v] = stored[v]
      /\ \A r \in EntryRecords : Older(r, w) => Older(r, w)' /\ r.rev < stored'[w].rev
      /\ \A n \in Pipelines \X Records : Older(n[2], n[1]) => Older(n[2], n[1])'
  BY <1>1, <1>2, <1>3, Saving
<1>5. /\ stored'[w] \in Records /\ stored'[w] \in EntryRecords
      /\ entry \in [Pipelines -> EntryRecords] /\ entry[w] \in EntryRecords
  BY <1>3, <1>4 DEF PipelineTypes, EntryRecords
<1>6. entry[w].rev \in Int /\ stored'[w].rev \in Int /\ entry[w].rev < stored'[w].rev
  BY <1>3, <1>4, <1>5, RecordType DEF PipeInv
<1>7. /\ entry' \in [Pipelines -> EntryRecords] /\ entry'[w] = stored'[w]
      /\ \A v \in Pipelines \ {w} : entry'[v] = entry[v]
  BY <1>2, <1>5, <1>6, Applying
<1>8. using[w] = "none" /\ w \notin opened /\ claim[w] = "none"
  <2>1. CASE EnterSetup(w)
    <3>1. Use(stored[w].phase) = "none"
      BY <2>1 DEF EnterSetup, Use
    <3> QED
      BY <1>3, <2>1, <3>1 DEF EnterSetup, PipeInv
  <2>2. CASE FinishPipeline(w)
    BY <1>3, <2>2 DEF FinishPipeline, PipeInv
  <2> QED
    BY <2>1, <2>2
<1>9. PipeInv(w)'
  BY <1>2, <1>6, <1>7, <1>8 DEF PipeInv, Older
<1>10. PipelineTypes' /\ ScanInv'
  BY <1>2, <1>3, <1>4, <1>7 DEF PipelineTypes, ScanInv
<1>11. Claims
  <2>1. Uses(w)' = {}
    BY <1>1, <1>2, <1>4, <1>8 DEF Uses
  <2> QED
    BY <1>2, <1>4, <2>1, SameUses DEF Claims
<1> QED
  BY <1>2, <1>4, <1>7, <1>9, <1>10, <1>11, OnePipelineStep

\* RunSetup and SendPending: an agent is sent under the record.
LEMMA SendSteps ==
    ASSUME PipelineInv, NEW w \in Pipelines, RunSetup(w) \/ SendPending(w)
    PROVE  PipelineInv' /\ Claims
<1>1. /\ entry' = Noted(w) /\ using' = [using EXCEPT ![w] = Use(stored[w].phase)]
      /\ claim[w] = "none"
      /\ UNCHANGED <<stored, claim, opened, notes, scan, writersSeeded>>
  BY DEF RunSetup, SendPending, Use
<1>2. PipelineTypes /\ ScanInv /\ PipeInv(w) /\ stored[w] \in EntryRecords
  BY DEF PipelineInv, PipelineTypes, EntryRecords
<1>3. /\ entry' \in [Pipelines -> EntryRecords] /\ entry'[w] = stored[w]
      /\ \A v \in Pipelines \ {w} : entry'[v] = entry[v]
  BY <1>1, Noting
<1>4. Use(stored[w].phase) \in Accesses \cup {"none"} /\ stored[w].rev \in Int
  BY <1>2, RecordType, UseType
<1>5. /\ using' \in [Pipelines -> Accesses \cup {"none"}] /\ using'[w] = Use(stored[w].phase)
      /\ \A v \in Pipelines \ {w} : using'[v] = using[v]
  BY <1>1, <1>2, <1>4 DEF PipelineTypes
<1>6. PipeInv(w)'
  BY <1>1, <1>2, <1>3, <1>4, <1>5 DEF PipeInv, Older
<1>7. PipelineTypes' /\ ScanInv'
  BY <1>1, <1>2, <1>3, <1>5 DEF PipelineTypes, ScanInv, Older
<1>8. Claims
  <2>1. ASSUME NEW u \in Uses(w)' PROVE u \in Uses(w) \/ Claimable(u)
    <3>1. u = Use(stored[w].phase) /\ u # "none"
      BY <1>1, <1>5, <2>1 DEF Uses
    <3>2. CASE SendPending(w)
      BY <3>1, <3>2 DEF SendPending, Uses
    <3>3. CASE RunSetup(w)
      BY <3>1, <3>3 DEF RunSetup, Use
    <3> QED
      BY <3>2, <3>3
  <2> QED
    BY <1>1, <1>5, <2>1, SameUses DEF Claims
<1> QED
  BY <1>1, <1>3, <1>5, <1>6, <1>7, <1>8, OnePipelineStep

LEMMA ClaimStageStep ==
    ASSUME PipelineInv, NEW w \in Pipelines, NEW phase \in {"building", "reviewing"},
           ClaimStage(w, phase)
    PROVE  PipelineInv' /\ Claims
<1>1. /\ entry' = Noted(w) /\ claim' = [claim EXCEPT ![w] = Use(phase)]
      /\ claim[w] = "none" /\ using[w] = "none" /\ stored[w].phase # "created"
      /\ Claimable(Use(phase))
      /\ UNCHANGED <<stored, opened, notes, scan, writersSeeded, using>>
  BY DEF ClaimStage
<1>2. PipelineTypes /\ ScanInv /\ PipeInv(w) /\ stored[w] \in EntryRecords
  BY DEF PipelineInv, PipelineTypes, EntryRecords
<1>3. /\ entry' \in [Pipelines -> EntryRecords] /\ entry'[w] = stored[w]
      /\ \A v \in Pipelines \ {w} : entry'[v] = entry[v]
  BY <1>1, Noting
<1>4. Use(phase) \in Accesses \cup {"none"} /\ stored[w].rev \in Int
  BY <1>2, RecordType, UseType DEF Phases
<1>5. /\ claim' \in [Pipelines -> Accesses \cup {"none"}] /\ claim'[w] = Use(phase)
      /\ \A v \in Pipelines \ {w} : claim'[v] = claim[v]
  BY <1>1, <1>2, <1>4 DEF PipelineTypes
<1>6. PipeInv(w)'
  BY <1>1, <1>2, <1>3, <1>4, <1>5 DEF PipeInv, Older
<1>7. PipelineTypes' /\ ScanInv'
  BY <1>1, <1>2, <1>3, <1>5 DEF PipelineTypes, ScanInv, Older
<1>8. Claims
  <2>1. \A u \in Uses(w)' : u \in Uses(w) \/ Claimable(u)
    BY <1>1, <1>5 DEF Uses
  <2> QED
    BY <1>1, <1>5, <2>1, SameUses DEF Claims
<1> QED
  BY <1>1, <1>3, <1>5, <1>6, <1>7, <1>8, OnePipelineStep

\* The session is saved; the claim stands for it until the save is noted.
LEMMA SaveStageStep ==
    ASSUME PipelineInv, NEW w \in Pipelines, SaveStage(w)
    PROVE  PipelineInv' /\ Claims
<1> DEFINE phase == IF claim[w] = "write" THEN "building" ELSE "reviewing"
<1>1. /\ claim[w] # "none" /\ stored[w].rev < MaxRevision /\ opened' = opened \cup {w}
      /\ stored' = [stored EXCEPT ![w] = [rev |-> @.rev + 1, phase |-> phase]]
      /\ notes' = notes \cup {<<w, stored'[w]>>}
      /\ UNCHANGED <<entry, claim, scan, writersSeeded, using>>
  BY DEF SaveStage
<1>2. PipelineTypes /\ ScanInv /\ PipeInv(w) /\ phase \in Phases
  BY DEF PipelineInv, Phases
<1>3. Use(phase) = claim[w] /\ phase \in {"building", "reviewing"} /\ using[w] = "none"
  BY <1>1, <1>2 DEF Use, PipelineTypes, Accesses, PipeInv
<1>4. /\ stored' \in [Pipelines -> Records] /\ stored'[w].phase = phase
      /\ \A v \in Pipelines \ {w} : stored'[v] = stored[v]
      /\ \A r \in EntryRecords : Older(r, w) => Older(r, w)' /\ r.rev < stored'[w].rev
      /\ \A n \in Pipelines \X Records : Older(n[2], n[1]) => Older(n[2], n[1])'
  <2> HIDE DEF phase
  <2> QED
    BY <1>1, <1>2, Saving
<1> HIDE DEF phase
<1>5. stored'[w] \in Records /\ stored'[w] \in EntryRecords /\ entry[w] \in EntryRecords
  BY <1>2, <1>4 DEF PipelineTypes, EntryRecords
<1>6. Older(stored[w], w)'
  <2>1. stored'[w].rev \in Int
    BY <1>5, RecordType
  <2> QED
    BY <2>1 DEF Older
<1>7. PipeInv(w)'
  <2>1. PICK r \in EntryRecords : r = entry[w]
    BY <1>5
  <2>2. Older(entry[w], w)'
    BY <1>1, <1>2, <1>4, <2>1 DEF PipeInv, Older
  <2> QED
    BY <1>1, <1>2, <1>3, <1>4, <2>2 DEF PipeInv
<1>8. PipelineTypes'
  BY <1>1, <1>2, <1>4, <1>5 DEF PipelineTypes
<1>9. ScanInv'
  <2>1. ASSUME NEW n \in notes' \cup scan' PROVE Older(n[2], n[1])'
    <3>1. CASE n = <<w, stored'[w]>>
      BY <1>6, <3>1 DEF Older
    <3>2. CASE n \in notes \cup scan
      BY <1>2, <1>4, <3>2 DEF ScanInv, PipelineTypes
    <3> QED
      BY <1>1, <2>1, <3>1, <3>2
  <2> QED
    BY <1>1, <1>2, <2>1 DEF ScanInv
<1>10. Claims
  <2>1. Uses(w)' \subseteq Uses(w)
    BY <1>1, <1>3, <1>4 DEF Uses
  <2> QED
    BY <1>1, <1>4, <2>1, SameUses DEF Claims
<1> QED
  BY <1>1, <1>4, <1>7, <1>8, <1>9, <1>10, OnePipelineStep

LEMMA StartStageStep ==
    ASSUME PipelineInv, NEW w \in Pipelines, NEW sent \in BOOLEAN, StartStage(w, sent)
    PROVE  PipelineInv' /\ Claims
<1>1. /\ w \in opened /\ opened' = opened \ {w} /\ entry' = Noted(w)
      /\ claim' = [claim EXCEPT ![w] = "none"]
      /\ using' = IF sent THEN [using EXCEPT ![w] = claim[w]] ELSE using
      /\ UNCHANGED <<stored, notes, scan, writersSeeded>>
  BY DEF StartStage
<1>2. PipelineTypes /\ ScanInv /\ PipeInv(w) /\ stored[w] \in EntryRecords
  BY DEF PipelineInv, PipelineTypes, EntryRecords
<1>3. /\ entry' \in [Pipelines -> EntryRecords] /\ entry'[w] = stored[w]
      /\ \A v \in Pipelines \ {w} : entry'[v] = entry[v]
  BY <1>1, Noting
<1>4. stored[w].rev \in Int
  BY <1>2, RecordType
<1>5. /\ claim' \in [Pipelines -> Accesses \cup {"none"}] /\ claim'[w] = "none"
      /\ using' \in [Pipelines -> Accesses \cup {"none"}] /\ using'[w] \in {using[w], claim[w]}
      /\ \A v \in Pipelines \ {w} : claim'[v] = claim[v] /\ using'[v] = using[v]
  BY <1>1, <1>2 DEF PipelineTypes
<1>6. PipeInv(w)'
  BY <1>1, <1>2, <1>3, <1>4, <1>5 DEF PipeInv, Older
<1>7. PipelineTypes' /\ ScanInv'
  BY <1>1, <1>2, <1>3, <1>5 DEF PipelineTypes, ScanInv, Older
<1>8. Claims
  <2>1. Uses(w)' \subseteq Uses(w)
    BY <1>1, <1>5 DEF Uses
  <2> QED
    BY <1>1, <1>5, <2>1, SameUses DEF Claims
<1> QED
  BY <1>1, <1>3, <1>5, <1>6, <1>7, <1>8, OnePipelineStep

\* StageNotOpened and TurnEnds: a claim or a use goes.
LEMMA LetGoSteps ==
    ASSUME PipelineInv, NEW w \in Pipelines, StageNotOpened(w) \/ TurnEnds(w)
    PROVE  PipelineInv' /\ Claims
<1>1. /\ claim' \in {claim, [claim EXCEPT ![w] = "none"]}
      /\ using' \in {using, [using EXCEPT ![w] = "none"]}
      /\ w \in opened => claim' = claim
      /\ UNCHANGED <<stored, entry, opened, notes, scan, writersSeeded>>
  BY DEF StageNotOpened, TurnEnds
<1>2. PipelineTypes /\ ScanInv /\ PipeInv(w)
  BY DEF PipelineInv
<1>3. /\ claim' \in [Pipelines -> Accesses \cup {"none"}] /\ claim'[w] \in {claim[w], "none"}
      /\ using' \in [Pipelines -> Accesses \cup {"none"}] /\ using'[w] \in {using[w], "none"}
      /\ \A v \in Pipelines \ {w} : claim'[v] = claim[v] /\ using'[v] = using[v]
  BY <1>1, <1>2 DEF PipelineTypes
<1>4. PipeInv(w)'
  BY <1>1, <1>2, <1>3 DEF PipeInv, Older
<1>5. PipelineTypes' /\ ScanInv'
  BY <1>1, <1>2, <1>3 DEF PipelineTypes, ScanInv, Older
<1>6. Claims
  <2>1. Uses(w)' \subseteq Uses(w)
    BY <1>1, <1>3 DEF Uses
  <2> QED
    BY <1>1, <1>3, <2>1, SameUses DEF Claims
<1> QED
  BY <1>1, <1>3, <1>4, <1>5, <1>6, OnePipelineStep

\* A read that comes late is applied only where it is not older.
LEMMA ApplyNoteStep ==
    ASSUME PipelineInv, NEW n \in notes, ApplyNote(n)
    PROVE  PipelineInv' /\ Claims
<1>1. /\ notes' = notes \ {n} /\ entry' = Apply(entry, n[1], n[2])
      /\ UNCHANGED <<stored, claim, opened, scan, writersSeeded, using>>
  BY DEF ApplyNote
<1>2. PipelineTypes /\ ScanInv /\ n \in Pipelines \X Records
  BY DEF PipelineInv, PipelineTypes
<1>3. PICK w \in Pipelines, r \in Records : n = <<w, r>>
  BY <1>2
<1>4. PipeInv(w) /\ Older(r, w)
  BY <1>2, <1>3 DEF PipelineInv, ScanInv
<1>5. /\ entry' \in [Pipelines -> EntryRecords]
      /\ entry'[w] = IF entry[w].rev > r.rev THEN entry[w] ELSE r
      /\ \A v \in Pipelines \ {w} : entry'[v] = entry[v]
  BY <1>1, <1>2, <1>3, Applying DEF PipelineTypes
<1>6. entry[w].rev \in Int /\ r.rev \in Int /\ stored[w].rev \in Int
  <2>1. entry[w] \in EntryRecords /\ r \in EntryRecords /\ stored[w] \in EntryRecords
    BY <1>2 DEF PipelineTypes, EntryRecords
  <2> QED
    BY <2>1, RecordType
<1>7. Older(entry'[w], w) /\ (entry[w] = stored[w] => entry'[w] = stored[w])
  BY <1>4, <1>5, <1>6 DEF PipeInv, Older
<1>8. PipeInv(w)'
  BY <1>1, <1>4, <1>7 DEF PipeInv, Older
<1>9. PipelineTypes' /\ ScanInv'
  BY <1>1, <1>2, <1>5 DEF PipelineTypes, ScanInv, Older
<1>10. Claims
  BY <1>1, SameUses DEF Claims
<1> QED
  BY <1>1, <1>5, <1>8, <1>9, <1>10, OnePipelineStep

\* The scan, and what becomes of it.
LEMMA ScanSteps ==
    ASSUME PipelineInv, ScanPipelines \/ SeedPipelines \/ ScanFails
    PROVE  PipelineInv' /\ Claims
<1>1. UNCHANGED <<stored, claim, opened, notes, using>>
  BY DEF ScanPipelines, SeedPipelines, ScanFails
<1>2. PipelineTypes /\ ScanInv /\ \A w \in Pipelines : PipeInv(w) /\ stored[w] \in EntryRecords
  BY DEF PipelineInv, PipelineTypes, EntryRecords
<1>3. Claims
  BY <1>1, SameUses DEF Claims
<1>4. CASE ScanPipelines
  <2>1. /\ scan' = {<<w, stored[w]>> : w \in Pipelines} /\ ~writersSeeded
        /\ UNCHANGED <<entry, writersSeeded>>
    BY <1>4 DEF ScanPipelines
  <2>2. PipelineTypes'
    BY <1>1, <1>2, <2>1 DEF PipelineTypes
  <2>3. ScanInv'
    <3>1. ASSUME NEW w \in Pipelines PROVE Older(stored[w], w)
      BY <1>2, RecordType DEF Older
    <3>2. ASSUME NEW n \in scan' PROVE Older(n[2], n[1])'
      BY <1>1, <2>1, <3>1, <3>2 DEF Older
    <3>3. ASSUME NEW n \in notes' PROVE Older(n[2], n[1])'
      BY <1>1, <1>2, <3>3 DEF ScanInv, Older
    <3>4. \A w \in Pipelines : <<w, stored[w]>> \in scan' /\ <<w, stored[w]>>[1] = w
      BY <2>1
    <3>5. ASSUME NEW n \in scan', NEW m \in scan', n[1] = m[1] PROVE n = m
      <4>1. PICK v \in Pipelines : n = <<v, stored[v]>>
        BY <2>1
      <4>2. PICK w \in Pipelines : m = <<w, stored[w]>>
        BY <2>1
      <4> QED
        BY <3>5, <4>1, <4>2
    <3> QED
      BY <3>2, <3>3, <3>4, <3>5 DEF ScanInv
  <2>4. \A w \in Pipelines : PipeInv(w)'
    BY <1>1, <1>2, <2>1 DEF PipeInv, Older
  <2> QED
    BY <1>3, <2>2, <2>3, <2>4 DEF PipelineInv
<1>5. CASE SeedPipelines
  <2>1. /\ scan # {} /\ scan' = {} /\ writersSeeded' = TRUE
        /\ entry' = [w \in Pipelines |-> LET r == CHOOSE n \in scan : n[1] = w
                                         IN Apply(entry, w, r[2])[w]]
    BY <1>5 DEF SeedPipelines
  <2>2. ASSUME NEW w \in Pipelines
        PROVE  /\ entry'[w] \in EntryRecords /\ Older(entry'[w], w)
               /\ w \in opened \/ entry'[w] = stored[w]
    <3>1. PICK m \in scan : m = CHOOSE n \in scan : n[1] = w
      BY <1>2, <2>1 DEF ScanInv
    <3>2. m[1] = w
      BY <1>2, <2>1, <3>1 DEF ScanInv
    <3>3. m \in Pipelines \X Records
      BY <1>2 DEF PipelineTypes
    <3>4. PICK r \in Records : m = <<w, r>>
      BY <3>2, <3>3
    <3>5. entry'[w] = Apply(entry, w, r)[w]
      <4>1. entry'[w] = Apply(entry, w, (CHOOSE n \in scan : n[1] = w)[2])[w]
        BY <2>1
      <4>2. m[2] = r
        BY <3>4
      <4> QED
        BY <3>1, <4>1, <4>2
    <3>6. entry'[w] = IF entry[w].rev > r.rev THEN entry[w] ELSE r
      BY <1>2, <3>5, Applying DEF PipelineTypes
    <3>7. Older(r, w) /\ Older(entry[w], w) /\ entry[w] \in EntryRecords /\ r \in EntryRecords
      <4>1. Older(m[2], m[1])
        BY <1>2 DEF ScanInv
      <4>2. m[2] = r /\ m[1] = w
        BY <3>4
      <4> QED
        BY <1>2, <4>1, <4>2 DEF PipeInv, PipelineTypes, EntryRecords
    <3>8. entry[w].rev \in Int /\ r.rev \in Int /\ stored[w].rev \in Int
      BY <1>2, <3>7, RecordType
    <3>9. w \in opened \/ entry[w] = stored[w] \/ r = stored[w]
      <4>1. w \in opened \/ entry[w] = stored[w] \/ <<w, stored[w]>> \in scan
        BY <1>2, <2>1 DEF PipeInv
      <4>2. <<w, stored[w]>> \in scan => <<w, stored[w]>> = m
        BY <1>2, <3>2 DEF ScanInv
      <4> QED
        BY <3>4, <4>1, <4>2
    <3> QED
      BY <3>6, <3>7, <3>8, <3>9 DEF Older
  <2>3. PipelineTypes'
    <3>1. entry' \in [Pipelines -> EntryRecords]
      BY <2>1, <2>2
    <3> QED
      BY <1>1, <1>2, <2>1, <3>1 DEF PipelineTypes
  <2>4. ScanInv'
    BY <1>1, <1>2, <2>1 DEF ScanInv, Older
  <2>5. \A w \in Pipelines : PipeInv(w)'
    BY <1>1, <1>2, <2>1, <2>2 DEF PipeInv, Older
  <2> QED
    BY <1>3, <2>3, <2>4, <2>5 DEF PipelineInv
<1>6. CASE ScanFails
  <2>1. scan' = {} /\ UNCHANGED <<entry, writersSeeded>>
    BY <1>6 DEF ScanFails
  <2>2. PipelineTypes' /\ ScanInv'
    BY <1>1, <1>2, <2>1 DEF PipelineTypes, ScanInv, Older
  <2>3. \A w \in Pipelines : PipeInv(w)'
    BY <1>1, <1>2, <2>1 DEF PipeInv, Older
  <2> QED
    BY <1>3, <2>2, <2>3 DEF PipelineInv
<1> QED
  BY <1>4, <1>5, <1>6

LEMMA PipelineRestart ==
    ASSUME PipelineInv, RestartBackend
    PROVE  PipelineInv' /\ \A w \in Pipelines : Uses(w)' \subseteq Uses(w)
<1>1. /\ entry' = [w \in Pipelines |-> NoEntered] /\ claim' = [w \in Pipelines |-> "none"]
      /\ opened' = {} /\ notes' = {} /\ scan' = {} /\ writersSeeded' = FALSE
      /\ UNCHANGED <<stored, using>>
  BY DEF RestartBackend
<1>2. PipelineTypes /\ \A w \in Pipelines : PipeInv(w)
  BY DEF PipelineInv
<1>3. PipelineTypes' /\ ScanInv'
  BY <1>1, <1>2 DEF PipelineTypes, ScanInv, EntryRecords
<1>4. ASSUME NEW w \in Pipelines PROVE PipeInv(w)' /\ Uses(w)' \subseteq Uses(w)
  <2>1. entry'[w].rev = -1 /\ stored[w].rev \in 0..MaxRevision /\ claim'[w] = "none"
    BY <1>1, <1>2 DEF NoEntered, PipelineTypes, Records
  <2>2. Older(entry[w], w)'
    BY <1>1, <2>1 DEF Older
  <2> QED
    BY <1>1, <1>2, <2>1, <2>2 DEF PipeInv, Uses
<1> QED
  BY <1>3, <1>4 DEF PipelineInv

LEMMA SamePipelines ==
    ASSUME PipelineInv, UNCHANGED pipelineVars
    PROVE  PipelineInv' /\ \A w \in Pipelines : Uses(w)' = Uses(w)
BY DEF PipelineInv, PipelineTypes, ScanInv, PipeInv, Older, Uses, pipelineVars

----------------------------------------------------------------------------
(* Both sides.                                                             *)

Shared(a, b) == a = "read" /\ b = "read"

\* Whatever is active shares the checkout with everything else that uses it.
Apart ==
    ~gap =>
        /\ \A g, h \in GraphRuns : \A i \in Active(g), j \in Active(h) :
               g # h \/ i # j => Shared(Nodes[g][i], Nodes[h][j])
        /\ \A g \in GraphRuns, w \in Pipelines : \A i \in Active(g), u \in Uses(w) :
               Shared(Nodes[g][i], u)

SharingInv == GraphInv /\ PipelineInv /\ Apart

LEMMA NodeAccess ==
    ASSUME NEW g \in GraphRuns, NEW i \in DOMAIN Nodes[g] PROVE Nodes[g][i] \in Accesses
<1>1. Nodes[g] \in Seq(Accesses)
  BY SharingAssumption
<1> QED
  BY <1>1

LEMMA PipelineAccess ==
    ASSUME PipelineTypes, NEW w \in Pipelines PROVE Uses(w) \subseteq Accesses
<1>1. stored[w].phase \in Phases
  BY DEF PipelineTypes, Records
<1> QED
  BY <1>1, UseType DEF PipelineTypes, Uses

LEMMA ApartInit == SharingInit => Apart
BY IdlePass DEF SharingInit, Apart, Active

\* Uses that go need no permission.
LEMMA FewerUses ==
    ASSUME Apart, gap => gap',
           \A g \in GraphRuns : Active(g)' \subseteq Active(g),
           \A w \in Pipelines : Uses(w)' \subseteq Uses(w)
    PROVE  Apart'
BY DEF Apart

\* A claim asks the lock table, which has whatever is active.
LEMMA ClaimedUses ==
    ASSUME SharingInv, PipelineTypes', Claims, gap' = gap,
           \A g \in GraphRuns : Active(g)' = Active(g)
    PROVE  Apart'
<1> SUFFICES ASSUME ~gap' PROVE Apart'
  BY DEF Apart
<1>1. ASSUME NEW g \in GraphRuns, NEW w \in Pipelines, NEW i \in Active(g)', NEW u \in Uses(w)'
      PROVE  Shared(Nodes[g][i], u)
  <2>1. i \in Active(g) /\ i \in DOMAIN Nodes[g]
    BY <1>1 DEF Active
  <2>2. CASE u \in Uses(w)
    BY <2>1, <2>2 DEF SharingInv, Apart
  <2>3. CASE Claimable(u)
    <3>1. i \in lock[g] /\ Allows(GraphHold, u)
      BY <2>1, <2>3 DEF SharingInv, GraphInv, RunInv, Claimable
    <3>2. Nodes[g][i] \in GraphHold
      BY <3>1 DEF GraphHold, AccessesOf
    <3>3. u \in Accesses /\ Nodes[g][i] \in Accesses
      <4>1. stored'[w].phase \in Phases
        BY DEF PipelineTypes, Records
      <4>2. Uses(w)' \subseteq Accesses
        BY <4>1, UseType DEF PipelineTypes, Uses
      <4> QED
        BY <1>1, <2>1, <4>2, NodeAccess
    <3> QED
      BY <3>1, <3>2, <3>3 DEF Allows, Accesses, Shared
  <2> QED
    BY <2>2, <2>3 DEF Claims
<1>2. ASSUME NEW g \in GraphRuns, NEW h \in GraphRuns, NEW i \in Active(g)', NEW j \in Active(h)',
             g # h \/ i # j
      PROVE  Shared(Nodes[g][i], Nodes[h][j])
  BY <1>2 DEF SharingInv, Apart
<1> QED
  BY <1>1, <1>2 DEF Apart

\* Once seeded, the projection and the claims have whatever a pipeline uses.
LEMMA ExternalCovers ==
    ASSUME PipelineInv, writersSeeded, NEW w \in Pipelines, NEW u \in Uses(w),
           NEW a \in Accesses, Allows(ExternalHold, a)
    PROVE  Shared(a, u)
<1>1. PipelineTypes /\ PipeInv(w) /\ u \in Accesses /\ u # "none"
  BY PipelineAccess DEF PipelineInv, Uses
<1> DEFINE s == Strongest(Use(entry[w].phase), claim[w])
<1>2. s # "none" => s \in ExternalHold
  BY DEF ExternalHold
<1>3. Use(entry[w].phase) \in Accesses \cup {"none"} /\ claim[w] \in Accesses \cup {"none"}
  <2>1. entry[w] \in EntryRecords
    BY <1>1 DEF PipelineTypes
  <2> QED
    BY <1>1, <2>1, RecordType, UseType DEF PipelineTypes
<1>4. u = claim[w] \/ u = Use(entry[w].phase)
  <2>1. CASE w \in opened
    <3>1. using[w] = "none" /\ claim[w] = Use(stored[w].phase)
      BY <1>1, <2>1 DEF PipeInv
    <3> QED
      BY <3>1 DEF Uses
  <2>2. CASE entry[w] = stored[w]
    BY <1>1, <2>2 DEF Uses, PipeInv
  <2> QED
    BY <1>1, <2>1, <2>2 DEF PipeInv
<1>5. s # "none" /\ (u = "write" => s = "write")
  BY <1>1, <1>3, <1>4 DEF Strongest, Accesses
<1> QED
  BY <1>1, <1>2, <1>5 DEF Allows, Accesses, Shared

\* An admission asks both tables, and the activations admitted before it.
LEMMA AdmittedUses ==
    ASSUME SharingInv, NEW g \in GraphRuns, NEW seen \in SUBSET Ended(g),
           NEW wanted \in SUBSET Wanted(g), NEW admit \in SUBSET wanted,
           PassAdmit(g, seen, wanted, admit)
    PROVE  Apart'
<1>1. /\ Active(g)' = Active(g) \cup admit /\ Active(g) \subseteq StoredHold(g) \ seen
      /\ \A h \in GraphRuns \ {g} : Active(h)' = Active(h)
  BY PassAdmitRun DEF SharingInv
<1>2. UNCHANGED pipelineVars /\ gap' = gap
  BY DEF PassAdmit
<1>3. PipelineInv /\ GraphInv /\ Apart /\ \A w \in Pipelines : Uses(w)' = Uses(w)
  BY <1>2, SamePipelines DEF SharingInv
<1> SUFFICES ASSUME ~gap' PROVE Apart'
  BY DEF Apart
<1>4. ASSUME NEW i \in admit
      PROVE  /\ graphSeeded /\ writersSeeded /\ i \in DOMAIN Nodes[g] /\ Nodes[g][i] \in Accesses
             /\ Select(g, AccessesOf(g, StoredHold(g) \ seen), wanted, admit)
             /\ i \in Nat
  <2>1. i \in DOMAIN Nodes[g] /\ admit # {}
    BY <1>4 DEF Wanted
  <2>2. Nodes[g] \in Seq(Accesses)
    BY SharingAssumption
  <2>3. i \in Nat
    BY <2>1, <2>2
  <2> QED
    BY <2>1, <2>3, NodeAccess DEF PassAdmit
<1>5. ASSUME NEW i \in admit
      PROVE  /\ Allows(ExternalHold, Nodes[g][i])
             /\ Allows(AccessesOf(g, StoredHold(g) \ seen)
                         \cup AccessesOf(g, {j \in wanted : j < i} \cap admit)
                         \cup Others(g), Nodes[g][i])
  BY <1>4, <1>5 DEF Select
<1>6. ASSUME NEW i \in admit, NEW a \in Accesses,
             \/ a \in Others(g) \/ a \in AccessesOf(g, StoredHold(g) \ seen)
             \/ a \in AccessesOf(g, {j \in wanted : j < i} \cap admit)
      PROVE  Shared(Nodes[g][i], a) /\ Shared(a, Nodes[g][i])
  BY <1>4, <1>5, <1>6 DEF Allows, Accesses, Shared
<1>7. ASSUME NEW i \in admit, NEW j \in Active(g) \cup admit, i # j
      PROVE  Shared(Nodes[g][i], Nodes[g][j]) /\ Shared(Nodes[g][j], Nodes[g][i])
  <2>1. CASE j \in Active(g)
    <3>1. Nodes[g][j] \in AccessesOf(g, StoredHold(g) \ seen) /\ j \in DOMAIN Nodes[g]
      BY <1>1, <2>1 DEF AccessesOf, Active
    <3> QED
      BY <1>6, <3>1, NodeAccess
  <2>2. CASE j \in admit
    <3>1. i \in Nat /\ j \in Nat /\ Nodes[g][i] \in Accesses /\ Nodes[g][j] \in Accesses
      BY <1>4, <2>2
    <3>2. CASE j < i
      BY <1>6, <2>2, <3>1, <3>2 DEF AccessesOf
    <3>3. CASE i < j
      <4>1. Nodes[g][i] \in AccessesOf(g, {k \in wanted : k < j} \cap admit)
        BY <1>7, <3>3 DEF AccessesOf
      <4> QED
        BY <1>6, <2>2, <3>1, <4>1
    <3> QED
      BY <1>7, <3>1, <3>2, <3>3
  <2> QED
    BY <1>7, <2>1, <2>2
<1>8. ASSUME NEW i \in admit, NEW h \in GraphRuns \ {g}, NEW j \in Active(h)
      PROVE  Shared(Nodes[g][i], Nodes[h][j]) /\ Shared(Nodes[h][j], Nodes[g][i])
  <2>1. j \in lock[h] /\ j \in DOMAIN Nodes[h]
    BY <1>2, <1>3, <1>4, <1>8 DEF GraphInv, RunInv, Active
  <2>2. Nodes[h][j] \in Others(g)
    BY <1>8, <2>1 DEF Others, AccessesOf
  <2> QED
    BY <1>6, <2>1, <2>2, NodeAccess
<1>9. ASSUME NEW h \in GraphRuns, NEW k \in GraphRuns, NEW i \in Active(h)', NEW j \in Active(k)',
             h # k \/ i # j
      PROVE  Shared(Nodes[h][i], Nodes[k][j])
  <2>1. CASE i \in Active(h) /\ j \in Active(k)
    BY <1>2, <1>3, <1>9, <2>1 DEF Apart
  <2>2. CASE i \notin Active(h)
    <3>1. h = g /\ i \in admit
      BY <1>1, <2>2
    <3>2. CASE k = g
      BY <1>1, <1>7, <1>9, <3>1, <3>2
    <3>3. CASE k # g
      BY <1>1, <1>8, <3>1, <3>3
    <3> QED
      BY <3>2, <3>3
  <2>3. CASE j \notin Active(k)
    <3>1. k = g /\ j \in admit
      BY <1>1, <2>3
    <3>2. CASE h = g
      BY <1>1, <1>7, <1>9, <3>1, <3>2
    <3>3. CASE h # g
      BY <1>1, <1>8, <3>1, <3>3
    <3> QED
      BY <3>2, <3>3
  <2> QED
    BY <2>1, <2>2, <2>3
<1>10. ASSUME NEW h \in GraphRuns, NEW w \in Pipelines, NEW i \in Active(h)', NEW u \in Uses(w)'
       PROVE  Shared(Nodes[h][i], u)
  <2>1. CASE i \in Active(h)
    BY <1>2, <1>3, <1>10, <2>1 DEF Apart
  <2>2. CASE i \notin Active(h)
    <3>1. h = g /\ i \in admit /\ u \in Uses(w)
      BY <1>1, <1>3, <1>10, <2>2
    <3> QED
      BY <1>3, <1>4, <1>5, <3>1, ExternalCovers
  <2> QED
    BY <2>1, <2>2
<1> QED
  BY <1>9, <1>10 DEF Apart

LEMMA SharingInvNext ==
    ASSUME SharingInv, [SharingNext]_sharingVars
    PROVE  SharingInv'
<1>1. GraphInv /\ PipelineInv /\ Apart
  BY DEF SharingInv
<1>2. ASSUME NEW g \in GraphRuns, GraphStep(g) PROVE SharingInv'
  <2>1. UNCHANGED pipelineVars /\ gap' = gap
    BY <1>2 DEF GraphStep, PassBegin, PassSave, PassEnd, PassAdmit, StartActivation,
                ActivationEnds
  <2>2. PipelineInv' /\ \A w \in Pipelines : Uses(w)' \subseteq Uses(w)
    BY <1>1, <2>1, SamePipelines
  <2>3. CASE \E seen \in SUBSET Ended(g), wanted \in SUBSET Wanted(g) :
                 \E admit \in SUBSET wanted : PassAdmit(g, seen, wanted, admit)
    BY <1>1, <2>2, <2>3, PassAdmitRun, AdmittedUses DEF SharingInv
  <2>4. CASE \/ PassBegin(g) \/ PassSave(g) \/ PassEnd(g)
             \/ \E i \in DOMAIN Nodes[g] : StartActivation(g, i) \/ ActivationEnds(g, i)
    <3>1. GraphInv' /\ \A h \in GraphRuns : Active(h)' \subseteq Active(h)
      BY <1>1, <2>4, PassBeginRun, PassSaveRun, PassEndRun, ActivationRun
    <3>2. Apart'
      BY <1>1, <2>1, <2>2, <3>1, FewerUses
    <3> QED
      BY <2>2, <3>1, <3>2 DEF SharingInv
  <2> QED
    BY <1>2, <2>3, <2>4 DEF GraphStep
<1>3. ASSUME UNCHANGED graphVars, PipelineInv', Claims PROVE SharingInv'
  <2>1. GraphInv' /\ (\A h \in GraphRuns : Active(h)' = Active(h)) /\ gap' = gap
    BY <1>1, <1>3, SameGraphs DEF graphVars
  <2> QED
    BY <1>3, <2>1, ClaimedUses DEF SharingInv, PipelineInv
<1>4. ASSUME NEW w \in Pipelines, PipelineStep(w) PROVE SharingInv'
  <2>1. UNCHANGED graphVars
    BY <1>4 DEF PipelineStep, EnterSetup, RunSetup, ClaimStage, SaveStage, StageNotOpened,
                SendPending, StartStage, TurnEnds, FinishPipeline
  <2>2. PipelineInv' /\ Claims
    BY <1>1, <1>4, SaveSteps, SendSteps, ClaimStageStep, SaveStageStep, StartStageStep,
       LetGoSteps DEF PipelineStep
  <2> QED
    BY <1>3, <2>1, <2>2
<1>5. ASSUME NEW n \in notes, ApplyNote(n) PROVE SharingInv'
  BY <1>1, <1>3, <1>5, ApplyNoteStep DEF ApplyNote
<1>6. CASE ScanPipelines \/ SeedPipelines \/ ScanFails
  <2>1. UNCHANGED graphVars
    BY <1>6 DEF ScanPipelines, SeedPipelines, ScanFails
  <2> QED
    BY <1>1, <1>3, <1>6, <2>1, ScanSteps
<1>7. CASE ReadGraphRuns \/ SeedGraphs \/ RestartBackend
  <2>1. /\ GraphInv' /\ (gap => gap')
        /\ \A h \in GraphRuns : Active(h)' \subseteq Active(h)
    BY <1>1, <1>7, SeedRuns
  <2>2. PipelineInv' /\ \A w \in Pipelines : Uses(w)' \subseteq Uses(w)
    BY <1>1, <1>7, PipelineRestart, SamePipelines DEF ReadGraphRuns, SeedGraphs
  <2>3. Apart'
    BY <1>1, <2>1, <2>2, FewerUses
  <2> QED
    BY <2>1, <2>2, <2>3 DEF SharingInv
<1>8. CASE UNCHANGED sharingVars
  <2>1. UNCHANGED graphVars /\ UNCHANGED pipelineVars
    BY <1>8 DEF sharingVars, graphVars, pipelineVars
  <2>2. PipelineInv' /\ Claims
    BY <1>1, <2>1, SamePipelines DEF Claims
  <2> QED
    BY <1>3, <2>1, <2>2
<1> QED
  BY <1>2, <1>4, <1>5, <1>6, <1>7, <1>8 DEF SharingNext

LEMMA SharingInvInit == SharingInit => SharingInv
BY GraphInit, PipelineInit, ApartInit DEF SharingInv

\* OneWriter: a graph activation that writes is alone in the checkout, and one that
\* reads shares it with readers only, whichever reads, claims, saves and scans of the
\* two engines overlap and whenever the backend is restarted, as long as discovery
\* has not lost the holds of a run (gap).
THEOREM AlwaysOneWriter == SharingSpec => []OneWriter
<1>1. SharingInv => OneWriter
  <2> SUFFICES ASSUME SharingInv, ~gap, NEW x \in RunningActivations
               PROVE  Allows(GraphUses(RunningActivations \ {x})
                               \cup ({using[w] : w \in Pipelines} \ {"none"}), Nodes[x[1]][x[2]])
    BY DEF OneWriter
  <2>1. ASSUME NEW y \in RunningActivations
        PROVE  /\ y[1] \in GraphRuns /\ y[2] \in Active(y[1]) /\ y = <<y[1], y[2]>>
               /\ Nodes[y[1]][y[2]] \in Accesses
    <3>1. PICK g \in GraphRuns : \E i \in DOMAIN Nodes[g] : y = <<g, i>>
      BY <2>1 DEF RunningActivations
    <3>2. PICK i \in DOMAIN Nodes[g] : y = <<g, i>>
      BY <3>1
    <3>3. act[g][i] = "running"
      BY <2>1, <3>2 DEF RunningActivations
    <3> QED
      BY <3>2, <3>3, NodeAccess DEF Active
  <2>2. ASSUME NEW y \in RunningActivations \ {x} PROVE Shared(Nodes[x[1]][x[2]], Nodes[y[1]][y[2]])
    <3>1. x[1] # y[1] \/ x[2] # y[2]
      BY <2>1, <2>2
    <3> QED
      BY <2>1, <2>2, <3>1 DEF SharingInv, Apart
  <2>3. ASSUME NEW w \in Pipelines, using[w] # "none" PROVE Shared(Nodes[x[1]][x[2]], using[w])
    <3>1. using[w] \in Uses(w)
      BY <2>3 DEF Uses
    <3> QED
      BY <2>1, <3>1 DEF SharingInv, Apart
  <2>4. ASSUME NEW u \in GraphUses(RunningActivations \ {x})
                           \cup ({using[w] : w \in Pipelines} \ {"none"})
        PROVE  Shared(Nodes[x[1]][x[2]], u)
    BY <2>2, <2>3, <2>4 DEF GraphUses
  <2> QED
    BY <2>4 DEF Allows, Shared
<1>2. SharingInv /\ [SharingNext]_sharingVars => SharingInv'
  BY SharingInvNext
<1> QED
  BY <1>1, <1>2, SharingInvInit, PTL DEF SharingSpec

\* SharingTypeOK for any runs and pipelines: no pass reserves or settles what is not an
\* activation of its run, and no save exceeds the bound on revisions.
THEOREM SharingTyped == SharingSpec => []SharingTypeOK
<1> DEFINE R == restarts \in 0..MaxRestarts
<1>1. SharingInit => R
  BY SharingAssumption DEF SharingInit
<1>2. R /\ [SharingNext]_sharingVars => R'
  <2> SUFFICES ASSUME restarts \in 0..MaxRestarts, [SharingNext]_sharingVars
               PROVE  restarts' \in 0..MaxRestarts
    OBVIOUS
  <2>1. RestartBackend \/ restarts' = restarts
    BY DEF SharingNext, sharingVars, GraphStep, PassBegin, PassSave, PassEnd, PassAdmit,
           StartActivation, ActivationEnds, PipelineStep, EnterSetup, RunSetup, ClaimStage,
           SaveStage, StageNotOpened, SendPending, StartStage, TurnEnds, FinishPipeline,
           ApplyNote, ScanPipelines, SeedPipelines, ScanFails, ReadGraphRuns, SeedGraphs
  <2> QED
    BY <2>1, SharingAssumption DEF RestartBackend
<1>3. SharingInv /\ R => SharingTypeOK
  BY DEF SharingInv, GraphInv, GraphTypes, RunInv, Passes, PipelineInv, PipelineTypes, EntryRecords,
         SharingTypeOK
<1>4. SharingInv /\ [SharingNext]_sharingVars => SharingInv'
  BY SharingInvNext
<1> HIDE DEF R
<1> QED
  BY <1>1, <1>2, <1>3, <1>4, SharingInvInit, PTL DEF SharingSpec
=============================================================================
