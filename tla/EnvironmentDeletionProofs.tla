--------------------- MODULE EnvironmentDeletionProofs ---------------------
(***************************************************************************)
(* For any number of environments, versions, faults and restarts, deleting *)
(* environments keeps the promise of DeletionPromise, nothing is forgotten *)
(* and every entry that may be retried is in somebody's hands.             *)
(*                                                                         *)
(* The ledger covers what is left of an environment not only when its      *)
(* record is gone but from the moment its delete has written the entry;    *)
(* that it still does after a step has struck its resource off depends on  *)
(* what the running task has done before: TaskInv.  That no entry falls    *)
(* out of a pass rests on there being one retry in all the queues, the one *)
(* the pass waits for (OneRetry), so that at the end of a pass whatever is *)
(* still queued is a delete, and on the timer being unarmed during a pass. *)
(***************************************************************************)
EXTENDS EnvironmentDeletion, TLAPS

Script == Steps \cup {"tombstone", "ledger", "remove", "end"}

\* Whatever is left of e is owed, or is a branch that is kept.
Covered(e) ==
    \A s \in host[e] : s \in ledger[e].pending \/ (s = "branch" /\ e \in Unmerged)

Entries == [pending : SUBSET Steps, attempts : Nat, versions : SUBSET Backends]

DeletionShape ==
    /\ record \in [Envs -> {"live", "deleting", "gone"}]
    /\ host \in [Envs -> SUBSET Steps]
    /\ ledger \in [Envs -> Entries]
    /\ queue \in [Envs -> Seq({"delete", "reconcile"})]
    /\ todo \in [Envs -> SUBSET Script]
    /\ backend \in Backends

Within(e) ==
    /\ host[e] \subseteq Owns[e] /\ ledger[e].pending \subseteq Owns[e]
    /\ todo[e] \cap Steps \subseteq Owns[e]

\* A delete is the first of its queue and holds the guard; retries are queued for
\* environments whose record is gone.
QueueInv(e) ==
    /\ queue[e] = <<>> => todo[e] = {}
    /\ \A i \in 1..Len(queue[e]) : /\ i > 1 => queue[e][i] = "reconcile"
                                   /\ queue[e][i] = "reconcile" => record[e] = "gone"
    /\ Running(e, "delete") => e \in deleting

\* How far a delete has come.
DeleteInv(e) ==
    Running(e, "delete") =>
        /\ todo[e] = {} \/ "remove" \in todo[e] => record[e] # "gone"
        /\ todo[e] # {} => "end" \in todo[e]
        /\ "ledger" \in todo[e] => "remove" \in todo[e]
        /\ "tombstone" \in todo[e] => "ledger" \in todo[e]
        /\ todo[e] # {} /\ "tombstone" \notin todo[e] => record[e] # "live"
        /\ todo[e] # {} /\ "ledger" \notin todo[e] => Covered(e)

\* A retry has cleanup steps only, and a branch is judged when its worktree is gone.
TaskInv(e) ==
    /\ Running(e, "reconcile") => todo[e] \subseteq Steps \cup {"end"}
    /\ "branch" \in todo[e] /\ "worktree" \notin todo[e] => "worktree" \notin host[e]

EnvInv(e) ==
    /\ Within(e) /\ QueueInv(e) /\ DeleteInv(e) /\ TaskInv(e)
    /\ record[e] = "gone" => Covered(e)

\* The pass retries entries of environments that are gone.
PassInv ==
    /\ entries \subseteq Envs
    /\ pass \in {"loop", "waiting"} => \A e \in entries : record[e] = "gone"

DeletionInv == DeletionShape /\ PassInv /\ \A e \in Envs : EnvInv(e)

----------------------------------------------------------------------------
LEMMA DeletionInvInit == DeletionInit => DeletionInv
<1> SUFFICES ASSUME DeletionInit PROVE DeletionInv
  OBVIOUS
<1>1. NoEntry \in Entries /\ NoEntry.pending = {}
  BY DEF NoEntry, Entries
<1>2. DeletionShape
  BY <1>1, DeletionAssumption DEF DeletionInit, DeletionShape
<1>3. PassInv
  BY DEF DeletionInit, PassInv
<1>4. ASSUME NEW e \in Envs PROVE EnvInv(e)
  <2>1. queue[e] = <<>> /\ todo[e] = {} /\ host[e] = Owns[e] /\ record[e] = "live"
    BY DEF DeletionInit
  <2>2. ledger[e].pending = {}
    BY <1>1 DEF DeletionInit
  <2> QED
    BY <2>1, <2>2 DEF EnvInv, Within, QueueInv, DeleteInv, TaskInv, Running
<1> QED
  BY <1>2, <1>3, <1>4 DEF DeletionInv

\* What comes before a step in the order of a task is over when the step is done.
LEMMA StepsInOrder ==
    ASSUME DeletionShape, NEW e \in Envs, NEW s, Doing(e, s)
    PROVE  /\ s \in Script
           /\ s # "tombstone" => "tombstone" \notin todo[e]
           /\ s \notin {"tombstone", "ledger"} => "ledger" \notin todo[e]
           /\ s = "branch" => "worktree" \notin todo[e]
<1>1. s \in Script /\ todo[e] \subseteq Script
  BY DEF Doing, DeletionShape
<1>2. \A t \in todo[e] : Position(s) <= Position(t)
  BY DEF Doing
<1>3. /\ Position("tombstone") = 1 /\ Position("ledger") = 2 /\ Position("container") = 3
      /\ Position("volumes") = 4 /\ Position("network") = 5 /\ Position("worktree") = 6
      /\ Position("branch") = 7 /\ Position("remove") = 8 /\ Position("state-dirs") = 9
      /\ Position("end") = 10
  BY DEF Position
<1>4. s \in {"tombstone", "ledger", "container", "volumes", "network", "worktree", "branch",
             "remove", "state-dirs", "end"}
  BY <1>1 DEF Script, Steps
<1> QED
  BY <1>1, <1>2, <1>3, <1>4

\* A step of one environment leaves the others alone.
LEMMA OneEnvStep ==
    ASSUME DeletionInv, NEW e \in Envs, DeletionShape', EnvInv(e)',
           record[e] = "gone" => record'[e] = "gone",
           \A o \in Envs \ {e} :
               /\ record'[o] = record[o] /\ host'[o] = host[o] /\ ledger'[o] = ledger[o]
               /\ queue'[o] = queue[o] /\ todo'[o] = todo[o]
               /\ o \in deleting => o \in deleting',
           \/ UNCHANGED <<pass, entries>>
           \/ pass' = "listed" /\ entries' \subseteq Envs
           \/ entries' \subseteq entries /\ pass \in {"loop", "waiting"}
    PROVE  DeletionInv'
<1>1. ASSUME NEW o \in Envs, o # e PROVE EnvInv(o)'
  BY <1>1 DEF DeletionInv, EnvInv, Within, QueueInv, DeleteInv, TaskInv, Covered, Running
<1>2. \A o \in Envs : record[o] = "gone" => record'[o] = "gone"
  BY DEF DeletionInv
<1>3. PassInv'
  BY <1>2 DEF DeletionInv, PassInv
<1> QED
  BY <1>1, <1>3 DEF DeletionInv

\* The pass and its timer: no environment changes.
LEMMA PassStep ==
    ASSUME DeletionInv, UNCHANGED <<record, host, ledger, queue, todo, deleting>>,
           backend' \in Backends,
           \/ UNCHANGED <<pass, entries>>
           \/ pass' \in {"listed", "idle"} /\ entries' \subseteq Envs
           \/ entries' \subseteq entries /\ \A e \in entries' : record[e] = "gone"
    PROVE  DeletionInv'
<1>1. DeletionShape'
  BY DEF DeletionInv, DeletionShape
<1>2. ASSUME NEW o \in Envs PROVE EnvInv(o)'
  BY DEF DeletionInv, EnvInv, Within, QueueInv, DeleteInv, TaskInv, Covered, Running
<1>3. PassInv'
  BY DEF DeletionInv, PassInv
<1> QED
  BY <1>1, <1>2, <1>3 DEF DeletionInv

LEMMA Scheduling ==
    ASSUME Schedule
    PROVE  \/ UNCHANGED <<pass, entries>>
           \/ pass' = "listed" /\ entries' \subseteq Envs
BY DEF Schedule, List, passVars

\* The running task of e is over, the ledger has not changed and nothing was added
\* to the host.
LEMMA SettleStep ==
    ASSUME DeletionInv, NEW e \in Envs, queue[e] # <<>>, Settle(e),
           UNCHANGED <<record, ledger, backend>>,
           host' = host \/ (\E s \in Steps : host' = Removed(e, s)),
           deleting' \in {deleting, deleting \ {e}},
           \/ UNCHANGED <<pass, entries>>
           \/ pass' = "listed" /\ entries' \subseteq Envs
           \/ entries' \subseteq entries /\ pass \in {"loop", "waiting"}
    PROVE  DeletionInv'
<1>1. DeletionShape /\ EnvInv(e)
  BY DEF DeletionInv
<1>2. host' \in [Envs -> SUBSET Steps] /\ host'[e] \subseteq host[e]
      /\ \A o \in Envs \ {e} : host'[o] = host[o]
  BY <1>1 DEF DeletionShape, Removed
<1>3. queue'[e] = Tail(queue[e]) /\ todo'[e] = {}
      /\ \A o \in Envs \ {e} : queue'[o] = queue[o] /\ todo'[o] = todo[o]
  BY <1>1 DEF Settle, DeletionShape
<1>4. DeletionShape'
  BY <1>1, <1>2 DEF Settle, DeletionShape
<1>5. /\ Len(queue'[e]) = Len(queue[e]) - 1
      /\ \A i \in 1..Len(queue'[e]) : queue'[e][i] = queue[e][i + 1] /\ i + 1 \in 1..Len(queue[e])
  BY <1>1, <1>3 DEF DeletionShape
<1>6. /\ \A i \in 1..Len(queue'[e]) : queue'[e][i] = "reconcile" /\ record[e] = "gone"
      /\ Len(queue'[e]) \in Nat
  BY <1>1, <1>5 DEF EnvInv, QueueInv, DeletionShape
<1>7. ~Running(e, "delete")'
  <2>1. queue'[e] # <<>> => Head(queue'[e]) = queue'[e][1] /\ 1 \in 1..Len(queue'[e])
    BY <1>4 DEF DeletionShape
  <2> QED
    BY <1>6, <2>1 DEF Running
<1>8. Covered(e) => Covered(e)'
  BY <1>2 DEF Covered
<1>9. EnvInv(e)'
  BY <1>1, <1>2, <1>3, <1>6, <1>7, <1>8 DEF EnvInv, Within, QueueInv, DeleteInv, TaskInv
<1> QED
  BY <1>1, <1>2, <1>3, <1>4, <1>9, OneEnvStep

----------------------------------------------------------------------------
(* Tasks.                                                                  *)

\* The first task of a queue is the delete or a retry of a deleted environment.
LEMMA FirstTask ==
    ASSUME DeletionShape, NEW e \in Envs, EnvInv(e), queue[e] # <<>>
    PROVE  \/ Running(e, "delete")
           \/ Running(e, "reconcile") /\ record[e] = "gone"
<1>1. Head(queue[e]) = queue[e][1] /\ 1 \in 1..Len(queue[e])
      /\ queue[e][1] \in {"delete", "reconcile"}
  BY DEF DeletionShape
<1> QED
  BY <1>1 DEF EnvInv, QueueInv, Running

LEMMA RequestDeleteStep ==
    ASSUME DeletionInv, NEW e \in Envs, RequestDelete(e)
    PROVE  DeletionInv'
<1>1. DeletionShape /\ EnvInv(e) /\ record[e] # "gone" /\ e \notin deleting
  BY DEF DeletionInv, RequestDelete
<1>2. queue[e] = <<>>
  BY <1>1, FirstTask DEF EnvInv, QueueInv
<1>3. queue'[e] = <<"delete">> /\ todo'[e] = {} /\ e \in deleting'
  BY <1>1, <1>2 DEF RequestDelete, DeletionShape, EnvInv, QueueInv
<1>4. UNCHANGED <<record, host, ledger, todo, backend, pass, entries>>
  BY DEF RequestDelete, durable, passVars
<1>5. DeletionShape'
  BY <1>1, <1>4 DEF RequestDelete, DeletionShape
<1>6. Len(queue'[e]) = 1 /\ queue'[e][1] = "delete"
  BY <1>3
<1>7. Within(e)' /\ DeleteInv(e)' /\ QueueInv(e)'
  BY <1>1, <1>3, <1>4, <1>6 DEF EnvInv, Within, DeleteInv, QueueInv
<1>8. TaskInv(e)' /\ (record'[e] = "gone" => Covered(e)')
  BY <1>1, <1>3, <1>4 DEF TaskInv
<1>9. EnvInv(e)'
  BY <1>7, <1>8 DEF EnvInv
<1> QED
  BY <1>4, <1>5, <1>9, OneEnvStep DEF RequestDelete, DeletionInv, DeletionShape

LEMMA StartDeleteStep ==
    ASSUME DeletionInv, NEW e \in Envs, StartDelete(e)
    PROVE  DeletionInv'
<1>1. DeletionShape /\ EnvInv(e) /\ Running(e, "delete") /\ todo[e] = {}
  BY DEF DeletionInv, StartDelete
<1>2. UNCHANGED <<record, host, ledger, queue, deleting, backend, pass, entries>>
  BY DEF StartDelete, durable, passVars
<1>3. todo'[e] = Owns[e] \cup {"tombstone", "ledger", "remove", "end"}
      /\ \A o \in Envs \ {e} : todo'[o] = todo[o]
  BY <1>1 DEF StartDelete, DeletePlan, DeletionShape
<1>4. DeletionShape'
  BY <1>1, <1>2, DeletionAssumption DEF StartDelete, DeletePlan, DeletionShape, Script
<1>5. Within(e)'
  BY <1>1, <1>2, <1>3 DEF EnvInv, Within, Steps
<1>6. QueueInv(e)' /\ DeleteInv(e)'
  BY <1>1, <1>2, <1>3 DEF EnvInv, QueueInv, DeleteInv, Running
<1>7. TaskInv(e)'
  BY <1>1, <1>2, <1>3 DEF EnvInv, Within, TaskInv, Running
<1>8. EnvInv(e)'
  BY <1>1, <1>2, <1>5, <1>6, <1>7 DEF EnvInv, Covered
<1> QED
  BY <1>2, <1>3, <1>4, <1>8, OneEnvStep

LEMMA TombstoneStep ==
    ASSUME DeletionInv, NEW e \in Envs, Tombstone(e)
    PROVE  DeletionInv' /\ record[e] # "gone"
<1>1. DeletionShape /\ EnvInv(e) /\ Doing(e, "tombstone") /\ "tombstone" \in todo[e]
  BY DEF DeletionInv, Tombstone, Doing
<1>2. Running(e, "delete")
  BY <1>1, FirstTask DEF EnvInv, QueueInv, TaskInv, Steps
<1>3. record[e] # "gone" /\ "ledger" \in todo[e] /\ "remove" \in todo[e]
  BY <1>1, <1>2 DEF EnvInv, DeleteInv
<1>4. UNCHANGED <<host, ledger, queue, deleting, backend, pass, entries>>
  BY DEF Tombstone, passVars
<1>5. /\ todo'[e] = todo[e] \ {"tombstone"} /\ record'[e] = "deleting"
      /\ \A o \in Envs \ {e} : todo'[o] = todo[o] /\ record'[o] = record[o]
  BY <1>1 DEF Tombstone, Advance, DeletionShape
<1>6. DeletionShape'
  BY <1>1, <1>4 DEF Tombstone, Advance, DeletionShape
<1>7. Within(e)' /\ TaskInv(e)'
  BY <1>1, <1>2, <1>4, <1>5 DEF EnvInv, Within, TaskInv, Running, Steps
<1>8. QueueInv(e)' /\ DeleteInv(e)'
  BY <1>1, <1>2, <1>3, <1>4, <1>5 DEF EnvInv, QueueInv, DeleteInv, Running
<1>9. EnvInv(e)'
  BY <1>5, <1>7, <1>8 DEF EnvInv
<1> QED
  BY <1>3, <1>4, <1>5, <1>6, <1>9, OneEnvStep

LEMMA RecordEntryStep ==
    ASSUME DeletionInv, NEW e \in Envs, RecordEntry(e)
    PROVE  /\ DeletionInv' /\ record[e] = "deleting"
           /\ ledger'[e].pending = Owns[e] /\ \A o \in Envs \ {e} : ledger'[o] = ledger[o]
<1>1. DeletionShape /\ EnvInv(e) /\ Doing(e, "ledger") /\ "ledger" \in todo[e]
  BY DEF DeletionInv, RecordEntry, Doing
<1>2. Running(e, "delete")
  BY <1>1, FirstTask DEF EnvInv, QueueInv, TaskInv, Steps
<1>3. record[e] = "deleting" /\ "remove" \in todo[e] /\ "tombstone" \notin todo[e]
  BY <1>1, <1>2, StepsInOrder DEF EnvInv, DeleteInv, DeletionShape
<1>4. UNCHANGED <<record, host, queue, deleting, backend, pass, entries>>
  BY DEF RecordEntry, passVars
<1>5. /\ todo'[e] = todo[e] \ {"ledger"} /\ ledger'[e] = [ledger[e] EXCEPT !.pending = @ \cup Owns[e]]
      /\ \A o \in Envs \ {e} : todo'[o] = todo[o] /\ ledger'[o] = ledger[o]
  BY <1>1 DEF RecordEntry, Recorded, Advance, DeletionShape
<1>6. ledger[e] \in Entries /\ Owns[e] \in SUBSET Steps
  BY <1>1, DeletionAssumption DEF DeletionShape
<1>7. ledger'[e] \in Entries /\ ledger'[e].pending = Owns[e]
  BY <1>1, <1>5, <1>6 DEF Entries, EnvInv, Within
<1>8. DeletionShape'
  <2>1. ledger' \in [Envs -> Entries]
    BY <1>1, <1>7 DEF RecordEntry, DeletionShape
  <2> QED
    BY <1>1, <1>4, <2>1 DEF RecordEntry, Advance, DeletionShape
<1>9. Covered(e)' /\ Within(e)' /\ TaskInv(e)'
  BY <1>1, <1>2, <1>4, <1>5, <1>7 DEF EnvInv, Covered, Within, TaskInv, Running
<1>10. QueueInv(e)' /\ DeleteInv(e)'
  BY <1>1, <1>2, <1>3, <1>4, <1>5, <1>9 DEF EnvInv, QueueInv, DeleteInv, Running
<1>11. EnvInv(e)'
  BY <1>9, <1>10 DEF EnvInv
<1> QED
  BY <1>3, <1>4, <1>5, <1>7, <1>8, <1>11, OneEnvStep

LEMMA RemoveRecordStep ==
    ASSUME DeletionInv, NEW e \in Envs, RemoveRecord(e)
    PROVE  DeletionInv' /\ record[e] = "deleting" /\ Covered(e)
<1>1. DeletionShape /\ EnvInv(e) /\ Doing(e, "remove") /\ "remove" \in todo[e]
  BY DEF DeletionInv, RemoveRecord, Doing
<1>2. Running(e, "delete")
  BY <1>1, FirstTask DEF EnvInv, QueueInv, TaskInv, Steps
<1>3. "ledger" \notin todo[e] /\ "tombstone" \notin todo[e]
  BY <1>1, StepsInOrder
<1>4. record[e] = "deleting" /\ Covered(e)
  BY <1>1, <1>2, <1>3 DEF EnvInv, DeleteInv, DeletionShape
<1>5. UNCHANGED <<host, ledger, queue, deleting, backend, pass, entries>>
  BY DEF RemoveRecord, passVars
<1>6. /\ todo'[e] = todo[e] \ {"remove"} /\ record'[e] = "gone"
      /\ \A o \in Envs \ {e} : todo'[o] = todo[o] /\ record'[o] = record[o]
  BY <1>1 DEF RemoveRecord, Advance, DeletionShape
<1>7. DeletionShape'
  BY <1>1, <1>5 DEF RemoveRecord, Advance, DeletionShape
<1>8. Within(e)' /\ TaskInv(e)' /\ Covered(e)'
  BY <1>1, <1>2, <1>4, <1>5, <1>6 DEF EnvInv, Within, TaskInv, Running, Covered
<1>9. todo'[e] # {}
  <2>1. "end" \in todo[e]
    BY <1>1, <1>2 DEF EnvInv, DeleteInv
  <2> QED
    BY <1>6, <2>1
<1>10. QueueInv(e)' /\ DeleteInv(e)'
  BY <1>1, <1>2, <1>3, <1>5, <1>6, <1>8, <1>9 DEF EnvInv, QueueInv, DeleteInv, Running
<1>11. EnvInv(e)'
  BY <1>8, <1>10 DEF EnvInv
<1> QED
  BY <1>4, <1>5, <1>6, <1>7, <1>11, OneEnvStep

----------------------------------------------------------------------------
(* Cleanup steps.                                                          *)

\* What is known when a cleanup step runs, in a delete or in a retry.
LEMMA AtCleanup ==
    ASSUME DeletionInv, NEW e \in Envs, NEW s \in Steps, Doing(e, s)
    PROVE  /\ DeletionShape /\ EnvInv(e) /\ queue[e] # <<>>
           /\ s \in todo[e] /\ s \in Owns[e]
           /\ Covered(e) /\ record[e] # "live"
           /\ "ledger" \notin todo[e] /\ "tombstone" \notin todo[e]
           /\ s = "branch" => "worktree" \notin host[e]
<1>1. DeletionShape /\ EnvInv(e) /\ s \in todo[e]
  BY DEF DeletionInv, Doing
<1>2. queue[e] # <<>> /\ s \in Owns[e]
  BY <1>1 DEF EnvInv, QueueInv, Within
<1>3. "ledger" \notin todo[e] /\ "tombstone" \notin todo[e]
      /\ (s = "branch" => "worktree" \notin todo[e])
  BY <1>1, StepsInOrder DEF Steps
<1>4. Covered(e) /\ record[e] # "live"
  BY <1>1, <1>2, <1>3, FirstTask DEF EnvInv, DeleteInv
<1> QED
  BY <1>1, <1>2, <1>3, <1>4 DEF EnvInv, TaskInv

\* A step that leaves e covered goes on with the task; a step that is called done
\* has removed its resource or keeps a branch.
LEMMA CleanupStep ==
    ASSUME DeletionInv, NEW e \in Envs, NEW s \in Steps, Doing(e, s),
           NEW done \in BOOLEAN, StepOver(e, s, done),
           host' = host \/ host' = Removed(e, s),
           \/ ledger' = ledger
           \/ ledger' = [ledger EXCEPT ![e] = Completed(e, s)],
           Covered(e)', done /\ s = "worktree" => s \notin host'[e],
           UNCHANGED <<record, queue, deleting, backend, pass, entries>>
    PROVE  DeletionInv'
<1>1. /\ DeletionShape /\ EnvInv(e) /\ queue[e] # <<>> /\ s \in todo[e] /\ Covered(e)
      /\ "ledger" \notin todo[e] /\ "tombstone" \notin todo[e] /\ record[e] # "live"
  BY AtCleanup
<1>2. /\ host' \in [Envs -> SUBSET Steps] /\ host'[e] \subseteq host[e]
      /\ \A o \in Envs \ {e} : host'[o] = host[o]
  BY <1>1 DEF DeletionShape, Removed
<1>3. Completed(e, s) \in Entries /\ Completed(e, s).pending \subseteq ledger[e].pending
  <2>1. NoEntry \in Entries /\ NoEntry.pending = {}
    BY DEF NoEntry, Entries
  <2>2. ASSUME NEW n \in Entries, NEW m, m = [n EXCEPT !.pending = @ \ {s}]
        PROVE  m \in Entries /\ m.pending \subseteq n.pending
    BY <2>2 DEF Entries
  <2>3. ledger[e] \in Entries
    BY <1>1 DEF DeletionShape
  <2> QED
    BY <2>1, <2>2, <2>3 DEF Completed
<1>4. /\ ledger' \in [Envs -> Entries] /\ ledger'[e].pending \subseteq ledger[e].pending
      /\ \A o \in Envs \ {e} : ledger'[o] = ledger[o]
  BY <1>1, <1>3 DEF DeletionShape
<1>5. /\ todo' \in [Envs -> SUBSET Script]
      /\ todo'[e] = todo[e] \ (IF s = "worktree" /\ ~done THEN {s, "branch"} ELSE {s})
      /\ \A o \in Envs \ {e} : todo'[o] = todo[o]
  BY <1>1 DEF StepOver, DeletionShape
<1>6. DeletionShape'
  BY <1>1, <1>2, <1>4, <1>5 DEF DeletionShape
<1>7. /\ todo'[e] \subseteq todo[e]
      /\ \A t \in todo[e] \ Steps : t \in todo'[e]
  BY <1>5 DEF Steps
<1>8. Within(e)' /\ QueueInv(e)'
  BY <1>1, <1>2, <1>4, <1>7 DEF EnvInv, Within, QueueInv, Running
<1>9. DeleteInv(e)'
  BY <1>1, <1>7 DEF EnvInv, DeleteInv, Running, Steps
<1>10. TaskInv(e)'
  BY <1>1, <1>2, <1>5, <1>7 DEF EnvInv, TaskInv, Running
<1>11. EnvInv(e)'
  BY <1>8, <1>9, <1>10 DEF EnvInv
<1> QED
  BY <1>2, <1>4, <1>5, <1>6, <1>11, OneEnvStep

\* What is removed is no longer to be covered.
LEMMA StillCovered ==
    ASSUME DeletionInv, NEW e \in Envs, NEW s \in Steps, Doing(e, s),
           \/ /\ host' \in {host, Removed(e, s)} /\ ledger' = ledger
           \/ /\ host' = IF KeepsBranch(e, s) THEN host ELSE Removed(e, s)
              /\ ledger' = [ledger EXCEPT ![e] = Completed(e, s)]
    PROVE  Covered(e)'
<1>1. DeletionShape /\ Covered(e) /\ (s = "branch" => "worktree" \notin host[e])
  BY AtCleanup
<1>2. Completed(e, s).pending = ledger[e].pending \ {s}
  BY <1>1 DEF Completed, NoEntry, DeletionShape, Entries
<1>3. Removed(e, s)[e] = host[e] \ {s}
  BY <1>1 DEF Removed, DeletionShape
<1>4. CASE host' \in {host, Removed(e, s)} /\ ledger' = ledger
  BY <1>1, <1>3, <1>4 DEF Covered
<1>5. CASE /\ host' = IF KeepsBranch(e, s) THEN host ELSE Removed(e, s)
           /\ ledger' = [ledger EXCEPT ![e] = Completed(e, s)]
  <2>1. ledger'[e].pending = ledger[e].pending \ {s}
    BY <1>1, <1>2, <1>5 DEF DeletionShape
  <2> QED
    BY <1>1, <1>3, <1>5, <2>1 DEF Covered, KeepsBranch
<1> QED
  BY <1>4, <1>5

LEMMA CleanupSteps ==
    ASSUME DeletionInv, NEW e \in Envs, NEW s,
           \/ StepSucceeds(e, s) \/ StepRefused(e, s) \/ StepFails(e, s)
           \/ CompletionUnrecorded(e, s)
    PROVE  DeletionInv'
<1>1. s \in Steps /\ Doing(e, s)
  BY DEF StepSucceeds, StepRefused, StepFails, CompletionUnrecorded
<1>2. DeletionShape /\ Removed(e, s)[e] = host[e] \ {s}
  BY DEF DeletionInv, DeletionShape, Removed
<1>3. CASE StepSucceeds(e, s)
  <2>1. s = "worktree" => s \notin host'[e]
    BY <1>2, <1>3 DEF StepSucceeds, KeepsBranch
  <2> QED
    BY <1>1, <1>3, <2>1, StillCovered, CleanupStep DEF StepSucceeds, passVars
<1>4. CASE StepRefused(e, s)
  BY <1>1, <1>4, StillCovered, CleanupStep DEF StepRefused, durable, passVars
<1>5. CASE StepFails(e, s)
  <2>1. host' \in {host, Removed(e, s)} /\ ledger' = ledger /\ StepOver(e, s, FALSE)
    BY <1>5 DEF StepFails
  <2> QED
    BY <1>1, <1>5, <2>1, StillCovered, CleanupStep DEF StepFails, passVars
<1>6. CASE CompletionUnrecorded(e, s)
  <2>1. host' = Removed(e, s) /\ ledger' = ledger /\ StepOver(e, s, TRUE)
    BY <1>6 DEF CompletionUnrecorded
  <2> QED
    BY <1>1, <1>2, <1>6, <2>1, StillCovered, CleanupStep DEF CompletionUnrecorded, passVars
<1> QED
  BY <1>3, <1>4, <1>5, <1>6

LEMMA TaskEnds ==
    ASSUME DeletionInv, NEW e \in Envs,
           \/ FinishDelete(e) \/ DeleteFails(e) \/ DeleteAtShutdown(e) \/ FinishRetry(e)
           \/ \E s \in Steps : Deadline(e, s)
    PROVE  DeletionInv'
<1>1. queue[e] # <<>> /\ Settle(e)
  BY DEF FinishDelete, DeleteFails, DeleteAtShutdown, FinishRetry, Deadline, StopDelete, Running
<1>2. UNCHANGED <<record, ledger, backend>> /\ deleting' \in {deleting, deleting \ {e}}
  BY DEF FinishDelete, DeleteFails, DeleteAtShutdown, FinishRetry, Deadline, StopDelete, durable
<1>3. CASE FinishDelete(e)
  BY <1>1, <1>2, <1>3, Scheduling, SettleStep DEF FinishDelete, durable
<1>4. CASE DeleteFails(e) \/ DeleteAtShutdown(e)
  BY <1>1, <1>2, <1>4, SettleStep DEF DeleteFails, DeleteAtShutdown, StopDelete
<1>5. CASE FinishRetry(e)
  <2>1. record[e] = "gone"
    BY <1>1, <1>5, FirstTask DEF DeletionInv, FinishRetry, Running
  <2> QED
    BY <1>1, <1>2, <1>5, SettleStep DEF FinishRetry, durable
<1>6. CASE \E s \in Steps : Deadline(e, s)
  BY <1>1, <1>2, <1>6, SettleStep DEF Deadline, StopDelete
<1> QED
  BY <1>3, <1>4, <1>5, <1>6

----------------------------------------------------------------------------
(* Retries and passes.                                                     *)

\* Counting attempts changes nothing about what is owed.
LEMMA Counting ==
    ASSUME DeletionInv, NEW e \in Envs
    PROVE  /\ Attempted(e) \in Entries /\ Attempted(e).pending = ledger[e].pending
           /\ Rearmed(e) \in Entries /\ Rearmed(e).pending = ledger[e].pending
<1>1. ledger[e] \in Entries /\ backend \in Backends
  BY DEF DeletionInv, DeletionShape
<1>2. ASSUME NEW n \in Entries, NEW m,
             m = [n EXCEPT !.attempts = @ + 1, !.versions = @ \cup {backend}]
      PROVE  m \in Entries /\ m.pending = n.pending
  <2>1. /\ n = [pending |-> n.pending, attempts |-> n.attempts, versions |-> n.versions]
        /\ n.attempts + 1 \in Nat /\ n.versions \cup {backend} \subseteq Backends
        /\ n.pending \subseteq Steps
    BY <1>1 DEF Entries
  <2>2. m = [pending |-> n.pending, attempts |-> n.attempts + 1,
             versions |-> n.versions \cup {backend}]
    BY <1>2, <2>1
  <2> QED
    BY <2>1, <2>2 DEF Entries
<1>3. ASSUME NEW n \in Entries, NEW m,
             m = [n EXCEPT !.attempts = 0, !.versions = @ \cup {backend}]
      PROVE  m \in Entries /\ m.pending = n.pending
  BY <1>1, <1>3 DEF Entries
<1>4. Attempted(e) \in Entries /\ Attempted(e).pending = ledger[e].pending
  BY <1>1, <1>2 DEF Attempted
<1>5. Rearmed(e) \in Entries /\ Rearmed(e).pending = ledger[e].pending
  BY <1>1, <1>3 DEF Rearmed
<1> QED
  BY <1>4, <1>5

LEMMA RearmStep ==
    ASSUME DeletionInv, NEW e \in Envs, Rearm(e)
    PROVE  DeletionInv' /\ ledger'[e].pending = ledger[e].pending
<1>1. DeletionShape /\ EnvInv(e)
  BY DEF DeletionInv
<1>2. UNCHANGED <<record, host, queue, todo, deleting, backend, pass, entries>>
  BY DEF Rearm, passVars
<1>3. /\ ledger' \in [Envs -> Entries] /\ ledger'[e].pending = ledger[e].pending
      /\ \A o \in Envs \ {e} : ledger'[o] = ledger[o]
  BY <1>1, Counting DEF Rearm, DeletionShape
<1>4. DeletionShape'
  BY <1>1, <1>2, <1>3 DEF DeletionShape
<1>5. EnvInv(e)'
  BY <1>1, <1>2, <1>3 DEF EnvInv, Within, QueueInv, DeleteInv, TaskInv, Covered, Running
<1> QED
  BY <1>2, <1>3, <1>4, <1>5, OneEnvStep

LEMMA StartRetryStep ==
    ASSUME DeletionInv, NEW e \in Envs, StartRetry(e)
    PROVE  DeletionInv' /\ ledger'[e].pending = ledger[e].pending
<1>1. DeletionShape /\ EnvInv(e) /\ Running(e, "reconcile") /\ queue[e] # <<>>
  BY DEF DeletionInv, StartRetry, Running
<1>2. UNCHANGED <<record, host, queue, deleting, backend, pass, entries>>
  BY DEF StartRetry, passVars
<1>3. /\ ledger' \in [Envs -> Entries] /\ ledger'[e].pending = ledger[e].pending
      /\ \A o \in Envs \ {e} : ledger'[o] = ledger[o]
  BY <1>1, Counting DEF StartRetry, DeletionShape
<1>4. ledger[e].pending \subseteq Steps
  BY <1>1 DEF DeletionShape, Entries
<1>5. /\ todo' \in [Envs -> SUBSET Script] /\ todo'[e] = ledger[e].pending \cup {"end"}
      /\ \A o \in Envs \ {e} : todo'[o] = todo[o]
  BY <1>1, <1>4 DEF StartRetry, DeletionShape, Script
<1>6. DeletionShape'
  BY <1>1, <1>2, <1>3, <1>5 DEF DeletionShape
<1>7. record[e] = "gone" /\ ~Running(e, "delete")
  BY <1>1, FirstTask DEF Running
<1>8. Covered(e) /\ Covered(e)'
  BY <1>1, <1>2, <1>3, <1>7 DEF EnvInv, Covered
<1>9. Within(e)' /\ QueueInv(e)' /\ DeleteInv(e)'
  BY <1>1, <1>2, <1>3, <1>5, <1>7 DEF EnvInv, Within, QueueInv, DeleteInv, Running, Steps
<1>10. TaskInv(e)'
  BY <1>1, <1>2, <1>4, <1>5, <1>8 DEF TaskInv, Covered, Running
<1>11. EnvInv(e)'
  BY <1>8, <1>9, <1>10 DEF EnvInv
<1> QED
  BY <1>2, <1>3, <1>5, <1>6, <1>11, OneEnvStep

LEMMA QueueRetryStep ==
    ASSUME DeletionInv, NEW e \in Envs, QueueRetry(e)
    PROVE  DeletionInv'
<1>1. DeletionShape /\ EnvInv(e) /\ record[e] = "gone" /\ pass = "loop"
  BY DEF DeletionInv, PassInv, QueueRetry
<1>2. /\ UNCHANGED <<record, host, ledger, todo, deleting, backend>>
      /\ entries' \subseteq entries
  BY DEF QueueRetry, durable
<1>3. /\ queue' \in [Envs -> Seq({"delete", "reconcile"})]
      /\ queue'[e] = Append(queue[e], "reconcile")
      /\ \A o \in Envs \ {e} : queue'[o] = queue[o]
  BY <1>1 DEF QueueRetry, DeletionShape
<1>4. queue[e] \in Seq({"delete", "reconcile"})
  BY <1>1 DEF DeletionShape
<1>5. DeletionShape'
  BY <1>1, <1>2, <1>3 DEF DeletionShape
<1>6. /\ Len(queue'[e]) = Len(queue[e]) + 1 /\ Len(queue[e]) \in Nat
      /\ \A i \in 1..Len(queue[e]) : queue'[e][i] = queue[e][i]
      /\ queue'[e][Len(queue[e]) + 1] = "reconcile"
  BY <1>3, <1>4
<1>7. queue'[e] # <<>> /\ Head(queue'[e]) = queue'[e][1]
  BY <1>3, <1>4
<1>8. ASSUME queue[e] = <<>> PROVE EnvInv(e)'
  <2>1. queue'[e] = <<"reconcile">> /\ todo'[e] = {}
    BY <1>1, <1>2, <1>3, <1>8 DEF EnvInv, QueueInv
  <2>2. Head(queue'[e]) = "reconcile" /\ Len(queue'[e]) = 1 /\ queue'[e][1] = "reconcile"
    BY <2>1
  <2>3. ~Running(e, "delete")' /\ QueueInv(e)'
    BY <1>1, <1>2, <2>1, <2>2 DEF Running, QueueInv
  <2>4. Within(e)' /\ Covered(e)'
    BY <1>1, <1>2 DEF EnvInv, Within, Covered
  <2> QED
    BY <2>1, <2>3, <2>4 DEF EnvInv, DeleteInv, TaskInv
<1>9. ASSUME queue[e] # <<>> PROVE EnvInv(e)'
  <2>1. Head(queue'[e]) = Head(queue[e]) /\ Len(queue[e]) >= 1
    BY <1>3, <1>4, <1>9
  <2>2. \A k : Running(e, k)' <=> Running(e, k)
    BY <1>7, <1>9, <2>1 DEF Running
  <2>3. QueueInv(e)'
    <3>1. ASSUME NEW i \in 1..Len(queue'[e])
          PROVE  /\ i > 1 => queue'[e][i] = "reconcile"
                 /\ queue'[e][i] = "reconcile" => record'[e] = "gone"
      <4>1. i \in 1..Len(queue[e]) \/ i = Len(queue[e]) + 1
        BY <1>6
      <4> QED
        BY <1>1, <1>2, <1>6, <4>1 DEF EnvInv, QueueInv
    <3> QED
      BY <1>1, <1>2, <1>7, <2>2, <3>1 DEF EnvInv, QueueInv
  <2>4. Within(e)' /\ Covered(e)' /\ (Covered(e) <=> Covered(e)')
    BY <1>1, <1>2 DEF EnvInv, Within, Covered
  <2>5. DeleteInv(e)'
    BY <1>1, <1>2, <2>2, <2>4 DEF EnvInv, DeleteInv
  <2>6. TaskInv(e)'
    BY <1>1, <1>2, <2>2 DEF EnvInv, TaskInv
  <2> QED
    BY <2>3, <2>4, <2>5, <2>6 DEF EnvInv
<1>10. EnvInv(e)'
  BY <1>8, <1>9
<1> QED
  BY <1>1, <1>2, <1>3, <1>5, <1>10, OneEnvStep

LEMMA PassSteps ==
    ASSUME DeletionInv,
           \/ ReadLive \/ EndPass \/ PassThrows \/ RetryTimerFires \/ BeginShutdown
           \/ UNCHANGED deletionVars
           \/ \E e \in Envs : \/ SkipExhausted(e) \/ Defer(e) \/ RetryNotAdmitted(e)
                              \/ BackoffPasses(e)
    PROVE  DeletionInv'
<1>1. UNCHANGED <<record, host, ledger, queue, todo, deleting, backend>>
  BY DEF ReadLive, EndPass, PassThrows, RetryTimerFires, BeginShutdown, deletionVars,
         SkipExhausted, Defer, RetryNotAdmitted, BackoffPasses, durable
<1>2. backend' \in Backends /\ PassInv
  BY <1>1 DEF DeletionInv, DeletionShape
<1>3. CASE ReadLive
  BY <1>1, <1>2, <1>3, PassStep DEF ReadLive
<1>4. CASE EndPass
  BY <1>1, <1>2, <1>4, PassStep DEF EndPass, List
<1>5. CASE PassThrows
  BY <1>1, <1>2, <1>5, PassStep DEF PassThrows, List
<1>6. CASE RetryTimerFires
  BY <1>1, <1>2, <1>6, PassStep, Scheduling DEF RetryTimerFires
<1>7. CASE BeginShutdown \/ UNCHANGED deletionVars
  BY <1>1, <1>2, <1>7, PassStep DEF BeginShutdown, deletionVars, passVars
<1>8. CASE \E e \in Envs : BackoffPasses(e)
  BY <1>1, <1>2, <1>8, PassStep DEF BackoffPasses, passVars
<1>9. CASE \E e \in Envs : SkipExhausted(e) \/ Defer(e) \/ RetryNotAdmitted(e)
  <2>1. entries' \subseteq entries /\ pass = "loop"
    BY <1>9 DEF SkipExhausted, Defer, RetryNotAdmitted
  <2> QED
    BY <1>1, <1>2, <2>1, PassStep DEF PassInv
<1> QED
  BY <1>3, <1>4, <1>5, <1>6, <1>7, <1>8, <1>9

\* After a start only the deletes of tombstones are queued.
LEMMA RestartStep ==
    ASSUME DeletionInv, Restart
    PROVE  DeletionInv'
<1>1. DeletionShape /\ UNCHANGED <<record, host, ledger>> /\ backend' \in Backends
  BY DEF DeletionInv, Restart, durable
<1>2. queue' = [e \in Envs |-> IF record[e] = "deleting" THEN <<"delete">> ELSE <<>>]
      /\ todo' = [e \in Envs |-> {}]
  BY DEF Restart
<1>3. DeletionShape'
  <2>1. queue' \in [Envs -> Seq({"delete", "reconcile"})]
    <3>1. <<"delete">> \in Seq({"delete", "reconcile"}) /\ <<>> \in Seq({"delete", "reconcile"})
      OBVIOUS
    <3> QED
      BY <1>2, <3>1
  <2>2. todo' \in [Envs -> SUBSET Script]
    BY <1>2
  <2> QED
    BY <1>1, <2>1, <2>2 DEF DeletionShape
<1>4. PassInv'
  BY DEF Restart, List, PassInv
<1>5. ASSUME NEW e \in Envs PROVE EnvInv(e)'
  <2>1. EnvInv(e) /\ todo'[e] = {}
    BY <1>2 DEF DeletionInv
  <2>2. CASE record[e] = "deleting"
    <3>1. queue'[e] = <<"delete">> /\ e \in deleting'
      BY <1>2, <2>2 DEF Restart
    <3>2. Len(queue'[e]) = 1 /\ queue'[e][1] = "delete" /\ Head(queue'[e]) = "delete"
      BY <3>1
    <3>3. QueueInv(e)'
      BY <1>1, <2>1, <3>1, <3>2 DEF QueueInv
    <3> QED
      BY <1>1, <2>1, <2>2, <3>2, <3>3 DEF EnvInv, Within, DeleteInv, TaskInv, Covered, Running
  <2>3. CASE record[e] # "deleting"
    <3>1. queue'[e] = <<>>
      BY <1>2, <2>3
    <3>2. Len(queue'[e]) = 0
      BY <3>1
    <3> QED
      BY <1>1, <2>1, <3>1, <3>2
      DEF EnvInv, Within, QueueInv, DeleteInv, TaskInv, Covered, Running
  <2> QED
    BY <2>2, <2>3
<1> QED
  BY <1>3, <1>4, <1>5 DEF DeletionInv

LEMMA DeletionInvNext ==
    ASSUME DeletionInv, [DeletionNext]_deletionVars
    PROVE  DeletionInv'
<1>1. CASE \E e \in Envs : EnvStep(e)
  <2>1. PICK e \in Envs : EnvStep(e)
    BY <1>1
  <2>2. CASE \/ StartDelete(e) \/ RequestDelete(e) \/ Tombstone(e) \/ RecordEntry(e)
             \/ RemoveRecord(e)
    BY <2>2, StartDeleteStep, RequestDeleteStep, TombstoneStep, RecordEntryStep,
       RemoveRecordStep
  <2>3. CASE Rearm(e) \/ StartRetry(e) \/ QueueRetry(e)
    BY <2>3, RearmStep, StartRetryStep, QueueRetryStep
  <2>4. CASE SkipExhausted(e) \/ Defer(e) \/ RetryNotAdmitted(e) \/ BackoffPasses(e)
    BY <2>4, PassSteps
  <2>5. CASE FinishDelete(e) \/ DeleteFails(e) \/ DeleteAtShutdown(e) \/ FinishRetry(e)
    BY <2>5, TaskEnds
  <2>6. CASE \E s \in {t \in Steps : Doing(e, t)} :
                 \/ StepSucceeds(e, s) \/ StepRefused(e, s) \/ StepFails(e, s)
                 \/ CompletionUnrecorded(e, s) \/ Deadline(e, s)
    <3>1. PICK s \in Steps : \/ StepSucceeds(e, s) \/ StepRefused(e, s) \/ StepFails(e, s)
                             \/ CompletionUnrecorded(e, s) \/ Deadline(e, s)
      BY <2>6
    <3>2. CASE Deadline(e, s)
      BY <3>2, TaskEnds
    <3> QED
      BY <3>1, <3>2, CleanupSteps
  <2> QED
    BY <2>1, <2>2, <2>3, <2>4, <2>5, <2>6 DEF EnvStep
<1>2. CASE \/ ReadLive \/ EndPass \/ PassThrows \/ RetryTimerFires \/ BeginShutdown
           \/ UNCHANGED deletionVars
  BY <1>2, PassSteps
<1>3. CASE Restart
  BY <1>3, RestartStep
<1> QED
  BY <1>1, <1>2, <1>3 DEF DeletionNext

\* Whatever fails and whenever the backend stops, what is left on the host of an
\* environment whose record is gone is in the ledger, or is a branch that is kept.
THEOREM NothingIsForgotten == DeletionSpec => []NothingForgotten
<1>1. DeletionInv => NothingForgotten
  BY DEF DeletionInv, EnvInv, NothingForgotten, Covered
<1>2. DeletionInv /\ [DeletionNext]_deletionVars => DeletionInv'
  BY DeletionInvNext
<1> QED
  BY <1>1, <1>2, DeletionInvInit, PTL DEF DeletionSpec

----------------------------------------------------------------------------
(* Retries.                                                                *)

\* The retries in the queue of e.
Retries(e) == {i \in 1..Len(queue[e]) : queue[e][i] = "reconcile"}

\* There is at most one retry in all the queues, the one that the pass waits for.
OneRetry ==
    /\ \A e \in Envs : Retries(e) # {} => pass = "waiting"
    /\ \A e, o \in Envs : \A i \in Retries(e), j \in Retries(o) : e = o /\ i = j

\* A retry that has not started yet finds an entry with an attempt left.
AttemptInv(e) ==
    /\ ledger[e].attempts <= MaxAttempts
    /\ Running(e, "reconcile") /\ todo[e] # {} => "end" \in todo[e]
    /\ Retries(e) # {} /\ Entered(e) /\ Exhausted(e) => Running(e, "reconcile") /\ todo[e] # {}

\* The timer is armed, and another pass asked for, only between and in passes.
TimerInv == IF pass = "idle" THEN ~rerun ELSE timer = {}

\* The two sides of RetryScheduled.
Owed(e) == accepting /\ record[e] = "gone" /\ Entered(e) /\ ~Exhausted(e)
InHand(e) ==
    \/ e \in deleting \/ e \in stalled \/ e \in timer
    \/ /\ pass # "idle"
       /\ rerun \/ e \in entries \cup deferred \/ queue[e] # <<>>

LEMMA OwedInHand == RetryScheduled <=> \A e \in Envs : Owed(e) => InHand(e)
BY DEF RetryScheduled, Owed, InHand

RetryInv ==
    /\ rerun \in BOOLEAN /\ TimerInv /\ OneRetry
    /\ \A e \in Envs : AttemptInv(e)
    /\ RetryScheduled

LEMMA RetryInvInit == DeletionInit => RetryInv
<1> SUFFICES ASSUME DeletionInit PROVE RetryInv
  OBVIOUS
<1>1. rerun \in BOOLEAN /\ TimerInv
  BY DEF DeletionInit, TimerInv
<1>2. ASSUME NEW e \in Envs PROVE Retries(e) = {} /\ ~Running(e, "reconcile") /\ ~Entered(e)
  <2>1. queue[e] = <<>> /\ ledger[e] = NoEntry
    BY DEF DeletionInit
  <2>2. Len(queue[e]) = 0
    BY <2>1
  <2> QED
    BY <2>1, <2>2 DEF Retries, Running, Entered, NoEntry
<1>3. OneRetry /\ RetryScheduled
  BY <1>2 DEF OneRetry, RetryScheduled
<1>4. ASSUME NEW e \in Envs PROVE AttemptInv(e)
  <2>1. ledger[e].attempts = 0
    BY DEF DeletionInit, NoEntry
  <2> QED
    BY <1>2, <2>1, DeletionAssumption DEF AttemptInv
<1> QED
  BY <1>1, <1>3, <1>4 DEF RetryInv

\* No queue changes, and the pass that waits goes on waiting.
LEMMA SameRetries ==
    ASSUME OneRetry, queue' = queue, pass' = pass \/ pass # "waiting"
    PROVE  OneRetry'
BY DEF OneRetry, Retries

\* What an entry is, as far as attempts go.
LEMMA EntryAttempts ==
    ASSUME DeletionInv, NEW e \in Envs
    PROVE  /\ ledger[e].attempts \in Nat
           /\ Attempted(e).attempts = ledger[e].attempts + 1
           /\ Rearmed(e).attempts = 0
           /\ Recorded(e).attempts = ledger[e].attempts
           /\ \A s \in Steps : IF Completed(e, s).pending = {}
                               THEN Completed(e, s).attempts \in {0, ledger[e].attempts}
                               ELSE Completed(e, s).attempts = ledger[e].attempts
<1>1. ledger[e] \in Entries
  BY DEF DeletionInv, DeletionShape
<1>2. \A n \in Entries : /\ n.attempts \in Nat
                         /\ [n EXCEPT !.attempts = @ + 1, !.versions = @ \cup {backend}].attempts
                              = n.attempts + 1
                         /\ [n EXCEPT !.attempts = 0, !.versions = @ \cup {backend}].attempts = 0
                         /\ [n EXCEPT !.pending = @ \cup Owns[e]].attempts = n.attempts
                         /\ \A s : [n EXCEPT !.pending = @ \ {s}].attempts = n.attempts
  BY DEF Entries
<1>3. NoEntry.pending = {} /\ NoEntry.attempts = 0
  BY DEF NoEntry
<1> QED
  BY <1>1, <1>2, <1>3 DEF Attempted, Rearmed, Recorded, Completed

\* An environment whose queue, task and entry do not change.
LEMMA SameAttempts ==
    ASSUME NEW e \in Envs, AttemptInv(e), ledger'[e] = ledger[e], queue'[e] = queue[e],
           todo'[e] = todo[e]
    PROVE  AttemptInv(e)'
BY DEF AttemptInv, Retries, Running, Entered, Exhausted

\* A step of e leaves the retries of the others in the hands they are in.
LEMMA OthersScheduled ==
    ASSUME RetryScheduled, NEW e \in Envs, Owed(e)' => InHand(e)',
           \A o \in Envs \ {e} :
               /\ record'[o] = record[o] /\ ledger'[o] = ledger[o] /\ queue'[o] = queue[o]
               /\ o \in deleting => o \in deleting'
               /\ o \in entries \cup deferred => o \in entries' \cup deferred',
           accepting' = accepting, stalled \subseteq stalled', timer \subseteq timer',
           pass # "idle" => pass' # "idle", rerun' = rerun
    PROVE  RetryScheduled'
<1>1. ASSUME NEW o \in Envs, o # e, Owed(o)' PROVE InHand(o)'
  <2>1. Owed(o)
    BY <1>1 DEF Owed, Entered, Exhausted
  <2>2. InHand(o)
    BY <2>1, OwedInHand
  <2> QED
    BY <1>1, <2>2 DEF InHand
<1>2. \A o \in Envs : Owed(o)' => InHand(o)'
  BY <1>1
<1> QED
  BY <1>2 DEF RetryScheduled, Owed, InHand

\* A pass that begins sees every entry.
LEMMA ListSchedules ==
    ASSUME List, ledger' = ledger
    PROVE  RetryScheduled'
BY DEF List, RetryScheduled, Entered

LEMMA ScheduleSchedules ==
    ASSUME Schedule, UNCHANGED <<ledger, accepting>>
    PROVE  RetryScheduled'
<1>1. CASE ~accepting
  BY <1>1 DEF RetryScheduled
<1>2. CASE accepting /\ pass # "idle"
  BY <1>2 DEF RetryScheduled, Schedule
<1>3. CASE accepting /\ pass = "idle"
  BY <1>3, ListSchedules DEF Schedule
<1> QED
  BY <1>1, <1>2, <1>3

LEMMA ScheduleTimer ==
    ASSUME Schedule, TimerInv, rerun \in BOOLEAN
    PROVE  /\ rerun' \in BOOLEAN /\ TimerInv'
           /\ pass' = pass \/ pass # "waiting"
<1>1. CASE ~accepting
  BY <1>1 DEF Schedule, TimerInv, passVars
<1>2. CASE accepting /\ pass # "idle"
  BY <1>2 DEF Schedule, TimerInv
<1>3. CASE accepting /\ pass = "idle"
  BY <1>3 DEF Schedule, List, TimerInv
<1> QED
  BY <1>1, <1>2, <1>3

\* At the end of a task its queue has one task less.
LEMMA SettledRetries ==
    ASSUME DeletionInv, OneRetry, NEW e \in Envs, queue[e] # <<>>, Settle(e)
    PROVE  /\ Retries(e)' = {i - 1 : i \in Retries(e) \ {1}}
           /\ Retries(e) \subseteq Nat \ {0}
           /\ \A o \in Envs \ {e} : Retries(o)' = Retries(o)
           /\ Running(e, "delete") => 1 \notin Retries(e)
           /\ Running(e, "reconcile") => 1 \in Retries(e)
<1>1. queue \in [Envs -> Seq({"delete", "reconcile"})]
  BY DEF DeletionInv, DeletionShape
<1>2. queue'[e] = Tail(queue[e]) /\ \A o \in Envs \ {e} : queue'[o] = queue[o]
  BY <1>1 DEF Settle
<1>3. queue[e] \in Seq({"delete", "reconcile"}) /\ Len(queue[e]) \in Nat /\ Len(queue[e]) >= 1
  BY <1>1
<1>4. /\ Len(queue'[e]) = Len(queue[e]) - 1
      /\ \A i \in 1..Len(queue'[e]) : queue'[e][i] = queue[e][i + 1]
      /\ Head(queue[e]) = queue[e][1]
  BY <1>2, <1>3
<1>5. Retries(e)' = {i - 1 : i \in Retries(e) \ {1}}
  <2>1. ASSUME NEW i \in Retries(e)' PROVE i + 1 \in Retries(e) \ {1} /\ i = (i + 1) - 1
    BY <1>3, <1>4, <2>1 DEF Retries
  <2>2. ASSUME NEW i \in Retries(e) \ {1} PROVE i - 1 \in Retries(e)'
    BY <1>3, <1>4, <2>2 DEF Retries
  <2> QED
    BY <2>1, <2>2
<1> QED
  BY <1>2, <1>3, <1>4, <1>5 DEF Retries, Running

\* A task or the pass goes on with e; no queue and no pass begins or ends.
LEMMA GoesOn ==
    ASSUME DeletionInv, RetryInv, NEW e \in Envs, AttemptInv(e)', Owed(e)' => InHand(e)',
           UNCHANGED <<queue, pass, rerun, timer, stalled, accepting, deleting>>,
           \A o \in Envs \ {e} :
               /\ record'[o] = record[o] /\ ledger'[o] = ledger[o] /\ todo'[o] = todo[o]
               /\ o \in entries \cup deferred => o \in entries' \cup deferred'
    PROVE  RetryInv'
<1>1. rerun' \in BOOLEAN /\ TimerInv'
  BY DEF RetryInv, TimerInv
<1>2. OneRetry'
  BY SameRetries DEF RetryInv
<1>3. \A o \in Envs : AttemptInv(o)'
  BY SameAttempts DEF RetryInv
<1>4. RetryScheduled'
  BY OthersScheduled DEF RetryInv
<1> QED
  BY <1>1, <1>2, <1>3, <1>4 DEF RetryInv

\* The steps of a delete before and after the cleanup: they hold the guard.
LEMMA DeleteRetries ==
    ASSUME DeletionInv, RetryInv, NEW e \in Envs,
           \/ StartDelete(e) \/ Tombstone(e) \/ RecordEntry(e) \/ RemoveRecord(e)
    PROVE  RetryInv'
<1>1. DeletionShape /\ EnvInv(e) /\ AttemptInv(e) /\ (Owed(e) => InHand(e))
  BY OwedInHand DEF DeletionInv, RetryInv
<1>2. UNCHANGED <<queue, pass, rerun, timer, stalled, accepting, deleting, entries, deferred>>
  BY DEF StartDelete, Tombstone, RecordEntry, RemoveRecord, passVars
<1>3. \A o \in Envs \ {e} :
          record'[o] = record[o] /\ ledger'[o] = ledger[o] /\ todo'[o] = todo[o]
  BY <1>1 DEF StartDelete, Tombstone, RecordEntry, RemoveRecord, Advance, durable,
              DeletionShape
<1>4. Running(e, "delete")
  <2>1. CASE StartDelete(e)
    BY <2>1 DEF StartDelete
  <2>2. CASE Tombstone(e) \/ RecordEntry(e) \/ RemoveRecord(e)
    <3>1. \E s \in {"tombstone", "ledger", "remove"} : s \in todo[e]
      BY <2>2 DEF Tombstone, RecordEntry, RemoveRecord, Doing
    <3>2. queue[e] # <<>> /\ ~Running(e, "reconcile")
      BY <1>1, <3>1 DEF EnvInv, QueueInv, TaskInv, Steps
    <3> QED
      BY <1>1, <3>2, FirstTask
  <2> QED
    BY <2>1, <2>2
<1>5. e \in deleting' /\ ~Running(e, "reconcile")'
  BY <1>1, <1>2, <1>4 DEF EnvInv, QueueInv, Running
<1>6. Owed(e)' => InHand(e)'
  BY <1>5 DEF InHand
<1>7. ledger'[e].attempts = ledger[e].attempts
  <2>1. CASE RecordEntry(e)
    BY <1>1, <2>1, EntryAttempts DEF RecordEntry, DeletionShape
  <2>2. CASE StartDelete(e) \/ Tombstone(e) \/ RemoveRecord(e)
    BY <2>2 DEF StartDelete, Tombstone, RemoveRecord, durable
  <2> QED
    BY <2>1, <2>2
<1>8. AttemptInv(e)'
  <2>1. Retries(e)' = Retries(e) /\ ~Running(e, "reconcile")
    BY <1>2, <1>5 DEF Retries, Running
  <2>2. Retries(e) # {} => ledger' = ledger
    <3>1. Retries(e) # {} => record[e] = "gone"
      BY <1>1 DEF EnvInv, QueueInv, Retries
    <3>2. RecordEntry(e) => record[e] = "deleting"
      BY RecordEntryStep
    <3> QED
      BY <3>1, <3>2 DEF StartDelete, Tombstone, RemoveRecord, durable
  <2> QED
    BY <1>1, <1>5, <1>7, <2>1, <2>2 DEF AttemptInv, Entered, Exhausted
<1> QED
  BY <1>2, <1>3, <1>6, <1>8, GoesOn

\* A cleanup step strikes off what it settles and counts nothing.
LEMMA CleanupRetries ==
    ASSUME DeletionInv, RetryInv, NEW e \in Envs, NEW s \in Steps,
           \/ StepSucceeds(e, s) \/ StepRefused(e, s) \/ StepFails(e, s)
           \/ CompletionUnrecorded(e, s)
    PROVE  RetryInv'
<1>1. DeletionShape /\ AttemptInv(e) /\ (Owed(e) => InHand(e))
  BY OwedInHand DEF DeletionInv, RetryInv
<1>2. UNCHANGED <<record, queue, pass, rerun, timer, stalled, accepting, deleting, entries,
                  deferred>>
  BY DEF StepSucceeds, StepRefused, StepFails, CompletionUnrecorded, passVars, durable
<1>3. ledger' = ledger \/ ledger' = [ledger EXCEPT ![e] = Completed(e, s)]
  BY DEF StepSucceeds, StepRefused, StepFails, CompletionUnrecorded, durable
<1>4. /\ \A t \in todo[e] \ Steps : t \in todo'[e]
      /\ todo'[e] \subseteq todo[e]
      /\ \A o \in Envs \ {e} : todo'[o] = todo[o]
  BY <1>1 DEF StepSucceeds, StepRefused, StepFails, CompletionUnrecorded, StepOver,
              DeletionShape, Steps
<1>5. /\ \A o \in Envs \ {e} : ledger'[o] = ledger[o]
      /\ ledger'[e] \in {ledger[e], Completed(e, s)}
  BY <1>1, <1>3 DEF DeletionShape
<1>6. ledger'[e].attempts \in {0, ledger[e].attempts}
      /\ (ledger'[e].pending # {} => ledger'[e].attempts = ledger[e].attempts)
  BY <1>5, EntryAttempts
<1>7. ledger'[e].pending # {} => ledger[e].pending # {}
  <2>1. \A n \in Entries : [n EXCEPT !.pending = @ \ {s}].pending = n.pending \ {s}
    BY DEF Entries
  <2>2. ledger[e] \in Entries
    BY <1>1 DEF DeletionShape
  <2> QED
    BY <1>5, <2>1, <2>2 DEF Completed, NoEntry
<1>8. Owed(e)' => InHand(e)'
  <2>1. Owed(e)' => Owed(e)
    BY <1>2, <1>6, <1>7 DEF Owed, Entered, Exhausted
  <2>2. InHand(e) => InHand(e)'
    BY <1>2 DEF InHand
  <2> QED
    BY <1>1, <2>1, <2>2
<1>9. AttemptInv(e)'
  <2>1. Retries(e)' = Retries(e) /\ (Running(e, "reconcile")' <=> Running(e, "reconcile"))
    BY <1>2 DEF Retries, Running
  <2>2. Running(e, "reconcile") /\ todo[e] # {} => "end" \in todo'[e]
    BY <1>1, <1>4 DEF AttemptInv, Steps
  <2>3. Entered(e)' /\ Exhausted(e)' => Entered(e) /\ Exhausted(e)
    BY <1>6, <1>7 DEF Entered, Exhausted
  <2>4. ledger'[e].attempts <= MaxAttempts
    BY <1>1, <1>6, DeletionAssumption DEF AttemptInv
  <2> QED
    BY <1>1, <1>4, <2>1, <2>2, <2>3, <2>4 DEF AttemptInv
<1> QED
  BY <1>2, <1>4, <1>5, <1>8, <1>9, GoesOn

\* The loop of the pass goes on: e is rearmed, left alone or deferred.
LEMMA LoopRetries ==
    ASSUME DeletionInv, RetryInv, NEW e \in Envs,
           \/ Rearm(e) \/ SkipExhausted(e) \/ Defer(e) \/ RetryNotAdmitted(e) \/ BackoffPasses(e)
    PROVE  RetryInv'
<1>1. DeletionShape /\ EnvInv(e) /\ AttemptInv(e) /\ (Owed(e) => InHand(e))
  BY OwedInHand DEF DeletionInv, RetryInv
<1>2. UNCHANGED <<record, queue, pass, rerun, timer, stalled, accepting, deleting, todo>>
  BY DEF Rearm, SkipExhausted, Defer, RetryNotAdmitted, BackoffPasses, passVars, durable
<1>3. \A o \in Envs \ {e} :
          /\ ledger'[o] = ledger[o]
          /\ o \in entries \cup deferred => o \in entries' \cup deferred'
  BY <1>1 DEF Rearm, SkipExhausted, Defer, RetryNotAdmitted, BackoffPasses, passVars, durable,
              DeletionShape
<1>4. CASE Rearm(e)
  <2>1. ledger'[e] = Rearmed(e) /\ pass' = "loop" /\ e \in entries'
    BY <1>1, <1>4 DEF Rearm, passVars, DeletionShape
  <2>2. ledger'[e].attempts = 0
    BY <2>1, EntryAttempts
  <2>3. AttemptInv(e)'
    <3>1. Running(e, "reconcile")' <=> Running(e, "reconcile")
      BY <1>2 DEF Running
    <3> QED
      BY <1>1, <1>2, <2>2, <3>1, DeletionAssumption DEF AttemptInv, Exhausted
  <2>4. InHand(e)'
    BY <2>1 DEF InHand
  <2> QED
    BY <1>2, <1>3, <2>3, <2>4, GoesOn
<1>5. CASE SkipExhausted(e) \/ Defer(e) \/ RetryNotAdmitted(e) \/ BackoffPasses(e)
  <2>1. ledger' = ledger
    BY <1>5 DEF SkipExhausted, Defer, RetryNotAdmitted, BackoffPasses, durable
  <2>2. AttemptInv(e)'
    BY <1>1, <1>2, <2>1, SameAttempts
  <2>3. Owed(e)' => Owed(e) /\ ~SkipExhausted(e) /\ ~RetryNotAdmitted(e)
    BY <1>2, <2>1 DEF Owed, Entered, Exhausted, SkipExhausted, RetryNotAdmitted
  <2>4. CASE Defer(e)
    <3>1. InHand(e)'
      BY <2>4 DEF Defer, InHand
    <3> QED
      BY <1>2, <1>3, <2>1, <2>2, <3>1, GoesOn
  <2>5. CASE BackoffPasses(e)
    <3>1. InHand(e) => InHand(e)'
      BY <1>2, <2>5 DEF InHand, BackoffPasses, passVars
    <3> QED
      BY <1>1, <1>2, <1>3, <2>1, <2>2, <2>3, <3>1, GoesOn
  <2>6. CASE SkipExhausted(e) \/ RetryNotAdmitted(e)
    BY <1>2, <1>3, <2>1, <2>2, <2>3, <2>6, GoesOn
  <2> QED
    BY <1>5, <2>4, <2>5, <2>6
<1> QED
  BY <1>4, <1>5

\* A retry that starts counts an attempt that its entry has left.
LEMMA StartRetryRetries ==
    ASSUME DeletionInv, RetryInv, NEW e \in Envs, StartRetry(e)
    PROVE  RetryInv'
<1>1. DeletionShape /\ AttemptInv(e) /\ Running(e, "reconcile") /\ todo[e] = {} /\ Entered(e)
  BY DEF DeletionInv, RetryInv, StartRetry
<1>2. UNCHANGED <<record, queue, pass, rerun, timer, stalled, accepting, deleting, entries,
                  deferred>>
  BY DEF StartRetry, passVars
<1>3. /\ ledger'[e] = Attempted(e) /\ "end" \in todo'[e]
      /\ \A o \in Envs \ {e} : ledger'[o] = ledger[o] /\ todo'[o] = todo[o]
  BY <1>1 DEF StartRetry, DeletionShape
<1>4. 1 \in Retries(e)
  <2>1. queue[e] \in Seq({"delete", "reconcile"}) /\ queue[e] # <<>>
    BY <1>1 DEF DeletionShape, Running
  <2>2. Head(queue[e]) = queue[e][1] /\ 1 \in 1..Len(queue[e])
    BY <2>1
  <2> QED
    BY <1>1, <2>2 DEF Retries, Running
<1>5. pass = "waiting" /\ ~Exhausted(e)
  BY <1>1, <1>4 DEF RetryInv, OneRetry, AttemptInv
<1>6. ledger'[e].attempts = ledger[e].attempts + 1 /\ ledger'[e].attempts <= MaxAttempts
  BY <1>3, <1>5, EntryAttempts, DeletionAssumption DEF Exhausted
<1>7. AttemptInv(e)'
  <2>1. Running(e, "reconcile")'
    BY <1>1, <1>2 DEF Running
  <2> QED
    BY <1>3, <1>6, <2>1 DEF AttemptInv
<1>8. InHand(e)'
  BY <1>1, <1>2, <1>5 DEF InHand, Running
<1> QED
  BY <1>2, <1>3, <1>7, <1>8, GoesOn

\* A delete is queued where nothing runs.
LEMMA RequestRetries ==
    ASSUME DeletionInv, RetryInv, NEW e \in Envs, RequestDelete(e)
    PROVE  RetryInv'
<1>1. DeletionShape /\ EnvInv(e) /\ AttemptInv(e) /\ record[e] # "gone" /\ e \notin deleting
  BY DEF DeletionInv, RetryInv, RequestDelete
<1>2. queue[e] = <<>>
  BY <1>1, FirstTask DEF EnvInv, QueueInv
<1>3. queue'[e] = <<"delete">> /\ \A o \in Envs \ {e} : queue'[o] = queue[o]
  BY <1>1, <1>2 DEF RequestDelete, DeletionShape
<1>4. UNCHANGED <<record, ledger, todo, accepting, pass, entries, deferred, rerun, timer, stalled>>
      /\ deleting \subseteq deleting'
  BY DEF RequestDelete, durable, passVars
<1>5. Retries(e)' = {} /\ ~Running(e, "reconcile")'
  <2>1. Len(queue'[e]) = 1 /\ queue'[e][1] = "delete" /\ Head(queue'[e]) = "delete"
    BY <1>3
  <2> QED
    BY <2>1 DEF Retries, Running
<1>6. \A o \in Envs \ {e} : Retries(o)' = Retries(o)
  BY <1>3 DEF Retries
<1>7. OneRetry'
  BY <1>4, <1>5, <1>6 DEF OneRetry, RetryInv
<1>8. AttemptInv(e)'
  BY <1>1, <1>4, <1>5 DEF AttemptInv
<1>9. \A o \in Envs : AttemptInv(o)'
  BY <1>3, <1>4, <1>8, SameAttempts DEF RetryInv
<1>10. rerun' \in BOOLEAN /\ TimerInv'
  BY <1>4 DEF RetryInv, TimerInv
<1>11. RetryScheduled'
  <2>1. ~Owed(e)'
    BY <1>1, <1>4 DEF Owed
  <2> QED
    BY <1>3, <1>4, <2>1, OthersScheduled DEF RetryInv
<1> QED
  BY <1>7, <1>9, <1>10, <1>11 DEF RetryInv

\* The pass queues one retry, and waits for it.
LEMMA QueueRetries ==
    ASSUME DeletionInv, RetryInv, NEW e \in Envs, QueueRetry(e)
    PROVE  RetryInv'
<1>1. DeletionShape /\ AttemptInv(e) /\ pass = "loop" /\ \A o \in Envs : Retries(o) = {}
  BY DEF DeletionInv, RetryInv, OneRetry, QueueRetry
<1>2. /\ UNCHANGED <<record, ledger, todo, accepting, deferred, rerun, timer, stalled, deleting>>
      /\ pass' = "waiting" /\ entries' = entries \ {e}
  BY DEF QueueRetry, durable
<1>3. /\ queue'[e] = Append(queue[e], "reconcile")
      /\ \A o \in Envs \ {e} : queue'[o] = queue[o]
  BY <1>1 DEF QueueRetry, DeletionShape
<1>4. queue[e] \in Seq({"delete", "reconcile"})
  BY <1>1 DEF DeletionShape
<1>5. /\ Len(queue'[e]) = Len(queue[e]) + 1 /\ Len(queue[e]) \in Nat
      /\ \A i \in 1..Len(queue[e]) : queue'[e][i] = queue[e][i]
      /\ queue'[e] # <<>>
  BY <1>3, <1>4
<1>6. \A i \in Retries(e)' : i = Len(queue[e]) + 1
  <2>1. ASSUME NEW i \in Retries(e)', i # Len(queue[e]) + 1 PROVE i \in Retries(e)
    BY <1>5, <2>1 DEF Retries
  <2> QED
    BY <1>1, <2>1
<1>7. \A o \in Envs \ {e} : Retries(o)' = {}
  BY <1>1, <1>3 DEF Retries
<1>8. OneRetry'
  BY <1>2, <1>6, <1>7 DEF OneRetry
<1>9. AttemptInv(e)'
  <2>1. Entered(e)' => ~Exhausted(e)'
    BY <1>2 DEF QueueRetry, Entered, Exhausted
  <2>2. Running(e, "reconcile")' /\ todo'[e] # {} => "end" \in todo'[e]
    <3>1. CASE queue[e] = <<>>
      BY <1>2, <3>1 DEF DeletionInv, EnvInv, QueueInv
    <3>2. CASE queue[e] # <<>>
      <4>1. Head(queue'[e]) = Head(queue[e])
        BY <1>3, <1>4, <3>2
      <4> QED
        BY <1>1, <1>2, <3>2, <4>1 DEF AttemptInv, Running
    <3> QED
      BY <3>1, <3>2
  <2> QED
    BY <1>1, <1>2, <2>1, <2>2 DEF AttemptInv
<1>10. \A o \in Envs : AttemptInv(o)'
  BY <1>2, <1>3, <1>9, SameAttempts DEF RetryInv
<1>11. rerun' \in BOOLEAN /\ TimerInv'
  BY <1>1, <1>2 DEF RetryInv, TimerInv
<1>12. RetryScheduled'
  <2>1. InHand(e)'
    BY <1>2, <1>5 DEF InHand
  <2> QED
    BY <1>2, <1>3, <2>1, OthersScheduled DEF RetryInv
<1> QED
  BY <1>8, <1>10, <1>11, <1>12 DEF RetryInv

\* Once a task of e is over, what is queued behind it has not started.
LEMMA SettledAttempts ==
    ASSUME DeletionInv, RetryInv, NEW e \in Envs, queue[e] # <<>>, Settle(e), ledger' = ledger
    PROVE  \A o \in Envs : AttemptInv(o)'
<1>1. DeletionShape /\ EnvInv(e) /\ AttemptInv(e) /\ OneRetry
  BY DEF DeletionInv, RetryInv
<1>2. /\ todo'[e] = {}
      /\ \A o \in Envs \ {e} : queue'[o] = queue[o] /\ todo'[o] = todo[o]
  BY <1>1 DEF Settle, DeletionShape
<1>3. ASSUME Retries(e)' # {} PROVE Retries(e) # {} /\ ~Running(e, "reconcile")
  <2>1. PICK i \in Retries(e) : i # 1
    BY <1>1, <1>3, SettledRetries
  <2> QED
    BY <1>1, <2>1, SettledRetries DEF OneRetry
<1>4. AttemptInv(e)'
  BY <1>1, <1>2, <1>3 DEF AttemptInv, Entered, Exhausted
<1> QED
  BY <1>2, <1>4, SameAttempts DEF RetryInv

\* A delete ends: a pass is asked for, or its environment is left as stalled.
LEMMA DeleteEndRetries ==
    ASSUME DeletionInv, RetryInv, NEW e \in Envs,
           \/ FinishDelete(e) \/ DeleteFails(e) \/ DeleteAtShutdown(e)
           \/ \E s \in Steps : Deadline(e, s)
    PROVE  RetryInv'
<1>1. DeletionShape /\ OneRetry /\ Running(e, "delete") /\ queue[e] # <<>> /\ Settle(e)
  BY DEF DeletionInv, RetryInv, FinishDelete, DeleteFails, DeleteAtShutdown, Deadline,
         StopDelete, Running
<1>2. UNCHANGED <<record, ledger, accepting>> /\ deleting' = deleting \ {e}
  BY DEF FinishDelete, DeleteFails, DeleteAtShutdown, Deadline, StopDelete, durable
<1>3. \A o \in Envs : AttemptInv(o)'
  BY <1>1, <1>2, SettledAttempts
<1>4. FinishDelete(e) \/ UNCHANGED <<pass, entries, deferred, rerun, timer>>
  BY DEF DeleteFails, DeleteAtShutdown, Deadline, StopDelete
<1>5. rerun' \in BOOLEAN /\ TimerInv' /\ (pass' = pass \/ pass # "waiting")
  <2>1. CASE FinishDelete(e)
    BY <2>1, ScheduleTimer DEF FinishDelete, RetryInv
  <2>2. CASE UNCHANGED <<pass, entries, deferred, rerun, timer>>
    BY <2>2 DEF RetryInv, TimerInv
  <2> QED
    BY <1>4, <2>1, <2>2
<1>6. OneRetry'
  <2>1. /\ Retries(e)' = {i - 1 : i \in Retries(e) \ {1}}
        /\ Retries(e) \subseteq Nat
        /\ \A o \in Envs \ {e} : Retries(o)' = Retries(o)
    BY <1>1, SettledRetries
  <2>2. \A o \in Envs : Retries(o)' # {} => Retries(o) # {}
    BY <2>1
  <2>3. \A o \in Envs : Retries(o)' # {} => pass' = "waiting"
    BY <1>1, <1>5, <2>2 DEF OneRetry
  <2>4. ASSUME NEW o \in Envs, NEW p \in Envs, NEW i \in Retries(o)', NEW j \in Retries(p)'
        PROVE  o = p /\ i = j
    <3>1. o = p
      BY <1>1, <2>2, <2>4 DEF OneRetry
    <3>2. CASE o = e
      <4>1. PICK k \in Retries(e), l \in Retries(e) : i = k - 1 /\ j = l - 1
        BY <2>1, <2>4, <3>1, <3>2
      <4> QED
        BY <1>1, <3>1, <4>1 DEF OneRetry
    <3>3. CASE o # e
      BY <1>1, <2>1, <2>4, <3>1, <3>3 DEF OneRetry
    <3> QED
      BY <3>1, <3>2, <3>3
  <2> QED
    BY <2>3, <2>4 DEF OneRetry
<1>7. RetryScheduled'
  <2>1. CASE FinishDelete(e)
    BY <1>2, <2>1, ScheduleSchedules DEF FinishDelete
  <2>2. CASE ~FinishDelete(e)
    <3>1. /\ stalled' = IF record[e] = "gone" THEN stalled \cup {e} ELSE stalled
          /\ UNCHANGED <<pass, entries, deferred, rerun, timer>>
      BY <2>2 DEF DeleteFails, DeleteAtShutdown, Deadline, StopDelete
    <3>2. Owed(e)' => InHand(e)'
      BY <1>2, <3>1 DEF Owed, InHand
    <3>3. \A o \in Envs \ {e} : queue'[o] = queue[o]
      BY <1>1 DEF Settle, DeletionShape
    <3> QED
      BY <1>2, <3>1, <3>2, <3>3, OthersScheduled DEF RetryInv
  <2> QED
    BY <2>1, <2>2
<1> QED
  BY <1>3, <1>5, <1>6, <1>7 DEF RetryInv

\* The retry that the pass waits for ends; no other is queued.
LEMMA FinishRetryRetries ==
    ASSUME DeletionInv, RetryInv, NEW e \in Envs, FinishRetry(e)
    PROVE  RetryInv'
<1>1. /\ DeletionShape /\ OneRetry /\ Running(e, "reconcile") /\ queue[e] # <<>> /\ Settle(e)
      /\ pass = "waiting" /\ pass' = "loop"
  BY DEF DeletionInv, RetryInv, FinishRetry, Running
<1>2. UNCHANGED <<record, ledger, accepting, deleting, entries, rerun, timer, stalled>>
      /\ deferred \subseteq deferred'
      /\ (Entered(e) /\ ~Exhausted(e) => e \in deferred')
  BY DEF FinishRetry, durable
<1>3. \A o \in Envs : AttemptInv(o)'
  BY <1>1, <1>2, SettledAttempts
<1>4. \A o \in Envs : Retries(o)' = {}
  <2>1. /\ Retries(e)' = {i - 1 : i \in Retries(e) \ {1}} /\ 1 \in Retries(e)
        /\ \A o \in Envs \ {e} : Retries(o)' = Retries(o)
    BY <1>1, SettledRetries
  <2>2. Retries(e) = {1} /\ \A o \in Envs \ {e} : Retries(o) = {}
    BY <1>1, <2>1 DEF OneRetry
  <2> QED
    BY <2>1, <2>2
<1>5. OneRetry'
  BY <1>4 DEF OneRetry
<1>6. rerun' \in BOOLEAN /\ TimerInv'
  BY <1>1, <1>2 DEF RetryInv, TimerInv
<1>7. RetryScheduled'
  <2>1. Owed(e)' => InHand(e)'
    BY <1>1, <1>2 DEF Owed, InHand, Entered, Exhausted
  <2>2. \A o \in Envs \ {e} : queue'[o] = queue[o]
    BY <1>1 DEF Settle, DeletionShape
  <2> QED
    BY <1>1, <1>2, <2>1, <2>2, OthersScheduled DEF RetryInv
<1> QED
  BY <1>3, <1>5, <1>6, <1>7 DEF RetryInv

\* When a pass ends nobody waits for a retry: what is queued is a delete.
LEMMA EndPassSchedules ==
    ASSUME DeletionInv, RetryInv, EndPass
    PROVE  RetryScheduled'
<1>1. UNCHANGED <<record, ledger, accepting, deleting, queue>> /\ pass = "loop" /\ entries = {}
  BY DEF EndPass, durable
<1>2. CASE rerun
  BY <1>1, <1>2, ListSchedules DEF EndPass
<1>3. CASE ~rerun
  <2>1. stalled' = stalled /\ timer' = (IF accepting THEN deferred ELSE {}) /\ timer = {}
    BY <1>1, <1>3 DEF EndPass, RetryInv, TimerInv
  <2>2. ASSUME NEW e \in Envs, Owed(e)' PROVE InHand(e)'
    <3>1. Owed(e) /\ accepting
      BY <1>1, <2>2 DEF Owed, Entered, Exhausted
    <3>2. InHand(e)
      BY <3>1, OwedInHand DEF RetryInv
    <3>3. queue[e] # <<>> => e \in deleting
      <4>1. Retries(e) = {} /\ DeletionShape /\ EnvInv(e)
        BY <1>1 DEF RetryInv, OneRetry, DeletionInv
      <4>2. ASSUME queue[e] # <<>> PROVE ~Running(e, "reconcile")
        <5>1. queue[e] \in Seq({"delete", "reconcile"})
          BY <4>1 DEF DeletionShape
        <5>2. Head(queue[e]) = queue[e][1] /\ 1 \in 1..Len(queue[e])
          BY <4>2, <5>1
        <5> QED
          BY <4>1, <5>2 DEF Retries, Running
      <4> QED
        BY <4>1, <4>2, FirstTask DEF EnvInv, QueueInv
    <3> QED
      BY <1>1, <1>3, <2>1, <3>1, <3>2, <3>3 DEF InHand
  <2> QED
    BY <2>2 DEF RetryScheduled, Owed, InHand
<1> QED
  BY <1>2, <1>3 DEF RetryInv

\* Steps of the pass, of its timer and of the shutdown.
LEMMA PassRetries ==
    ASSUME DeletionInv, RetryInv,
           \/ ReadLive \/ EndPass \/ PassThrows \/ RetryTimerFires \/ BeginShutdown
           \/ UNCHANGED deletionVars
    PROVE  RetryInv'
<1>1. UNCHANGED <<record, ledger, queue, todo, deleting>>
  BY DEF ReadLive, EndPass, PassThrows, RetryTimerFires, BeginShutdown, deletionVars, durable
<1>2. \A e \in Envs : AttemptInv(e)'
  BY <1>1, SameAttempts DEF RetryInv
<1>3. SUFFICES /\ rerun' \in BOOLEAN /\ TimerInv' /\ RetryScheduled'
               /\ pass' = pass \/ pass # "waiting"
  BY <1>1, <1>2, SameRetries DEF RetryInv
<1>4. CASE ReadLive
  <2>1. /\ pass = "listed" /\ pass' = "loop" /\ UNCHANGED <<rerun, timer, stalled, accepting, deferred>>
        /\ entries' = {e \in entries : record[e] = "gone"}
    BY <1>4 DEF ReadLive
  <2>2. ASSUME NEW e \in Envs, Owed(e)' PROVE InHand(e)'
    <3>1. Owed(e) /\ record[e] = "gone"
      BY <1>1, <2>1, <2>2 DEF Owed, Entered, Exhausted
    <3>2. InHand(e)
      BY <3>1, OwedInHand DEF RetryInv
    <3> QED
      BY <1>1, <2>1, <3>1, <3>2 DEF InHand
  <2> QED
    BY <2>1, <2>2 DEF RetryInv, TimerInv, RetryScheduled, Owed, InHand
<1>5. CASE EndPass
  <2>1. RetryScheduled'
    BY <1>5, EndPassSchedules
  <2> QED
    BY <1>5, <2>1 DEF EndPass, List, RetryInv, TimerInv
<1>6. CASE PassThrows
  <2>1. CASE rerun
    <3>1. RetryScheduled' /\ pass' = "listed" /\ timer' = timer /\ rerun' = FALSE
      BY <1>1, <1>6, <2>1, ListSchedules DEF PassThrows, List
    <3> QED
      BY <1>6, <3>1 DEF PassThrows, RetryInv, TimerInv
  <2>2. CASE ~rerun
    <3>1. pass' = "idle" /\ stalled' = {e \in Envs : Entered(e)} /\ rerun' = FALSE
      BY <1>6, <2>2 DEF PassThrows
    <3> QED
      BY <1>1, <1>6, <3>1 DEF PassThrows, RetryScheduled, TimerInv, Entered
  <2> QED
    BY <2>1, <2>2 DEF RetryInv
<1>7. CASE RetryTimerFires
  BY <1>1, <1>7, ScheduleSchedules, ScheduleTimer DEF RetryTimerFires, RetryInv
<1>8. CASE BeginShutdown
  BY <1>8 DEF BeginShutdown, RetryInv, RetryScheduled, TimerInv
<1>9. CASE UNCHANGED deletionVars
  <2>1. UNCHANGED <<accepting, pass, entries, deferred, rerun, timer, stalled>>
    BY <1>9 DEF deletionVars, passVars
  <2> QED
    BY <1>1, <2>1 DEF RetryInv, RetryScheduled, TimerInv, Entered, Exhausted
<1> QED
  BY <1>4, <1>5, <1>6, <1>7, <1>8, <1>9

\* A start lists every entry and has no retry queued.
LEMMA RestartRetries ==
    ASSUME DeletionInv, RetryInv, Restart
    PROVE  RetryInv'
<1>1. UNCHANGED <<record, ledger>> /\ List /\ rerun' = FALSE /\ timer' = {}
  BY DEF Restart, durable
<1>2. ASSUME NEW e \in Envs PROVE Retries(e)' = {} /\ todo'[e] = {}
  <2>1. queue'[e] \in {<<"delete">>, <<>>} /\ todo'[e] = {}
    BY DEF Restart
  <2>2. CASE queue'[e] = <<"delete">>
    <3>1. Len(queue'[e]) = 1 /\ queue'[e][1] = "delete"
      BY <2>2
    <3> QED
      BY <2>1, <3>1 DEF Retries
  <2>3. CASE queue'[e] = <<>>
    <3>1. Len(queue'[e]) = 0
      BY <2>3
    <3> QED
      BY <2>1, <3>1 DEF Retries
  <2> QED
    BY <2>1, <2>2, <2>3
<1>3. OneRetry'
  BY <1>2 DEF OneRetry
<1>4. \A e \in Envs : AttemptInv(e)'
  BY <1>1, <1>2 DEF AttemptInv, RetryInv
<1>5. RetryScheduled' /\ rerun' \in BOOLEAN /\ TimerInv'
  BY <1>1, ListSchedules DEF List, TimerInv
<1> QED
  BY <1>3, <1>4, <1>5 DEF RetryInv

LEMMA RetryInvNext ==
    ASSUME DeletionInv, RetryInv, [DeletionNext]_deletionVars
    PROVE  RetryInv'
<1>1. CASE \E e \in Envs : EnvStep(e)
  <2>1. PICK e \in Envs : EnvStep(e)
    BY <1>1
  <2>2. CASE StartDelete(e) \/ Tombstone(e) \/ RecordEntry(e) \/ RemoveRecord(e)
    BY <2>2, DeleteRetries
  <2>3. CASE RequestDelete(e) \/ QueueRetry(e) \/ StartRetry(e) \/ FinishRetry(e)
    BY <2>3, RequestRetries, QueueRetries, StartRetryRetries, FinishRetryRetries
  <2>4. CASE Rearm(e) \/ SkipExhausted(e) \/ Defer(e) \/ RetryNotAdmitted(e) \/ BackoffPasses(e)
    BY <2>4, LoopRetries
  <2>5. CASE FinishDelete(e) \/ DeleteFails(e) \/ DeleteAtShutdown(e)
    BY <2>5, DeleteEndRetries
  <2>6. CASE \E s \in {t \in Steps : Doing(e, t)} :
                 \/ StepSucceeds(e, s) \/ StepRefused(e, s) \/ StepFails(e, s)
                 \/ CompletionUnrecorded(e, s) \/ Deadline(e, s)
    <3>1. PICK s \in Steps : \/ StepSucceeds(e, s) \/ StepRefused(e, s) \/ StepFails(e, s)
                             \/ CompletionUnrecorded(e, s) \/ Deadline(e, s)
      BY <2>6
    <3>2. CASE Deadline(e, s)
      BY <3>2, DeleteEndRetries
    <3> QED
      BY <3>1, <3>2, CleanupRetries
  <2> QED
    BY <2>1, <2>2, <2>3, <2>4, <2>5, <2>6 DEF EnvStep
<1>2. CASE \/ ReadLive \/ EndPass \/ PassThrows \/ RetryTimerFires \/ BeginShutdown
           \/ UNCHANGED deletionVars
  BY <1>2, PassRetries
<1>3. CASE Restart
  BY <1>3, RestartRetries
<1> QED
  BY <1>1, <1>2, <1>3 DEF DeletionNext

\* While the backend runs, an entry that may be retried is in the hands of a delete,
\* a pass or the timer, or was left by a pass or a delete that threw: a request for a
\* pass that comes during one is not lost, and no entry falls out of a pass.
THEOREM RetriesAreScheduled == DeletionSpec => []RetryScheduled
<1>1. RetryInv => RetryScheduled
  BY DEF RetryInv
<1>2. DeletionInv /\ [DeletionNext]_deletionVars => DeletionInv'
  BY DeletionInvNext
<1>3. DeletionInv /\ RetryInv /\ [DeletionNext]_deletionVars => RetryInv'
  BY RetryInvNext
<1> QED
  BY <1>1, <1>2, <1>3, DeletionInvInit, RetryInvInit, PTL DEF DeletionSpec

\* The types that neither DeletionInv nor RetryInv has.
SetTypes ==
    /\ due \subseteq Envs /\ deleting \subseteq Envs
    /\ deferred \subseteq Envs /\ timer \subseteq Envs /\ stalled \subseteq Envs
    /\ accepting \in BOOLEAN
    /\ pass \in {"idle", "listed", "loop", "waiting"}
    /\ faults \in 0..MaxFaults /\ starts \in 0..MaxStarts

LEMMA SetTypesNext ==
    ASSUME SetTypes, [DeletionNext]_deletionVars
    PROVE  SetTypes'
<1> USE DEF SetTypes, durable, passVars
<1>1. MaxFaults \in Nat /\ MaxStarts \in Nat
  BY DeletionAssumption
<1>2. Fault => faults' \in 0..MaxFaults
  BY <1>1 DEF Fault
<1>3. Schedule => /\ pass' \in {"idle", "listed", "loop", "waiting"}
                  /\ deferred' \subseteq Envs /\ timer' \subseteq Envs /\ stalled' \subseteq Envs
  BY DEF Schedule, List
<1>4. ASSUME NEW e \in Envs, StopDelete(e), faults' \in 0..MaxFaults PROVE SetTypes'
  BY <1>4 DEF StopDelete
<1>5. ASSUME NEW e \in Envs, EnvStep(e) PROVE SetTypes'
  <2>1. CASE RequestDelete(e) \/ StartDelete(e) \/ Tombstone(e) \/ RecordEntry(e) \/ RemoveRecord(e)
    BY <2>1 DEF RequestDelete, StartDelete, Tombstone, RecordEntry, RemoveRecord
  <2>2. CASE FinishDelete(e)
    BY <1>3, <2>2 DEF FinishDelete
  <2>3. CASE DeleteFails(e) \/ DeleteAtShutdown(e)
    BY <1>2, <1>4, <2>3 DEF DeleteFails, DeleteAtShutdown
  <2>4. CASE \/ Rearm(e) \/ SkipExhausted(e) \/ Defer(e) \/ QueueRetry(e) \/ RetryNotAdmitted(e)
             \/ StartRetry(e) \/ FinishRetry(e) \/ BackoffPasses(e)
    BY <2>4 DEF Rearm, SkipExhausted, Defer, QueueRetry, RetryNotAdmitted, StartRetry,
                FinishRetry, BackoffPasses
  <2>5. ASSUME NEW s \in Steps,
               \/ StepSucceeds(e, s) \/ StepRefused(e, s) \/ StepFails(e, s)
               \/ CompletionUnrecorded(e, s) \/ Deadline(e, s)
        PROVE  SetTypes'
    BY <1>2, <1>4, <2>5
       DEF StepSucceeds, StepRefused, StepFails, CompletionUnrecorded, Deadline
  <2> QED
    BY <1>5, <2>1, <2>2, <2>3, <2>4, <2>5 DEF EnvStep
<1>6. CASE ReadLive
  BY <1>6 DEF ReadLive
<1>7. CASE EndPass \/ PassThrows
  BY <1>2, <1>7 DEF EndPass, PassThrows, List
<1>8. CASE RetryTimerFires
  BY <1>3, <1>8 DEF RetryTimerFires
<1>9. CASE BeginShutdown
  BY <1>9 DEF BeginShutdown
<1>10. CASE Restart
  BY <1>1, <1>10 DEF Restart, List
<1>11. CASE UNCHANGED deletionVars
  BY <1>11 DEF deletionVars
<1> QED
  BY <1>5, <1>6, <1>7, <1>8, <1>9, <1>10, <1>11 DEF DeletionNext

\* DeletionTypeOK; above all, no entry is attempted more often than the limit says, and
\* no queue holds more than a delete and a retry.
THEOREM DeletionTyped == DeletionSpec => []DeletionTypeOK
<1>1. DeletionInv /\ RetryInv /\ SetTypes => DeletionTypeOK
  <2> SUFFICES ASSUME DeletionInv, RetryInv, SetTypes PROVE DeletionTypeOK
    OBVIOUS
  <2>1. ledger \in [Envs -> [pending : SUBSET Steps, attempts : 0..MaxAttempts,
                             versions : SUBSET Backends]]
    <3>1. ledger \in [Envs -> Entries] /\ MaxAttempts \in Nat
      BY DeletionAssumption DEF DeletionInv, DeletionShape
    <3>2. ASSUME NEW n \in Entries, n.attempts <= MaxAttempts
          PROVE  n \in [pending : SUBSET Steps, attempts : 0..MaxAttempts,
                        versions : SUBSET Backends]
      BY <3>1, <3>2 DEF Entries
    <3> QED
      BY <3>1, <3>2 DEF RetryInv, AttemptInv
  <2>2. ASSUME NEW e \in Envs
        PROVE  queue[e] \in Seq({"delete", "reconcile"}) /\ Len(queue[e]) <= 2
    <3>1. queue[e] \in Seq({"delete", "reconcile"}) /\ Len(queue[e]) \in Nat
      BY DEF DeletionInv, DeletionShape
    <3>2. SUFFICES ASSUME Len(queue[e]) > 2 PROVE FALSE
      BY <3>1
    <3>3. 2 \in Retries(e) /\ 3 \in Retries(e)
      BY <3>1, <3>2 DEF DeletionInv, EnvInv, QueueInv, Retries
    <3> QED
      BY <3>3 DEF RetryInv, OneRetry
  <2> QED
    BY <2>1, <2>2 DEF DeletionInv, DeletionShape, PassInv, RetryInv, SetTypes, Script,
                      DeletionTypeOK
<1>2. DeletionInit => SetTypes
  BY DeletionAssumption DEF DeletionInit, SetTypes
<1>3. DeletionInv /\ [DeletionNext]_deletionVars => DeletionInv'
  BY DeletionInvNext
<1>4. DeletionInv /\ RetryInv /\ [DeletionNext]_deletionVars => RetryInv'
  BY RetryInvNext
<1>5. SetTypes /\ [DeletionNext]_deletionVars => SetTypes'
  BY SetTypesNext
<1> QED
  BY <1>1, <1>2, <1>3, <1>4, <1>5, DeletionInvInit, RetryInvInit, PTL DEF DeletionSpec

----------------------------------------------------------------------------
(* The refinement.                                                         *)

\* A step that changes no record, nothing on the host and no debt is no step of
\* the promise.
LEMMA Unpromised ==
    ASSUME UNCHANGED <<record, host>>,
           \A e \in Envs : ledger'[e].pending = ledger[e].pending
    PROVE  UNCHANGED Promise!promiseVars
BY DEF Promise!promiseVars

\* A cleanup step attempts one resource, after those that depend on it are gone.
LEMMA Attempting ==
    ASSUME DeletionInv, NEW e \in Envs, NEW s \in Steps, Doing(e, s), record' = record,
           \/ host' = host
           \/ ~Refused(e, s) /\ ~KeepsBranch(e, s) /\ host' = Removed(e, s),
           \/ ledger' = ledger
           \/ /\ ledger' = [ledger EXCEPT ![e] = Completed(e, s)]
              /\ KeepsBranch(e, s) \/ host' = Removed(e, s)
    PROVE  Promise!Attempt(e, s)
<1>1. /\ DeletionShape /\ Covered(e) /\ record[e] # "live" /\ s \in Owns[e]
      /\ s = "branch" => "worktree" \notin host[e]
  BY AtCleanup
<1>2. Completed(e, s).pending = ledger[e].pending \ {s}
  BY <1>1 DEF Completed, NoEntry, DeletionShape, Entries
<1>3. Removed(e, s)[e] = host[e] \ {s}
  BY <1>1 DEF Removed, DeletionShape
<1>4. ASSUME ~Refused(e, s) PROVE Promise!Before(s) \cap host[e] = {}
  <2>1. CASE s \in {"volumes", "network"}
    BY <1>1, <1>4, <2>1 DEF Promise!Before, Refused, Covered
  <2>2. CASE s = "branch"
    BY <1>1, <2>2 DEF Promise!Before
  <2>3. CASE s \notin {"volumes", "network", "branch"}
    BY <2>3 DEF Promise!Before
  <2> QED
    BY <2>1, <2>2, <2>3
<1>5. \/ host' = host
      \/ /\ Promise!Before(s) \cap host[e] = {}
         /\ ~(s = "branch" /\ e \in Unmerged)
         /\ host' = [host EXCEPT ![e] = @ \ {s}]
  BY <1>4 DEF KeepsBranch, Removed
<1>6. CASE ledger' = ledger
  BY <1>1, <1>5, <1>6 DEF Promise!Attempt
<1>7. CASE /\ ledger' = [ledger EXCEPT ![e] = Completed(e, s)]
           /\ KeepsBranch(e, s) \/ host' = Removed(e, s)
  <2>1. Promise!Settled(e, s, host'[e])
    BY <1>1, <1>3, <1>7 DEF KeepsBranch, Promise!Settled
  <2>2. /\ ledger'[e].pending = ledger[e].pending \ {s}
        /\ \A o \in Envs \ {e} : ledger'[o] = ledger[o]
    BY <1>1, <1>2, <1>7 DEF DeletionShape
  <2>3. [o \in Envs |-> ledger'[o].pending]
          = [[o \in Envs |-> ledger[o].pending] EXCEPT ![e] = @ \ {s}]
    BY <2>2
  <2> QED
    BY <1>1, <1>5, <2>1, <2>3 DEF Promise!Attempt
<1> QED
  BY <1>6, <1>7

\* The delete and the retries take the steps of the promise.
LEMMA EnvPromise ==
    ASSUME DeletionInv, NEW e \in Envs, EnvStep(e)
    PROVE  [Promise!PromiseNext]_(Promise!promiseVars)
<1>1. DeletionShape /\ EnvInv(e)
  BY DEF DeletionInv
<1>2. CASE Tombstone(e)
  <2>1. record[e] # "gone" /\ UNCHANGED <<host, ledger>>
        /\ record' = [record EXCEPT ![e] = "deleting"]
    BY <1>2, TombstoneStep DEF Tombstone
  <2>2. CASE record[e] = "live"
    <3>1. Promise!Condemn(e)
      BY <2>1, <2>2 DEF Promise!Condemn
    <3> QED
      BY <3>1 DEF Promise!PromiseNext
  <2>3. CASE record[e] # "live"
    <3>1. record' = record
      BY <1>1, <2>1, <2>3 DEF DeletionShape
    <3> QED
      BY <2>1, <3>1, Unpromised
  <2> QED
    BY <2>2, <2>3
<1>3. CASE RecordEntry(e)
  <2>1. /\ record[e] = "deleting" /\ ledger'[e].pending = Owns[e]
        /\ \A o \in Envs \ {e} : ledger'[o] = ledger[o]
        /\ UNCHANGED <<record, host>>
    BY <1>3, RecordEntryStep DEF RecordEntry
  <2>2. [o \in Envs |-> ledger'[o].pending]
          = [[o \in Envs |-> ledger[o].pending] EXCEPT ![e] = Owns[e]]
    BY <2>1
  <2>3. Promise!Undertake(e)
    BY <2>1, <2>2 DEF Promise!Undertake
  <2> QED
    BY <2>3 DEF Promise!PromiseNext
<1>4. CASE RemoveRecord(e)
  <2>1. /\ record[e] = "deleting" /\ Covered(e) /\ UNCHANGED <<host, ledger>>
        /\ record' = [record EXCEPT ![e] = "gone"]
    BY <1>4, RemoveRecordStep DEF RemoveRecord
  <2>2. Promise!Forget(e)
    BY <2>1 DEF Promise!Forget, Promise!Settled, Covered
  <2> QED
    BY <2>2 DEF Promise!PromiseNext
<1>5. CASE Rearm(e) \/ StartRetry(e)
  <2>1. ledger'[e].pending = ledger[e].pending /\ UNCHANGED <<record, host>>
    BY <1>5, RearmStep, StartRetryStep DEF Rearm, StartRetry
  <2>2. \A o \in Envs \ {e} : ledger'[o] = ledger[o]
    BY <1>1, <1>5 DEF Rearm, StartRetry, DeletionShape
  <2>3. \A o \in Envs : ledger'[o].pending = ledger[o].pending
    BY <2>1, <2>2
  <2> QED
    BY <2>1, <2>3, Unpromised
<1>6. CASE \/ RequestDelete(e) \/ StartDelete(e) \/ FinishDelete(e) \/ DeleteFails(e)
           \/ DeleteAtShutdown(e) \/ SkipExhausted(e) \/ Defer(e) \/ QueueRetry(e)
           \/ RetryNotAdmitted(e) \/ FinishRetry(e) \/ BackoffPasses(e)
  <2>1. UNCHANGED <<record, host, ledger>>
    BY <1>6 DEF RequestDelete, StartDelete, FinishDelete, DeleteFails, DeleteAtShutdown,
                StopDelete, SkipExhausted, Defer, QueueRetry, RetryNotAdmitted, FinishRetry,
                BackoffPasses, durable
  <2> QED
    BY <2>1, Unpromised
<1>7. ASSUME NEW s \in Steps, Doing(e, s),
             \/ StepSucceeds(e, s) \/ StepRefused(e, s) \/ StepFails(e, s)
             \/ CompletionUnrecorded(e, s) \/ Deadline(e, s)
      PROVE  Promise!PromiseNext
  <2>1. Promise!Attempt(e, s)
    <3>1. CASE StepSucceeds(e, s)
      BY <1>7, <3>1, Attempting DEF StepSucceeds
    <3>2. CASE StepRefused(e, s)
      BY <1>7, <3>2, Attempting DEF StepRefused, durable
    <3>3. CASE StepFails(e, s)
      BY <1>7, <3>3, Attempting DEF StepFails
    <3>4. CASE CompletionUnrecorded(e, s)
      BY <1>7, <3>4, Attempting DEF CompletionUnrecorded
    <3>5. CASE Deadline(e, s)
      BY <1>7, <3>5, Attempting DEF Deadline, StopDelete
    <3> QED
      BY <1>7, <3>1, <3>2, <3>3, <3>4, <3>5
  <2>2. s \in Owns[e]
    BY <1>7, AtCleanup
  <2> QED
    BY <2>1, <2>2 DEF Promise!PromiseNext
<1> QED
  BY <1>2, <1>3, <1>4, <1>5, <1>6, <1>7 DEF EnvStep

LEMMA DeletionStepPromised ==
    ASSUME DeletionInv, [DeletionNext]_deletionVars
    PROVE  [Promise!PromiseNext]_(Promise!promiseVars)
<1>1. CASE \E e \in Envs : EnvStep(e)
  BY <1>1, EnvPromise
<1>2. CASE \/ ReadLive \/ EndPass \/ PassThrows \/ RetryTimerFires \/ BeginShutdown
           \/ Restart \/ UNCHANGED deletionVars
  <2>1. UNCHANGED <<record, host, ledger>>
    BY <1>2 DEF ReadLive, EndPass, PassThrows, RetryTimerFires, BeginShutdown, Restart,
                deletionVars, durable
  <2> QED
    BY <2>1, Unpromised
<1> QED
  BY <1>1, <1>2 DEF DeletionNext

\* KeepsPromise: the delete, its ledger and the reconciler implement DeletionPromise
\* for any environments, resources, faults and restarts.
THEOREM DeletionKeepsPromise == DeletionSpec => KeepsPromise
<1>1. DeletionInit => Promise!PromiseInit
  <2>1. NoEntry.pending = {}
    BY DEF NoEntry
  <2> QED
    BY <2>1 DEF DeletionInit, Promise!PromiseInit
<1>2. DeletionInv /\ [DeletionNext]_deletionVars => DeletionInv'
  BY DeletionInvNext
<1>3. DeletionInv /\ [DeletionNext]_deletionVars
        => [Promise!PromiseNext]_(Promise!promiseVars)
  BY DeletionStepPromised
<1> QED
  BY <1>1, <1>2, <1>3, DeletionInvInit, PTL
     DEF DeletionSpec, KeepsPromise, Promise!PromiseSpec
=============================================================================
