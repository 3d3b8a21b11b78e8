--------------------- MODULE RecurringSchedulerProofs ----------------------
(***************************************************************************)
(* For every set of keys and every limit: the scheduler answers every      *)
(* invalidation, loses no wake-up, never has two operations of one key     *)
(* under way and keeps its slot counters exact and within the limits.      *)
(*                                                                         *)
(* None of it follows from the steps alone.  That a key without a run has  *)
(* no operation under way depends on where the operations of a key that    *)
(* was removed are kept (RunOwned), that a request finds the operation it  *)
(* is to be coalesced with depends on there being only one (OneRun), and   *)
(* so does the counting (SlotInv).                                         *)
(***************************************************************************)
EXTENDS RecurringScheduler, FiniteSetTheorems, TLAPS

KeyTyped(k) ==
    /\ job[k] \in Jobs \cup {NoJob}
    /\ runs[k] \in SUBSET Runs
    /\ orphan[k] \in RunIds \cup {NoRun}

OneRun(k) == \A r, s \in runs[k] : r = s

\* An operation under way belongs to the key's entry, or is stale and, until the
\* scheduler is disposed, the orphan that the next entry adopts.
RunOwned(k) ==
    \A r \in runs[k] : IF job[k] # NoJob THEN job[k].run = r.id
                       ELSE r.stale /\ (disposed \/ orphan[k] = r.id)

\* What an entry or the orphan table names is under way.
RunExists(k) ==
    /\ job[k] # NoJob => /\ orphan[k] = NoRun
                         /\ job[k].run # NoRun => \E r \in runs[k] : r.id = job[k].run
    /\ orphan[k] # NoRun => \E r \in runs[k] : r.id = orphan[k]

\* A change no run has seen: the key is due, or the run under way, which started
\* before the change and counts, will leave it due.
Marked(k) ==
    k \in unseen => /\ job[k] # NoJob /\ job[k].dirty
                    /\ \/ job[k].due = "due"
                       \/ job[k].run # NoRun /\ \A r \in runs[k] : ~r.stale

KeyInv(k) == KeyTyped(k) /\ OneRun(k) /\ RunOwned(k) /\ RunExists(k) /\ Marked(k)

SchedulerShape ==
    /\ DOMAIN job = Keys /\ DOMAIN runs = Keys /\ DOMAIN orphan = Keys
    /\ job = [k \in Keys |-> job[k]] /\ runs = [k \in Keys |-> runs[k]]
    /\ orphan = [k \in Keys |-> orphan[k]]
    /\ unseen \subseteq Keys

SchedulerInv == SchedulerShape /\ \A k \in Keys : KeyInv(k)

----------------------------------------------------------------------------
LEMMA JobsApart == NoJob \notin Jobs
<1>1. "none" \notin Classes
  BY SchedulerAssumption DEF Rank
<1> QED
  BY <1>1 DEF NoJob, Jobs

LEMMA SchedulerInvInit == SchedulerInit => SchedulerInv
BY DEF SchedulerInit, SchedulerInv, SchedulerShape, KeyInv, KeyTyped, OneRun, RunOwned,
       RunExists, Marked

\* A step of one key leaves the others alone.
LEMMA OneKeyStep ==
    ASSUME SchedulerInv, NEW k \in Keys, SchedulerShape', KeyInv(k)', disposed' = disposed,
           \A o \in Keys \ {k} : /\ job'[o] = job[o] /\ runs'[o] = runs[o]
                                 /\ orphan'[o] = orphan[o]
                                 /\ o \in unseen' <=> o \in unseen
    PROVE  SchedulerInv'
<1> SUFFICES ASSUME NEW o \in Keys, o # k PROVE KeyInv(o)'
  BY DEF SchedulerInv
<1> QED
  BY DEF SchedulerInv, KeyInv, KeyTyped, OneRun, RunOwned, RunExists, Marked

\* With no entry's run to hold it, a key has no operation under way.
LEMMA IdleKey ==
    ASSUME NEW k \in Keys, KeyInv(k), job[k] # NoJob, job[k].run = NoRun
    PROVE  runs[k] = {}
BY DEF KeyInv, KeyTyped, RunOwned, Runs, RunIds, NoRun

\* Fencing makes every operation of the key stale and changes nothing else of it.
LEMMA Fencing ==
    ASSUME NEW k \in Keys, SchedulerShape, KeyInv(k)
    PROVE  /\ DOMAIN Fenced(k) = Keys /\ Fenced(k) = [o \in Keys |-> Fenced(k)[o]]
           /\ \A o \in Keys \ {k} : Fenced(k)[o] = runs[o]
           /\ Fenced(k)[k] \in SUBSET Runs
           /\ \A s \in Fenced(k)[k] : s.stale /\ \E r \in runs[k] : r.id = s.id
           /\ \A r \in runs[k] : \E s \in Fenced(k)[k] : r.id = s.id
           /\ \A r, s \in Fenced(k)[k] : r = s
<1>1. Fenced(k)[k] = {[r EXCEPT !.stale = TRUE] : r \in runs[k]}
  BY DEF Fenced, SchedulerShape
<1>2. runs[k] \in SUBSET Runs /\ \A r, s \in runs[k] : r = s
  BY DEF KeyInv, KeyTyped, OneRun
<1>3. ASSUME NEW r \in runs[k] PROVE LET s == [r EXCEPT !.stale = TRUE]
                                     IN s \in Runs /\ s.stale /\ s.id = r.id
  BY <1>2, <1>3 DEF Runs
<1>4. DOMAIN Fenced(k) = Keys /\ Fenced(k) = [o \in Keys |-> Fenced(k)[o]]
  BY DEF Fenced, SchedulerShape
<1>5. \A o \in Keys \ {k} : Fenced(k)[o] = runs[o]
  BY DEF Fenced, SchedulerShape
<1>6. /\ Fenced(k)[k] \in SUBSET Runs
      /\ \A s \in Fenced(k)[k] : s.stale /\ \E r \in runs[k] : r.id = s.id
      /\ \A r \in runs[k] : \E s \in Fenced(k)[k] : r.id = s.id
      /\ \A r, s \in Fenced(k)[k] : r = s
  BY <1>1, <1>2, <1>3
<1> QED
  BY <1>4, <1>5, <1>6, Zenon

LEMMA RegisterStep ==
    ASSUME SchedulerInv, NEW k \in Keys, NEW class \in Classes, NEW due \in {"due", "later"},
           Register(k, class, due)
    PROVE  SchedulerInv'
<1> DEFINE new == [class |-> class, due |-> due, paused |-> FALSE, run |-> orphan[k],
                   dirty |-> FALSE, reconcile |-> FALSE, passed |-> 0]
<1>1. job[k] = NoJob /\ ~disposed /\ KeyInv(k)
  BY DEF Register, Registered, SchedulerInv
<1>2. job' = [job EXCEPT ![k] = new] /\ orphan' = [orphan EXCEPT ![k] = NoRun]
  BY DEF Register
<1>3. UNCHANGED <<runs, disposed, unseen>>
  BY DEF Register
<1>4. new \in Jobs /\ new.run = orphan[k]
  BY <1>1, SchedulerAssumption DEF KeyInv, KeyTyped, Jobs
<1>5. job'[k] = new /\ orphan'[k] = NoRun
  BY <1>2 DEF SchedulerInv, SchedulerShape
<1> HIDE DEF new
<1>6. k \notin unseen
  BY <1>1 DEF KeyInv, Marked
<1>7. KeyInv(k)'
  BY <1>1, <1>3, <1>4, <1>5, <1>6, JobsApart
     DEF KeyInv, KeyTyped, OneRun, RunOwned, RunExists, Marked
<1> QED
  BY <1>2, <1>3, <1>7, OneKeyStep DEF SchedulerInv, SchedulerShape

LEMMA ReplaceStep ==
    ASSUME SchedulerInv, NEW k \in Keys, NEW class \in Classes, NEW due \in {"due", "later"},
           Replace(k, class, due)
    PROVE  SchedulerInv'
<1> DEFINE new == [class |-> class, due |-> due, paused |-> FALSE, run |-> job[k].run,
                   dirty |-> FALSE, reconcile |-> FALSE, passed |-> 0]
<1>1. job[k] # NoJob /\ KeyInv(k) /\ SchedulerShape
  BY DEF Replace, Known, Registered, SchedulerInv
<1>2. job' = [job EXCEPT ![k] = new] /\ runs' = Fenced(k) /\ unseen' = unseen \ {k}
  BY DEF Replace
<1>3. UNCHANGED <<orphan, disposed>>
  BY DEF Replace
<1>4. new \in Jobs /\ new.run = job[k].run
  BY <1>1, SchedulerAssumption DEF KeyInv, KeyTyped, Jobs
<1>5. job'[k] = new
  BY <1>2 DEF SchedulerInv, SchedulerShape
<1> HIDE DEF new
<1>6. KeyInv(k)'
  <2>1. KeyTyped(k)' /\ OneRun(k)' /\ Marked(k)'
    BY <1>1, <1>2, <1>3, <1>4, <1>5, Fencing DEF KeyInv, KeyTyped, OneRun, Marked
  <2>2. RunOwned(k)'
    BY <1>1, <1>2, <1>3, <1>4, <1>5, Fencing, JobsApart DEF KeyInv, RunOwned
  <2>3. RunExists(k)'
    BY <1>1, <1>2, <1>3, <1>4, <1>5, Fencing, JobsApart DEF KeyInv, RunExists
  <2> QED
    BY <2>1, <2>2, <2>3 DEF KeyInv
<1> QED
  BY <1>1, <1>2, <1>3, <1>6, Fencing, OneKeyStep DEF SchedulerInv, SchedulerShape

LEMMA RemoveStep ==
    ASSUME SchedulerInv, NEW k \in Keys, RemoveKey(k)
    PROVE  SchedulerInv'
<1>1. job[k] # NoJob /\ KeyInv(k) /\ SchedulerShape
  BY DEF RemoveKey, Registered, SchedulerInv
<1>2. /\ job' = [job EXCEPT ![k] = NoJob] /\ runs' = Fenced(k) /\ unseen' = unseen \ {k}
      /\ orphan' = [orphan EXCEPT ![k] = job[k].run]
      /\ UNCHANGED disposed
  BY DEF RemoveKey
<1>3. job[k].run \in RunIds \cup {NoRun}
  BY <1>1 DEF KeyInv, KeyTyped, Jobs
<1>4. job'[k] = NoJob /\ orphan'[k] = job[k].run
  BY <1>1, <1>2 DEF SchedulerShape
<1>5. KeyInv(k)'
  BY <1>1, <1>2, <1>3, <1>4, Fencing
     DEF KeyInv, KeyTyped, OneRun, RunOwned, RunExists, Marked
<1> QED
  BY <1>1, <1>2, <1>5, Fencing, OneKeyStep DEF SchedulerInv, SchedulerShape

Dues == {"due", "later", "idle"}
HasFields(n, run, due, dirty) == n \in Jobs /\ n.run = run /\ n.due = due /\ n.dirty = dirty

\* A change some run has to see, in terms of an entry's fields.
Answered(k, due, dirty) ==
    /\ dirty
    /\ \/ due = "due"
       \/ job[k].run # NoRun /\ \A r \in runs[k] : ~r.stale

\* A request that changes the entry but not its run.
LEMMA EntryStep ==
    ASSUME SchedulerInv, NEW k \in Keys, job[k] # NoJob,
           NEW new, NEW due, NEW dirty, HasFields(new, job[k].run, due, dirty),
           job' = [job EXCEPT ![k] = new],
           UNCHANGED <<runs, orphan, disposed>>,
           \/ unseen' = unseen
           \/ unseen' = unseen \cup {k},
           k \in unseen' => Answered(k, due, dirty)
    PROVE  SchedulerInv'
<1>1. KeyInv(k) /\ SchedulerShape
  BY DEF SchedulerInv
<1>2. job'[k] = new /\ new \in Jobs /\ new # NoJob /\ new.run = job[k].run
  BY <1>1, JobsApart DEF SchedulerShape, HasFields
<1>3. KeyInv(k)'
  <2>1. KeyTyped(k)' /\ OneRun(k)' /\ RunOwned(k)' /\ RunExists(k)'
    BY <1>1, <1>2 DEF KeyInv, KeyTyped, OneRun, RunOwned, RunExists
  <2>2. Marked(k)'
    BY <1>1, <1>2 DEF HasFields, Answered, Marked
  <2> QED
    BY <2>1, <2>2 DEF KeyInv
<1>4. SchedulerShape'
  BY <1>1 DEF SchedulerShape
<1> QED
  BY <1>3, <1>4, OneKeyStep DEF SchedulerInv, SchedulerShape

LEMMA AnsweredBefore ==
    ASSUME SchedulerInv, NEW k \in Keys, k \in unseen
    PROVE  Answered(k, job[k].due, job[k].dirty)
BY DEF SchedulerInv, KeyInv, Marked, Answered

\* What the fields of an entry are after the changes requests make.
LEMMA Fields ==
    ASSUME NEW j \in Jobs
    PROVE  /\ \A d \in Dues :
                  /\ \A c \in Classes :
                         HasFields([j EXCEPT !.class = c, !.due = d], j.run, d, j.dirty)
                  /\ HasFields([j EXCEPT !.due = d], j.run, d, j.dirty)
                  /\ HasFields([j EXCEPT !.run = NoRun, !.due = d], NoRun, d, j.dirty)
                  /\ \A b \in BOOLEAN :
                         HasFields([j EXCEPT !.due = d, !.dirty = b], j.run, d, b)
           /\ \A b \in BOOLEAN : HasFields([j EXCEPT !.dirty = b], j.run, j.due, b)
           /\ HasFields([j EXCEPT !.reconcile = TRUE], j.run, j.due, j.dirty)
           /\ HasFields([j EXCEPT !.paused = ~@], j.run, j.due, j.dirty)
           /\ HasFields([j EXCEPT !.run = NoRun], NoRun, j.due, j.dirty)
           /\ j.dirty \in BOOLEAN
<1>1. ASSUME NEW d \in Dues, NEW c \in Classes, NEW n, n = [j EXCEPT !.class = c, !.due = d]
      PROVE  HasFields(n, j.run, d, j.dirty)
  BY <1>1 DEF HasFields, Jobs, Dues
<1>2. ASSUME NEW d \in Dues, NEW n, n = [j EXCEPT !.due = d]
      PROVE  HasFields(n, j.run, d, j.dirty)
  BY <1>2 DEF HasFields, Jobs, Dues
<1>3. ASSUME NEW b \in BOOLEAN, NEW n, n = [j EXCEPT !.dirty = b]
      PROVE  HasFields(n, j.run, j.due, b)
  BY <1>3 DEF HasFields, Jobs
<1>4. ASSUME NEW d \in Dues, NEW b \in BOOLEAN, NEW n, n = [j EXCEPT !.due = d, !.dirty = b]
      PROVE  HasFields(n, j.run, d, b)
  BY <1>4 DEF HasFields, Jobs, Dues
<1>5. ASSUME NEW n, n = [j EXCEPT !.reconcile = TRUE]
      PROVE  HasFields(n, j.run, j.due, j.dirty)
  BY <1>5 DEF HasFields, Jobs
<1>6. ASSUME NEW n, n = [j EXCEPT !.paused = ~@] PROVE HasFields(n, j.run, j.due, j.dirty)
  BY <1>6 DEF HasFields, Jobs
<1>7. ASSUME NEW n, n = [j EXCEPT !.run = NoRun] PROVE HasFields(n, NoRun, j.due, j.dirty)
  BY <1>7 DEF HasFields, Jobs, NoRun, RunIds
<1>8. ASSUME NEW d \in Dues, NEW n, n = [j EXCEPT !.run = NoRun, !.due = d]
      PROVE  HasFields(n, NoRun, d, j.dirty)
  BY <1>8 DEF HasFields, Jobs, NoRun, RunIds, Dues
<1>9. j.dirty \in BOOLEAN
  BY DEF Jobs
<1> QED
  BY <1>1, <1>2, <1>3, <1>4, <1>5, <1>6, <1>7, <1>8, <1>9, Zenon

\* The run a request is coalesced with is the one operation under way.
LEMMA FreshIsOnly ==
    ASSUME NEW k \in Keys, KeyInv(k), job[k] # NoJob
    PROVE  FreshRun(k) <=> job[k].run # NoRun /\ \A r \in runs[k] : ~r.stale
<1>1. CASE job[k].run = NoRun
  BY <1>1 DEF FreshRun
<1>2. CASE job[k].run # NoRun
  <2>1. \E r \in runs[k] : r.id = job[k].run
    BY <1>2 DEF KeyInv, RunExists
  <2>2. RunOf(k) \in runs[k]
    BY <2>1 DEF RunOf
  <2>3. \A r \in runs[k] : r = RunOf(k)
    BY <2>2 DEF KeyInv, OneRun
  <2> QED
    BY <1>2, <2>2, <2>3 DEF FreshRun
<1> QED
  BY <1>1, <1>2

LEMMA KnownKey ==
    ASSUME SchedulerInv, NEW k \in Keys, Known(k)
    PROVE  job[k] \in Jobs /\ job[k] # NoJob /\ KeyInv(k)
BY DEF SchedulerInv, KeyInv, KeyTyped, Known, Registered

LEMMA UpdateStep ==
    ASSUME SchedulerInv, NEW k \in Keys, NEW class \in Classes, NEW due \in Dues,
           Update(k, class, due)
    PROVE  SchedulerInv'
<1> DEFINE new == [job[k] EXCEPT !.class = class, !.due = due]
<1>1. job[k] \in Jobs /\ job[k] # NoJob /\ KeyInv(k)
  BY KnownKey DEF Update
<1>2. HasFields(new, job[k].run, due, job[k].dirty)
  BY <1>1, Fields, Zenon
<1>3. job' = [job EXCEPT ![k] = new]
  BY <1>1 DEF Update, SchedulerInv, SchedulerShape
<1>4. UNCHANGED <<runs, orphan, disposed, unseen>>
  BY DEF Update
<1>5. due = job[k].due \/ (job[k].run = NoRun /\ job[k].due # "due")
  BY DEF Update
<1>6. k \in unseen' => Answered(k, due, job[k].dirty)
  BY <1>4, <1>5, AnsweredBefore DEF Answered
<1> QED
  BY <1>1, <1>2, <1>3, <1>4, <1>6, EntryStep

LEMMA InvalidateStep ==
    ASSUME SchedulerInv, NEW k \in Keys, InvalidateRunning(k)
    PROVE  SchedulerInv'
<1> DEFINE new == [job[k] EXCEPT !.dirty = TRUE]
<1>1. job[k] \in Jobs /\ job[k] # NoJob /\ KeyInv(k)
  BY KnownKey DEF InvalidateRunning
<1>2. HasFields(new, job[k].run, job[k].due, TRUE)
  BY <1>1, Fields, Zenon
<1>3. job' = [job EXCEPT ![k] = new]
  BY <1>1 DEF InvalidateRunning, SchedulerInv, SchedulerShape
<1>4. UNCHANGED <<runs, orphan, disposed>> /\ unseen' = unseen \cup {k}
  BY DEF InvalidateRunning
<1>5. Answered(k, job[k].due, TRUE)
  BY <1>1, FreshIsOnly DEF InvalidateRunning, Answered
<1> QED
  BY <1>1, <1>2, <1>3, <1>4, <1>5, EntryStep

LEMMA CoalescedStep ==
    ASSUME SchedulerInv, NEW k \in Keys, NEW target \in {"due", "later"},
           NEW dirty \in BOOLEAN, dirty => target = "due", RequestCoalesced(k, target, dirty)
    PROVE  SchedulerInv'
<1> DEFINE mark == job[k].dirty \/ dirty
           new == [job[k] EXCEPT !.dirty = mark]
<1>1. job[k] \in Jobs /\ job[k] # NoJob /\ KeyInv(k)
  BY KnownKey DEF RequestCoalesced
<1>2. HasFields(new, job[k].run, job[k].due, mark)
  <2>1. mark \in BOOLEAN
    OBVIOUS
  <2> QED
    BY <1>1, <2>1, Fields, Zenon
<1>3. job' = [job EXCEPT ![k] = new]
  BY <1>1 DEF RequestCoalesced, SchedulerInv, SchedulerShape
<1>4. UNCHANGED <<runs, orphan, disposed>> /\ unseen' = IF dirty THEN unseen \cup {k} ELSE unseen
  BY DEF RequestCoalesced, Unseen
<1>5. dirty => job[k].due = "due"
  BY DEF RequestCoalesced
<1>6. k \in unseen' => Answered(k, job[k].due, mark)
  BY <1>4, <1>5, AnsweredBefore DEF Answered
<1> QED
  BY <1>1, <1>2, <1>3, <1>4, <1>6, EntryStep

LEMMA ScheduledStep ==
    ASSUME SchedulerInv, NEW k \in Keys, NEW target \in {"due", "later"},
           NEW dirty \in BOOLEAN, dirty => target = "due", RequestScheduled(k, target, dirty)
    PROVE  SchedulerInv'
<1> DEFINE mark == job[k].dirty \/ dirty
           new == [job[k] EXCEPT !.due = target, !.dirty = mark]
<1>1. job[k] \in Jobs /\ job[k] # NoJob /\ KeyInv(k) /\ target \in Dues
  BY KnownKey DEF RequestScheduled, Dues
<1>2. HasFields(new, job[k].run, target, mark)
  BY <1>1, Fields, Zenon
<1>3. job' = [job EXCEPT ![k] = new]
  BY <1>1 DEF RequestScheduled, SchedulerInv, SchedulerShape
<1>4. UNCHANGED <<runs, orphan, disposed>> /\ unseen' = IF dirty THEN unseen \cup {k} ELSE unseen
  BY DEF RequestScheduled, Unseen
<1>5. k \notin unseen
  BY <1>1, FreshIsOnly DEF RequestScheduled, KeyInv, Marked
<1>6. k \in unseen' => Answered(k, target, mark)
  BY <1>4, <1>5 DEF Answered
<1> QED
  BY <1>1, <1>2, <1>3, <1>4, <1>6, EntryStep

LEMMA RefusedStep ==
    ASSUME SchedulerInv, NEW k \in Keys, RequestRefused(k, "due") \/ PauseOrResume(k)
    PROVE  SchedulerInv'
<1>1. job[k] \in Jobs /\ job[k] # NoJob /\ KeyInv(k)
  BY KnownKey DEF RequestRefused, PauseOrResume
<1>2. \/ job' = [job EXCEPT ![k] = [job[k] EXCEPT !.reconcile = TRUE]]
      \/ job' = [job EXCEPT ![k] = [job[k] EXCEPT !.paused = ~@]]
  BY <1>1 DEF RequestRefused, PauseOrResume, SchedulerInv, SchedulerShape
<1>3. /\ HasFields([job[k] EXCEPT !.reconcile = TRUE], job[k].run, job[k].due, job[k].dirty)
      /\ HasFields([job[k] EXCEPT !.paused = ~@], job[k].run, job[k].due, job[k].dirty)
  BY <1>1, Fields, Zenon
<1>4. UNCHANGED <<runs, orphan, disposed, unseen>>
  BY DEF RequestRefused, PauseOrResume
<1> QED
  BY <1>1, <1>2, <1>3, <1>4, AnsweredBefore, EntryStep, Zenon

LEMMA TimeStep ==
    ASSUME SchedulerInv, NEW k \in Keys, TimePasses(k)
    PROVE  SchedulerInv'
<1> DEFINE new == [job[k] EXCEPT !.due = "due"]
<1>1. job[k] \in Jobs /\ job[k] # NoJob /\ KeyInv(k) /\ "due" \in Dues
  BY DEF TimePasses, Registered, SchedulerInv, KeyInv, KeyTyped, Dues
<1>2. HasFields(new, job[k].run, "due", job[k].dirty)
  BY <1>1, Fields, Zenon
<1>3. job' = [job EXCEPT ![k] = new]
  BY <1>1 DEF TimePasses, SchedulerInv, SchedulerShape
<1>4. UNCHANGED <<runs, orphan, disposed, unseen>>
  BY DEF TimePasses
<1>5. k \in unseen' => Answered(k, "due", job[k].dirty)
  BY <1>4, AnsweredBefore DEF Answered
<1> QED
  BY <1>1, <1>2, <1>3, <1>4, <1>5, EntryStep

\* A key that a step gives at most another due time, now, or another count.
LEMMA KeptKey ==
    ASSUME NEW o \in Keys, KeyInv(o), disposed' = disposed,
           runs'[o] = runs[o], orphan'[o] = orphan[o], o \in unseen' <=> o \in unseen,
           \/ job'[o] = job[o]
           \/ /\ job[o] # NoJob
              /\ \E due \in {job[o].due, "due"} :
                     HasFields(job'[o], job[o].run, due, job[o].dirty)
    PROVE  KeyInv(o)'
<1>1. CASE job'[o] = job[o]
  BY <1>1 DEF KeyInv, KeyTyped, OneRun, RunOwned, RunExists, Marked
<1>2. CASE job[o] # NoJob /\ \E due \in {job[o].due, "due"} :
                                 HasFields(job'[o], job[o].run, due, job[o].dirty)
  <2>1. PICK due \in {job[o].due, "due"} : HasFields(job'[o], job[o].run, due, job[o].dirty)
    BY <1>2
  <2>2. job'[o] \in Jobs /\ job'[o] # NoJob /\ job'[o].run = job[o].run
    BY <2>1, JobsApart DEF HasFields
  <2>3. KeyTyped(o)' /\ OneRun(o)' /\ RunOwned(o)' /\ RunExists(o)'
    BY <1>2, <2>2 DEF KeyInv, KeyTyped, OneRun, RunOwned, RunExists
  <2>4. Marked(o)'
    BY <1>2, <2>1, <2>2 DEF HasFields, KeyInv, Marked
  <2> QED
    BY <2>3, <2>4 DEF KeyInv
<1> QED
  BY <1>1, <1>2

LEMMA ResumeStep ==
    ASSUME SchedulerInv, NEW slept, HostResumes(slept)
    PROVE  SchedulerInv'
<1>1. SchedulerShape'
  BY DEF HostResumes, SchedulerInv, SchedulerShape
<1>2. ASSUME NEW o \in Keys PROVE KeyInv(o)'
  <2>1. UNCHANGED <<runs, orphan, disposed, unseen>> /\ KeyInv(o)
    BY DEF HostResumes, SchedulerInv
  <2>2. CASE o \in slept
    <3>1. job'[o] = [job[o] EXCEPT !.due = "due"] /\ job[o] # NoJob
      BY <2>2 DEF HostResumes, Registered
    <3>2. job[o] \in Jobs /\ "due" \in Dues
      BY <2>1, <3>1 DEF KeyInv, KeyTyped, Dues
    <3>3. HasFields([job[o] EXCEPT !.due = "due"], job[o].run, "due", job[o].dirty)
      BY <3>2, Fields, Zenon
    <3> QED
      BY <2>1, <3>1, <3>3, KeptKey
  <2>3. CASE o \notin slept
    <3>1. job'[o] = job[o]
      BY <2>3 DEF HostResumes
    <3> QED
      BY <2>1, <3>1, KeptKey
  <2> QED
    BY <2>2, <2>3
<1> QED
  BY <1>1, <1>2 DEF SchedulerInv

LEMMA DisposeStep ==
    ASSUME SchedulerInv, Dispose
    PROVE  SchedulerInv'
<1>1. SchedulerShape'
  BY DEF Dispose, SchedulerInv, SchedulerShape
<1>2. ASSUME NEW o \in Keys PROVE KeyInv(o)'
  <2>1. KeyInv(o) /\ SchedulerShape
    BY DEF SchedulerInv
  <2>2. runs'[o] = Fenced(o)[o] /\ job'[o] = NoJob /\ unseen' = {}
    BY <2>1 DEF Dispose, Fenced, SchedulerShape
  <2>3. orphan'[o] = orphan[o] /\ disposed'
    BY DEF Dispose
  <2> QED
    BY <2>1, <2>2, <2>3, Fencing DEF KeyInv, KeyTyped, OneRun, RunOwned, RunExists, Marked
<1> QED
  BY <1>1, <1>2 DEF SchedulerInv

LEMMA StartedEntry ==
    ASSUME NEW j \in Jobs, NEW i \in RunIds
    PROVE  LET n == [j EXCEPT !.run = i, !.dirty = FALSE, !.reconcile = FALSE, !.passed = 0]
           IN n \in Jobs /\ n.run = i
<1> DEFINE n == [j EXCEPT !.run = i, !.dirty = FALSE, !.reconcile = FALSE, !.passed = 0]
<1>1. 0 \in 0..(PassLimit + 1) /\ i \in RunIds \cup {NoRun}
  BY SchedulerAssumption
<1>2. n \in Jobs
  BY <1>1 DEF Jobs
<1>3. n.run = i
  BY DEF Jobs
<1> QED
  BY <1>2, <1>3

\* A run starts only on a key without one.
LEMMA StartStep ==
    ASSUME SchedulerInv, NEW k \in Keys, PumpStart(k)
    PROVE  SchedulerInv'
<1> DEFINE new == [job[k] EXCEPT !.run = FreeId(k), !.dirty = FALSE, !.reconcile = FALSE,
                                 !.passed = 0]
           run == [id |-> FreeId(k), class |-> job[k].class, stale |-> FALSE]
<1>1. job[k] # NoJob /\ job[k].run = NoRun /\ KeyInv(k) /\ SchedulerShape
  BY DEF PumpStart, Picks, Candidates, Eligible, IsWaiting, Registered, SchedulerInv
<1>2. runs[k] = {} /\ job[k] \in Jobs
  BY <1>1, IdleKey DEF KeyInv, KeyTyped
<1>3. FreeId(k) \in RunIds
  BY <1>2 DEF FreeId, RunIds
<1>4. SchedulerShape'
  BY <1>1 DEF PumpStart, SchedulerShape
<1>5. job'[k] = new /\ runs'[k] = {run} /\ k \notin unseen' /\ orphan'[k] = orphan[k]
  BY <1>1, <1>2 DEF PumpStart, SchedulerShape
<1>6. new \in Jobs /\ new.run = FreeId(k) /\ new # NoJob
  <2>1. new \in Jobs /\ new.run = FreeId(k)
    BY <1>2, <1>3, StartedEntry
  <2> QED
    BY <2>1, JobsApart, Zenon
<1>7. run \in Runs /\ run.id = FreeId(k)
  BY <1>2, <1>3 DEF Jobs, Runs
<1> HIDE DEF new, run
<1>8. orphan[k] = NoRun
  BY <1>1 DEF KeyInv, RunExists
<1>9. KeyInv(k)'
  BY <1>3, <1>5, <1>6, <1>7, <1>8 DEF KeyInv, KeyTyped, OneRun, RunOwned, RunExists, Marked
<1>10. ASSUME NEW o \in Keys, o # k PROVE KeyInv(o)'
  <2>1. runs'[o] = runs[o] /\ orphan'[o] = orphan[o] /\ (o \in unseen' <=> o \in unseen)
    BY <1>1, <1>10 DEF PumpStart, SchedulerShape
  <2>2. disposed' = disposed /\ KeyInv(o)
    BY DEF PumpStart, SchedulerInv
  <2>3. job'[o] = IF o \in Candidates /\ job[o].passed <= PassLimit
                  THEN [job[o] EXCEPT !.passed = @ + 1] ELSE job[o]
    BY <1>10 DEF PumpStart
  <2>4. CASE o \in Candidates /\ job[o].passed <= PassLimit
    <3>1. job[o] \in Jobs /\ job[o] # NoJob
      BY <2>2, <2>4 DEF Candidates, Eligible, Registered, KeyInv, KeyTyped
    <3>2. ASSUME NEW j \in Jobs, NEW n, n = [j EXCEPT !.passed = @ + 1], j.passed <= PassLimit
          PROVE  HasFields(n, j.run, j.due, j.dirty)
      BY <3>2, SchedulerAssumption DEF HasFields, Jobs
    <3>3. HasFields(job'[o], job[o].run, job[o].due, job[o].dirty)
      BY <2>3, <2>4, <3>1, <3>2, Zenon
    <3> QED
      BY <2>1, <2>2, <3>1, <3>3, KeptKey
  <2>5. CASE ~(o \in Candidates /\ job[o].passed <= PassLimit)
    BY <2>1, <2>2, <2>3, <2>5, KeptKey
  <2> QED
    BY <2>4, <2>5
<1> QED
  BY <1>4, <1>9, <1>10 DEF SchedulerInv

\* With its run gone the key has none.
LEMMA SettleStaleStep ==
    ASSUME SchedulerInv, NEW k \in Keys, NEW r \in runs[k], SettleStale(k, r)
    PROVE  SchedulerInv'
<1>1. KeyInv(k) /\ SchedulerShape /\ r.stale
  BY DEF SettleStale, SchedulerInv
<1>2. runs' = [runs EXCEPT ![k] = runs[k] \ {r}] /\ UNCHANGED <<disposed, unseen>>
  BY DEF SettleStale
<1>3. runs'[k] = {}
  BY <1>1, <1>2 DEF KeyInv, OneRun, SchedulerShape
<1>4. orphan' = [orphan EXCEPT ![k] = IF orphan[k] = r.id THEN NoRun ELSE orphan[k]]
  BY DEF SettleStale
<1>5. orphan'[k] = NoRun
  BY <1>1, <1>4 DEF KeyInv, OneRun, RunExists, SchedulerShape
<1>6. CASE job[k] = NoJob
  <2>1. job'[k] = NoJob /\ \A o \in Keys \ {k} : job'[o] = job[o]
    BY <1>1, <1>6 DEF SettleStale, Registered, SchedulerShape
  <2>2. SchedulerShape'
    BY <1>1, <1>2, <1>4 DEF SettleStale, SchedulerShape
  <2>3. KeyInv(k)'
    BY <1>1, <1>2, <1>3, <1>5, <1>6, <2>1
       DEF KeyInv, KeyTyped, OneRun, RunOwned, RunExists, Marked
  <2> QED
    BY <1>1, <1>2, <1>4, <2>1, <2>2, <2>3, OneKeyStep DEF SchedulerShape
<1>7. CASE job[k] # NoJob
  <2> DEFINE new == [job[k] EXCEPT !.run = NoRun]
  <2>1. job[k].run = r.id /\ job[k] \in Jobs
    BY <1>1, <1>7 DEF KeyInv, KeyTyped, RunOwned
  <2>2. job' = [job EXCEPT ![k] = new]
    BY <1>1, <1>7, <2>1 DEF SettleStale, Registered, SchedulerShape
  <2>3. HasFields(new, NoRun, job[k].due, job[k].dirty)
    BY <2>1, Fields, Zenon
  <2>4. job'[k] = new /\ SchedulerShape'
    BY <1>1, <1>2, <1>4, <2>2 DEF SchedulerShape
  <2> HIDE DEF new
  <2>5. k \in unseen => job[k].dirty /\ job[k].due = "due"
    BY <1>1 DEF KeyInv, Marked
  <2>6. KeyInv(k)'
    BY <1>2, <1>3, <1>5, <2>3, <2>4, <2>5, JobsApart
       DEF HasFields, KeyInv, KeyTyped, OneRun, RunOwned, RunExists, Marked
  <2> QED
    BY <1>1, <1>2, <1>4, <2>2, <2>4, <2>6, OneKeyStep DEF SchedulerShape
<1> QED
  BY <1>6, <1>7

LEMMA SettleCurrentStep ==
    ASSUME SchedulerInv, NEW k \in Keys, NEW r \in runs[k], NEW next \in Dues,
           SettleCurrent(k, r, next)
    PROVE  SchedulerInv'
<1> DEFINE due == IF job[k].dirty THEN "due" ELSE next
           new == [job[k] EXCEPT !.run = NoRun, !.due = due]
<1>1. KeyInv(k) /\ SchedulerShape /\ ~r.stale
  BY DEF SettleCurrent, SchedulerInv
<1>2. job[k] # NoJob /\ job[k] \in Jobs /\ orphan[k] = NoRun
  BY <1>1 DEF KeyInv, KeyTyped, RunOwned, RunExists
<1>3. /\ runs' = [runs EXCEPT ![k] = runs[k] \ {r}]
      /\ UNCHANGED <<orphan, disposed, unseen>>
      /\ job' = [job EXCEPT ![k] = new]
  BY DEF SettleCurrent
<1>4. runs'[k] = {}
  BY <1>1, <1>3 DEF KeyInv, OneRun, SchedulerShape
<1>5. due \in Dues /\ (job[k].dirty => due = "due")
  BY DEF Dues
<1>6. HasFields(new, NoRun, due, job[k].dirty)
  <2> HIDE DEF due
  <2> QED
    BY <1>2, <1>5, Fields, Zenon
<1>7. job'[k] = new /\ SchedulerShape'
  BY <1>1, <1>3 DEF SchedulerShape
<1> HIDE DEF new, due
<1>8. KeyInv(k)'
  BY <1>1, <1>2, <1>3, <1>4, <1>5, <1>6, <1>7, JobsApart
     DEF HasFields, KeyInv, KeyTyped, OneRun, RunOwned, RunExists, Marked
<1> QED
  BY <1>1, <1>3, <1>7, <1>8, OneKeyStep DEF SchedulerShape

\* The pump's frame, the timer and a stuttering step.
LEMMA QuietStep ==
    ASSUME SchedulerInv, UNCHANGED <<job, runs, orphan, disposed, unseen>>
    PROVE  SchedulerInv'
BY DEF SchedulerInv, SchedulerShape, KeyInv, KeyTyped, OneRun, RunOwned, RunExists, Marked

LEMMA SchedulerInvNext == SchedulerInv /\ [SchedulerNext]_schedulerVars => SchedulerInv'
<1> SUFFICES ASSUME SchedulerInv, [SchedulerNext]_schedulerVars PROVE SchedulerInv'
  OBVIOUS
<1>1. ASSUME NEW k \in Keys, KeyStep(k) PROVE SchedulerInv'
  <2>1. ASSUME NEW class \in Classes, NEW due \in {"due", "later"},
               Register(k, class, due) \/ Replace(k, class, due)
        PROVE  SchedulerInv'
    BY <2>1, RegisterStep, ReplaceStep
  <2>2. ASSUME NEW class \in Classes, NEW due \in {"due", "later", "idle"},
               Update(k, class, due)
        PROVE  SchedulerInv'
    BY <2>2, UpdateStep DEF Dues
  <2>3. ASSUME NEW target \in {"due", "later"}, NEW dirty \in BOOLEAN,
               dirty => target = "due",
               RequestCoalesced(k, target, dirty) \/ RequestScheduled(k, target, dirty)
        PROVE  SchedulerInv'
    BY <2>3, CoalescedStep, ScheduledStep
  <2>4. ASSUME NEW r \in runs[k], SettleStale(k, r) PROVE SchedulerInv'
    BY <2>4, SettleStaleStep
  <2>5. ASSUME NEW r \in runs[k], NEW next \in {"due", "later", "idle"},
               SettleCurrent(k, r, next)
        PROVE  SchedulerInv'
    BY <2>5, SettleCurrentStep DEF Dues
  <2>6. CASE InvalidateRunning(k)
    BY <2>6, InvalidateStep
  <2>7. CASE RequestRefused(k, "due") \/ PauseOrResume(k)
    BY <2>7, RefusedStep
  <2>8. CASE RemoveKey(k) \/ PumpStart(k) \/ TimePasses(k)
    BY <2>8, RemoveStep, StartStep, TimeStep
  <2> QED
    BY <1>1, <2>1, <2>2, <2>3, <2>4, <2>5, <2>6, <2>7, <2>8 DEF KeyStep
<1>2. ASSUME NEW slept \in SUBSET Keys, HostResumes(slept) PROVE SchedulerInv'
  BY <1>2, ResumeStep
<1>3. CASE Dispose
  BY <1>3, DisposeStep
<1>4. CASE PumpBegin \/ PumpEnd \/ TimerFires \/ UNCHANGED schedulerVars
  <2>1. UNCHANGED <<job, runs, orphan, disposed, unseen>>
    BY <1>4 DEF PumpBegin, PumpEnd, TimerFires, schedulerVars
  <2> QED
    BY <2>1, QuietStep
<1> QED
  BY <1>1, <1>2, <1>3, <1>4 DEF SchedulerNext

\* InvalidationAnswered: what invalidate reports is seen by a run that starts
\* later, for every set of keys and classes and every limit; neither the run
\* under way, nor a stale one, nor a request that is coalesced swallows it.
THEOREM InvalidationIsAnswered == SchedulerSpec => []InvalidationAnswered
<1>1. SchedulerInv => InvalidationAnswered
  BY DEF SchedulerInv, SchedulerShape, KeyInv, Marked, InvalidationAnswered
<1> QED
  BY <1>1, SchedulerInvInit, SchedulerInvNext, PTL DEF SchedulerSpec

----------------------------------------------------------------------------
(* The wake-ups.  NoLostWake is inductive on top of SchedulerInv: a step   *)
(* that does not queue a pump leaves the startable keys alone, or makes a  *)
(* key startable that the timer was armed for.                             *)

\* The keys armTimer covers.
Laters == {k \in Registered : ~job[k].paused /\ job[k].run = NoRun /\ job[k].due = "later"}

\* A step that leaves alone what pick and armTimer read of k.
SameTurn(k) ==
    \/ job'[k] = job[k]
    \/ /\ job[k] # NoJob /\ job'[k] # NoJob
       /\ job'[k].class = job[k].class /\ job'[k].due = job[k].due
       /\ job'[k].paused = job[k].paused /\ job'[k].run = job[k].run

LEMMA SameCandidates ==
    ASSUME \A o \in Keys : SameTurn(o), UNCHANGED <<running, runningCritical>>
    PROVE  Candidates' = Candidates /\ Laters' = Laters
<1>1. Registered' = Registered
  BY DEF Registered, SameTurn
<1>2. ASSUME NEW o \in Registered
      PROVE  /\ job'[o].class = job[o].class /\ job'[o].due = job[o].due
             /\ job'[o].paused = job[o].paused /\ job'[o].run = job[o].run
             /\ o \in Keys
  BY DEF Registered, SameTurn
<1>3. ASSUME NEW c PROVE Eligible(c)' = Eligible(c)
  BY <1>1, <1>2 DEF Eligible, IsWaiting, Critical
<1>4. Candidates' = Candidates
  BY <1>3 DEF Candidates
<1>5. Laters' = Laters
  BY <1>1, <1>2 DEF Laters
<1> QED
  BY <1>4, <1>5

\* An entry keeps its turn under the changes requests make without queueing a pump.
LEMMA MarksKeepTurn ==
    ASSUME NEW j \in Jobs, NEW n,
           \/ \E b \in BOOLEAN : n = [j EXCEPT !.dirty = b]
           \/ n = [j EXCEPT !.reconcile = TRUE]
    PROVE  /\ n # NoJob /\ n.class = j.class /\ n.due = j.due
           /\ n.paused = j.paused /\ n.run = j.run
<1>1. n \in Jobs /\ n.class = j.class /\ n.due = j.due /\ n.paused = j.paused /\ n.run = j.run
  BY DEF Jobs
<1> QED
  BY <1>1, JobsApart

\* A request that queues no pump.
LEMMA MarkWakes ==
    ASSUME SchedulerInv, NoLostWake, NEW k \in Keys,
           \/ InvalidateRunning(k)
           \/ \E target \in {"due", "later"}, dirty \in BOOLEAN :
                  RequestCoalesced(k, target, dirty)
           \/ RequestRefused(k, "due")
    PROVE  NoLostWake'
<1>1. job[k] \in Jobs /\ job[k] # NoJob /\ DOMAIN job = Keys
  BY KnownKey DEF InvalidateRunning, RequestCoalesced, RequestRefused, SchedulerInv,
                  SchedulerShape
<1>2. \E n : /\ job' = [job EXCEPT ![k] = n]
             /\ \/ \E b \in BOOLEAN : n = [job[k] EXCEPT !.dirty = b]
                \/ n = [job[k] EXCEPT !.reconcile = TRUE]
  <2>1. CASE InvalidateRunning(k)
    BY <1>1, <2>1 DEF InvalidateRunning
  <2>2. ASSUME NEW target \in {"due", "later"}, NEW dirty \in BOOLEAN,
               RequestCoalesced(k, target, dirty)
        PROVE  \E b \in BOOLEAN : job' = [job EXCEPT ![k] = [job[k] EXCEPT !.dirty = b]]
    <3>1. job[k].dirty \/ dirty \in BOOLEAN
      OBVIOUS
    <3> QED
      BY <1>1, <2>2, <3>1 DEF RequestCoalesced
  <2>3. CASE RequestRefused(k, "due")
    BY <1>1, <2>3 DEF RequestRefused
  <2> QED
    BY <2>1, <2>2, <2>3
<1>3. PICK n : /\ job' = [job EXCEPT ![k] = n]
               /\ \/ \E b \in BOOLEAN : n = [job[k] EXCEPT !.dirty = b]
                  \/ n = [job[k] EXCEPT !.reconcile = TRUE]
  BY <1>2
<1>4. \A o \in Keys : SameTurn(o)
  BY <1>1, <1>3, MarksKeepTurn DEF SameTurn
<1>5. UNCHANGED <<running, runningCritical, pumpQueued, pumping, alarm, disposed>>
  BY DEF InvalidateRunning, RequestCoalesced, RequestRefused
<1>6. Candidates' = Candidates /\ Laters' = Laters
  BY <1>4, <1>5, SameCandidates
<1> QED
  BY <1>5, <1>6 DEF NoLostWake, Laters

\* A key that falls due is one the timer was armed for, or is paused or running.
LEMMA TimeWakes ==
    ASSUME SchedulerInv, NoLostWake, NEW k \in Keys, TimePasses(k)
    PROVE  NoLostWake'
<1>1. job[k] \in Jobs /\ job[k] # NoJob /\ DOMAIN job = Keys /\ job[k].due = "later"
  BY DEF TimePasses, Registered, SchedulerInv, SchedulerShape, KeyInv, KeyTyped
<1>2. UNCHANGED <<running, runningCritical, pumpQueued, pumping, alarm, disposed>>
  BY DEF TimePasses
<1>3. /\ job'[k] # NoJob /\ job'[k].class = job[k].class /\ job'[k].due = "due"
      /\ job'[k].paused = job[k].paused /\ job'[k].run = job[k].run
  <2>1. ASSUME NEW j \in Jobs, NEW n, n = [j EXCEPT !.due = "due"]
        PROVE  /\ n \in Jobs /\ n.class = j.class /\ n.due = "due"
               /\ n.paused = j.paused /\ n.run = j.run
    BY <2>1 DEF Jobs
  <2> QED
    BY <1>1, <2>1, JobsApart DEF TimePasses
<1>4. \A o \in Keys \ {k} : job'[o] = job[o]
  BY <1>1 DEF TimePasses
<1>5. Registered' = Registered
  BY <1>1, <1>3, <1>4 DEF Registered
<1>6. SUFFICES ASSUME ~disposed, ~pumpQueued, ~pumping
               PROVE  Candidates' \subseteq alarm /\ Laters' \subseteq alarm
  BY <1>2 DEF NoLostWake, Laters
<1>7. Candidates \subseteq alarm /\ Laters \subseteq alarm
  BY <1>6 DEF NoLostWake, Laters
<1>8. Laters' \subseteq Laters
  BY <1>3, <1>4, <1>5 DEF Laters, Registered
<1>9. ASSUME NEW c \in BOOLEAN
      PROVE  Eligible(c) \subseteq Eligible(c)' /\ Eligible(c)' \subseteq Eligible(c) \cup Laters
  BY <1>1, <1>2, <1>3, <1>4, <1>5 DEF Eligible, IsWaiting, Critical, Laters, Registered
<1>10. Candidates' \subseteq Candidates \cup Laters
  BY <1>2, <1>9 DEF Candidates
<1> QED
  BY <1>7, <1>8, <1>10

LEMMA NoLostWakeNext ==
    SchedulerInv /\ NoLostWake /\ [SchedulerNext]_schedulerVars => NoLostWake'
<1> SUFFICES ASSUME SchedulerInv, NoLostWake, [SchedulerNext]_schedulerVars
             PROVE  NoLostWake'
  OBVIOUS
<1>1. ASSUME NEW k \in Keys, KeyStep(k) PROVE NoLostWake'
  <2>1. ASSUME pumpQueued' \/ pumping' \/ disposed' PROVE NoLostWake'
    BY <2>1 DEF NoLostWake
  <2>2. ASSUME NEW class, NEW due,
               Register(k, class, due) \/ Replace(k, class, due) \/ Update(k, class, due)
        PROVE  pumpQueued'
    BY <2>2, Zenon DEF Register, Replace, Update, schedulePump
  <2>3. ASSUME NEW target, NEW dirty, RequestScheduled(k, target, dirty) PROVE pumpQueued'
    BY <2>3, Zenon DEF RequestScheduled, schedulePump
  <2>4. ASSUME PauseOrResume(k) \/ RemoveKey(k) \/ PumpStart(k) PROVE pumpQueued' \/ pumping'
    <3>1. PumpStart(k) => pumping'
      BY DEF PumpStart
    <3> QED
      BY <2>4, <3>1, Zenon DEF PauseOrResume, RemoveKey, schedulePump
  <2>5. ASSUME NEW r, SettleStale(k, r) PROVE pumpQueued' \/ disposed'
    BY <2>5, Zenon DEF SettleStale
  <2>6. ASSUME NEW r, NEW next, SettleCurrent(k, r, next) PROVE pumpQueued'
    BY <2>6, Zenon DEF SettleCurrent, schedulePump
  <2>7. CASE \/ InvalidateRunning(k)
             \/ \E target \in {"due", "later"}, dirty \in BOOLEAN :
                    RequestCoalesced(k, target, dirty)
             \/ RequestRefused(k, "due")
    BY <2>7, MarkWakes
  <2>8. CASE TimePasses(k)
    BY <2>8, TimeWakes
  <2> QED
    BY <1>1, <2>1, <2>2, <2>3, <2>4, <2>5, <2>6, <2>7, <2>8, Zenon DEF KeyStep
<1>2. CASE \/ \E slept \in SUBSET Keys : HostResumes(slept)
           \/ Dispose \/ PumpBegin \/ TimerFires
  <2>1. pumpQueued' \/ pumping' \/ disposed'
    <3>1. PumpBegin => pumping' \/ disposed'
      <4>1. ASSUME PumpBegin, disposed PROVE disposed'
        BY <4>1 DEF PumpBegin
      <4>2. ASSUME PumpBegin, ~disposed PROVE pumping'
        BY <4>2, Zenon DEF PumpBegin
      <4> QED
        BY <4>1, <4>2
    <3> QED
      BY <1>2, <3>1, Zenon DEF HostResumes, Dispose, TimerFires, schedulePump
  <2> QED
    BY <2>1 DEF NoLostWake
<1>3. CASE PumpEnd
  <2>1. Candidates' = Candidates /\ Laters' = Laters
    BY <1>3, SameCandidates DEF PumpEnd, SameTurn
  <2>2. Candidates = {} /\ alarm' = Laters
    BY <1>3 DEF PumpEnd, Laters
  <2> QED
    BY <2>1, <2>2 DEF NoLostWake, Laters
<1>4. CASE UNCHANGED schedulerVars
  <2>1. Candidates' = Candidates /\ Laters' = Laters
    BY <1>4, SameCandidates DEF schedulerVars, SameTurn
  <2> QED
    BY <1>4, <2>1 DEF schedulerVars, NoLostWake, Laters
<1> QED
  BY <1>1, <1>2, <1>3, <1>4 DEF SchedulerNext

\* NoLostWake: whatever order owners, runs, the clock, the timer and the pump take
\* their steps in, a key that could start, or will be due, has a queued pump, a
\* pump under way or a timer that will come for it.
THEOREM WakesAreNeverLost == SchedulerSpec => []NoLostWake
<1>1. SchedulerInit => NoLostWake
  BY DEF SchedulerInit, NoLostWake, Candidates, Eligible, Registered
<1> QED
  BY <1>1, SchedulerInvInit, SchedulerInvNext, NoLostWakeNext, PTL DEF SchedulerSpec
----------------------------------------------------------------------------
(* The slots.  As a key has one operation at most, the operations of a set *)
(* of classes are as many as the keys that hold one, and that set of keys  *)
(* changes by one key when a run starts or settles and not at all when     *)
(* runs are fenced, removed or adopted.                                    *)

Holders(S) == {k \in Keys : \E r \in runs[k] : r.class \in S}

Pool == Classes \ {"critical"}
Unreserved == Classes \ {"critical", "interactive", "recovery"}

SlotInv ==
    /\ runningCritical = Cardinality(Holders({"critical"}))
    /\ running = Cardinality(Holders(Pool))
    /\ runningCritical <= MaxCritical /\ running <= MaxConcurrent
    /\ Cardinality(Holders(Unreserved)) <= MaxConcurrent - ReservedConcurrency

LEMMA HoldersFinite ==
    ASSUME NEW S
    PROVE  IsFiniteSet(Holders(S)) /\ Cardinality(Holders(S)) \in Nat
<1>1. Holders(S) \in SUBSET Keys /\ IsFiniteSet(Keys)
  BY SchedulerAssumption DEF Holders
<1> QED
  BY <1>1, FS_Subset, FS_CardinalityType

LEMMA HoldersCount ==
    ASSUME SchedulerInv, NEW S
    PROVE  Cardinality(RunsOf(S)) = Cardinality(Holders(S))
<1> DEFINE theRun(k) == CHOOSE r \in runs[k] : r.class \in S
           f == [k \in Holders(S) |-> <<k, theRun(k)>>]
<1>1. ASSUME NEW k \in Keys, NEW r \in runs[k], r.class \in S
      PROVE  k \in Holders(S) /\ theRun(k) = r
  <2>1. theRun(k) \in runs[k]
    BY <1>1
  <2>2. theRun(k) = r
    BY <2>1 DEF SchedulerInv, KeyInv, OneRun
  <2> QED
    BY <1>1, <2>2 DEF Holders
<1>2. ASSUME NEW k \in Holders(S)
      PROVE  k \in Keys /\ theRun(k) \in runs[k] /\ theRun(k).class \in S
  BY DEF Holders
<1>3. \A p : p \in RunsOf(S) <=> \E k \in Keys : \E r \in runs[k] : r.class \in S /\ p = <<k, r>>
  BY DEF RunsOf
<1> HIDE DEF theRun
<1>4. f \in [Holders(S) -> RunsOf(S)]
  BY <1>2, <1>3
<1>5. \A p \in RunsOf(S) : \E k \in Holders(S) : f[k] = p
  BY <1>1, <1>3
<1>6. \A k, o \in Holders(S) : f[k] = f[o] => k = o
  OBVIOUS
<1> HIDE DEF f
<1>7. f \in Bijection(Holders(S), RunsOf(S))
  BY <1>4, <1>5, <1>6 DEF Bijection, Injection, Surjection, IsInjective
<1> QED
  BY <1>7, HoldersFinite, FS_Bijection DEF ExistsBijection

\* Fencing changes no operation's class.
LEMMA FencedHolders ==
    ASSUME SchedulerInv, NEW S, NEW F \in SUBSET Keys,
           DOMAIN runs' = Keys,
           \A k \in F : runs'[k] = {[r EXCEPT !.stale = TRUE] : r \in runs[k]},
           \A k \in Keys \ F : runs'[k] = runs[k]
    PROVE  Holders(S)' = Holders(S)
<1>1. ASSUME NEW r \in Runs PROVE [r EXCEPT !.stale = TRUE].class = r.class
  BY DEF Runs
<1>2. ASSUME NEW k \in Keys
      PROVE  (\E r \in runs'[k] : r.class \in S) <=> (\E r \in runs[k] : r.class \in S)
  <2>1. runs[k] \in SUBSET Runs
    BY DEF SchedulerInv, KeyInv, KeyTyped
  <2>2. CASE k \notin F
    BY <2>2
  <2>3. CASE k \in F
    <3>1. ASSUME NEW s \in runs'[k] PROVE \E r \in runs[k] : s.class = r.class
      <4>1. PICK r \in runs[k] : s = [r EXCEPT !.stale = TRUE]
        BY <2>3
      <4> QED
        BY <1>1, <2>1, <4>1
    <3>2. ASSUME NEW r \in runs[k] PROVE \E s \in runs'[k] : s.class = r.class
      BY <1>1, <2>1, <2>3
    <3> QED
      BY <3>1, <3>2
  <2> QED
    BY <2>2, <2>3
<1> QED
  BY <1>2 DEF Holders

LEMMA SlotsKept ==
    ASSUME SlotInv, UNCHANGED <<running, runningCritical>>, \A S : Holders(S)' = Holders(S)
    PROVE  SlotInv'
BY DEF SlotInv, Pool, Unreserved

LEMMA StartHolders ==
    ASSUME SchedulerInv, NEW k \in Keys, PumpStart(k), NEW S
    PROVE  /\ k \notin Holders(S)
           /\ Holders(S)' = IF job[k].class \in S THEN Holders(S) \cup {k} ELSE Holders(S)
<1>1. job[k] # NoJob /\ job[k].run = NoRun /\ KeyInv(k) /\ SchedulerShape
  BY DEF PumpStart, Picks, Candidates, Eligible, IsWaiting, Registered, SchedulerInv
<1>2. runs[k] = {}
  BY <1>1, IdleKey
<1>3. /\ runs'[k] = {[id |-> FreeId(k), class |-> job[k].class, stale |-> FALSE]}
      /\ \A o \in Keys \ {k} : runs'[o] = runs[o]
  BY <1>1, <1>2 DEF PumpStart, SchedulerShape
<1>4. k \notin Holders(S)
  BY <1>2 DEF Holders
<1>5. \A o \in Keys \ {k} : o \in Holders(S)' <=> o \in Holders(S)
  BY <1>3 DEF Holders
<1>6. k \in Holders(S)' <=> job[k].class \in S
  <2> DEFINE q == [id |-> FreeId(k), class |-> job[k].class, stale |-> FALSE]
  <2>1. runs'[k] = {q}
    BY <1>3
  <2>2. q.class = job[k].class
    OBVIOUS
  <2> HIDE DEF q
  <2> QED
    BY <2>1, <2>2 DEF Holders
<1> QED
  BY <1>4, <1>5, <1>6 DEF Holders

LEMMA StartSlots ==
    ASSUME SchedulerInv, SlotInv, NEW k \in Keys, PumpStart(k)
    PROVE  SlotInv'
<1> DEFINE C == {"critical"}
<1>1. /\ k \in Candidates /\ k \in Registered /\ job[k].class \in Classes
  BY DEF PumpStart, Picks, Candidates, Eligible, SchedulerInv, KeyInv, KeyTyped, Registered,
         Jobs
<1>2. ASSUME NEW S
      PROVE  Cardinality(Holders(S)') = IF job[k].class \in S THEN Cardinality(Holders(S)) + 1
                                        ELSE Cardinality(Holders(S))
  BY StartHolders, HoldersFinite, FS_AddElement
<1>3. /\ Cardinality(Holders(C)) \in Nat /\ Cardinality(Holders(Pool)) \in Nat
      /\ Cardinality(Holders(Unreserved)) \in Nat
      /\ Cardinality(Holders(Unreserved)) <= Cardinality(Holders(Pool))
  <2>1. Holders(Unreserved) \in SUBSET Holders(Pool)
    BY DEF Holders, Pool, Unreserved
  <2> QED
    BY <2>1, HoldersFinite, FS_Subset
<1>4. CASE Critical(k)
  <2>1. /\ runningCritical < MaxCritical
        /\ runningCritical' = runningCritical + 1 /\ running' = running
    BY <1>1, <1>4 DEF PumpStart, Candidates, Eligible
  <2>2. job[k].class \in C /\ job[k].class \notin Pool /\ job[k].class \notin Unreserved
    BY <1>4 DEF Critical, Pool, Unreserved
  <2> QED
    BY <1>2, <1>3, <2>1, <2>2, SchedulerAssumption DEF SlotInv, Pool, Unreserved
<1>5. CASE ~Critical(k)
  <2>1. /\ running < MaxConcurrent
        /\ \/ job[k].class \in {"interactive", "recovery"}
           \/ running < MaxConcurrent - ReservedConcurrency
        /\ running' = running + 1 /\ runningCritical' = runningCritical
    BY <1>1, <1>5 DEF PumpStart, Candidates, Eligible
  <2>2. /\ job[k].class \notin C /\ job[k].class \in Pool
        /\ job[k].class \in Unreserved <=> job[k].class \notin {"interactive", "recovery"}
    BY <1>1, <1>5 DEF Critical, Pool, Unreserved
  <2> QED
    BY <1>2, <1>3, <2>1, <2>2, SchedulerAssumption DEF SlotInv, Pool, Unreserved
<1> QED
  BY <1>4, <1>5

LEMMA SettleSlots ==
    ASSUME SchedulerInv, SlotInv, NEW k \in Keys, NEW r \in runs[k], Freed(r),
           runs' = [runs EXCEPT ![k] = @ \ {r}]
    PROVE  SlotInv'
<1> DEFINE C == {"critical"}
<1>1. r.class \in Classes /\ (\A q \in runs[k] : q = r) /\ DOMAIN runs = Keys
  BY DEF SchedulerInv, SchedulerShape, KeyInv, KeyTyped, OneRun, Runs
<1>2. ASSUME NEW S
      PROVE  Cardinality(Holders(S)') = IF r.class \in S THEN Cardinality(Holders(S)) - 1
                                        ELSE Cardinality(Holders(S))
  <2>1. runs'[k] = {} /\ \A o \in Keys \ {k} : runs'[o] = runs[o]
    BY <1>1
  <2>2. Holders(S)' = Holders(S) \ {k} /\ (k \in Holders(S) <=> r.class \in S)
    BY <1>1, <2>1 DEF Holders
  <2> QED
    BY <2>2, HoldersFinite, FS_RemoveElement
<1>3. /\ Cardinality(Holders(C)) \in Nat /\ Cardinality(Holders(Pool)) \in Nat
      /\ Cardinality(Holders(Unreserved)) \in Nat
  BY HoldersFinite
<1>4. /\ r.class \in C <=> r.class = "critical"
      /\ r.class \in Pool <=> r.class # "critical"
  BY <1>1 DEF Pool
<1> QED
  BY <1>2, <1>3, <1>4, SchedulerAssumption DEF Freed, SlotInv, Pool, Unreserved

LEMMA SlotInvNext ==
    SchedulerInv /\ SlotInv /\ [SchedulerNext]_schedulerVars => SlotInv'
<1> SUFFICES ASSUME SchedulerInv, SlotInv, [SchedulerNext]_schedulerVars
             PROVE  SlotInv'
  OBVIOUS
<1>1. SchedulerShape
  BY DEF SchedulerInv
<1>2. ASSUME UNCHANGED <<runs, running, runningCritical>> PROVE SlotInv'
  BY <1>2, SlotsKept DEF Holders
<1>3. ASSUME NEW k \in Keys, runs' = Fenced(k), UNCHANGED <<running, runningCritical>>
      PROVE  SlotInv'
  <2>1. /\ DOMAIN runs' = Keys
        /\ \A o \in {k} : runs'[o] = {[r EXCEPT !.stale = TRUE] : r \in runs[o]}
        /\ \A o \in Keys \ {k} : runs'[o] = runs[o]
    BY <1>1, <1>3 DEF Fenced, SchedulerShape
  <2>2. ASSUME NEW S PROVE Holders(S)' = Holders(S)
    <3>1. {k} \in SUBSET Keys
      OBVIOUS
    <3> QED
      BY <2>1, <3>1, FencedHolders
  <2> QED
    BY <1>3, <2>2, SlotsKept
<1>4. ASSUME NEW k \in Keys, KeyStep(k) PROVE SlotInv'
  <2>1. ASSUME NEW class, NEW due,
               Register(k, class, due) \/ Replace(k, class, due) \/ Update(k, class, due)
        PROVE  SlotInv'
    BY <1>2, <1>3, <2>1 DEF Register, Replace, Update
  <2>2. ASSUME NEW target, NEW dirty,
               RequestCoalesced(k, target, dirty) \/ RequestScheduled(k, target, dirty)
        PROVE  SlotInv'
    BY <1>2, <2>2 DEF RequestCoalesced, RequestScheduled
  <2>3. CASE \/ InvalidateRunning(k) \/ RequestRefused(k, "due") \/ PauseOrResume(k)
             \/ TimePasses(k)
    BY <1>2, <2>3 DEF InvalidateRunning, RequestRefused, PauseOrResume, TimePasses
  <2>4. CASE RemoveKey(k)
    BY <1>3, <2>4 DEF RemoveKey
  <2>5. CASE PumpStart(k)
    BY <2>5, StartSlots
  <2>6. ASSUME NEW r \in runs[k], SettleStale(k, r) PROVE SlotInv'
    BY <2>6, SettleSlots DEF SettleStale
  <2>7. ASSUME NEW r \in runs[k], NEW next, SettleCurrent(k, r, next) PROVE SlotInv'
    BY <2>7, SettleSlots DEF SettleCurrent
  <2> QED
    BY <1>4, <2>1, <2>2, <2>3, <2>4, <2>5, <2>6, <2>7, Zenon DEF KeyStep
<1>5. CASE Dispose
  <2>1. /\ DOMAIN runs' = Keys
        /\ \A o \in Keys : runs'[o] = {[r EXCEPT !.stale = TRUE] : r \in runs[o]}
    BY <1>5 DEF Dispose
  <2>2. \A S : Holders(S)' = Holders(S)
    BY <2>1, FencedHolders
  <2> QED
    BY <1>5, <2>2, SlotsKept DEF Dispose
<1>6. CASE \/ \E slept \in SUBSET Keys : HostResumes(slept)
           \/ PumpBegin \/ PumpEnd \/ TimerFires \/ UNCHANGED schedulerVars
  BY <1>2, <1>6 DEF HostResumes, PumpBegin, PumpEnd, TimerFires, schedulerVars
<1> QED
  BY <1>4, <1>5, <1>6 DEF SchedulerNext

LEMMA SlotInvInit == SchedulerInit => SlotInv
<1> SUFFICES ASSUME SchedulerInit PROVE SlotInv
  OBVIOUS
<1>1. \A S : Holders(S) = {}
  BY DEF SchedulerInit, Holders
<1> QED
  BY <1>1, FS_EmptySet, SchedulerAssumption DEF SchedulerInit, SlotInv, Pool, Unreserved

LEMMA SlotsAccounted == SchedulerInv /\ SlotInv => RunsAccounted
<1> SUFFICES ASSUME SchedulerInv, SlotInv PROVE RunsAccounted
  OBVIOUS
<1>1. ASSUME NEW k \in Keys PROVE Cardinality(runs[k]) <= 1
  <2>1. CASE runs[k] = {}
    BY <2>1, FS_EmptySet
  <2>2. CASE runs[k] # {}
    <3>1. PICK r : r \in runs[k]
      BY <2>2
    <3>2. runs[k] = {r}
      BY <3>1 DEF SchedulerInv, KeyInv, OneRun
    <3>3. Cardinality({r}) = 1
      BY FS_Singleton
    <3> QED
      BY <3>2, <3>3
  <2> QED
    BY <2>1, <2>2
<1>2. \A S : Cardinality(RunsOf(S)) = Cardinality(Holders(S))
  BY HoldersCount
<1> QED
  BY <1>1, <1>2 DEF RunsAccounted, SlotInv, Pool, Unreserved

\* RunsAccounted: across removal, adoption, replacement, class changes, fencing and
\* disposal, the two counters are the number of operations under way, neither
\* passes its limit, and the reserved slots stay free of the other classes.
THEOREM RunsAlwaysAccounted == SchedulerSpec => []RunsAccounted
BY SchedulerInvInit, SchedulerInvNext, SlotInvInit, SlotInvNext, SlotsAccounted, PTL
   DEF SchedulerSpec
----------------------------------------------------------------------------
(* Types.  That the counters stay natural numbers rests on SlotInv.        *)

FlagsTyped ==
    /\ pumpQueued \in BOOLEAN /\ pumping \in BOOLEAN /\ disposed \in BOOLEAN
    /\ alarm \subseteq Keys

LEMMA FlagsNext == FlagsTyped /\ [SchedulerNext]_schedulerVars => FlagsTyped'
<1> SUFFICES ASSUME FlagsTyped, [SchedulerNext]_schedulerVars PROVE FlagsTyped'
  OBVIOUS
<1>1. ASSUME pumpQueued' \in {TRUE, pumpQueued}, UNCHANGED <<pumping, disposed, alarm>>
      PROVE  FlagsTyped'
  BY <1>1 DEF FlagsTyped
<1>2. ASSUME NEW k \in Keys, KeyStep(k) PROVE FlagsTyped'
  <2>1. ASSUME NEW class, NEW due,
               Register(k, class, due) \/ Replace(k, class, due) \/ Update(k, class, due)
        PROVE  FlagsTyped'
    BY <1>1, <2>1 DEF Register, Replace, Update, schedulePump
  <2>2. ASSUME NEW target, NEW dirty,
               RequestCoalesced(k, target, dirty) \/ RequestScheduled(k, target, dirty)
        PROVE  FlagsTyped'
    BY <1>1, <2>2 DEF RequestCoalesced, RequestScheduled, schedulePump
  <2>3. CASE \/ InvalidateRunning(k) \/ RequestRefused(k, "due") \/ PauseOrResume(k)
             \/ TimePasses(k) \/ RemoveKey(k) \/ PumpStart(k)
    BY <1>1, <2>3 DEF InvalidateRunning, RequestRefused, PauseOrResume, TimePasses,
                      RemoveKey, PumpStart, schedulePump
  <2>4. ASSUME NEW r \in runs[k], SettleStale(k, r) PROVE FlagsTyped'
    <3>1. pumpQueued' \in BOOLEAN /\ UNCHANGED <<pumping, disposed, alarm>>
      BY <2>4 DEF SettleStale
    <3> QED
      BY <3>1 DEF FlagsTyped
  <2>5. ASSUME NEW r \in runs[k], NEW next, SettleCurrent(k, r, next) PROVE FlagsTyped'
    BY <1>1, <2>5 DEF SettleCurrent, schedulePump
  <2> QED
    BY <1>2, <2>1, <2>2, <2>3, <2>4, <2>5, Zenon DEF KeyStep
<1>3. CASE \E slept \in SUBSET Keys : HostResumes(slept)
  BY <1>1, <1>3 DEF HostResumes, schedulePump
<1>4. CASE Dispose \/ PumpEnd \/ TimerFires \/ UNCHANGED schedulerVars
  BY <1>4 DEF Dispose, PumpEnd, TimerFires, Registered, schedulePump, schedulerVars, FlagsTyped
<1>5. CASE PumpBegin
  <2>1. pumpQueued' = FALSE /\ pumping' = ~disposed /\ UNCHANGED <<disposed, alarm>>
    BY <1>5 DEF PumpBegin
  <2>2. pumping' \in BOOLEAN
    BY <2>1, Zenon
  <2> QED
    BY <2>1, <2>2 DEF FlagsTyped
<1> QED
  BY <1>2, <1>3, <1>4, <1>5 DEF SchedulerNext

\* SchedulerTypeOK: every value stays in its type; a settled run never takes a
\* counter below zero.
THEOREM SchedulerTyped == SchedulerSpec => []SchedulerTypeOK
<1>1. SchedulerInit => FlagsTyped
  BY DEF SchedulerInit, FlagsTyped
<1>2. SchedulerInv /\ SlotInv /\ FlagsTyped => SchedulerTypeOK
  <2> SUFFICES ASSUME SchedulerInv, SlotInv, FlagsTyped PROVE SchedulerTypeOK
    OBVIOUS
  <2>1. \A k \in Keys : KeyTyped(k)
    BY DEF SchedulerInv, KeyInv
  <2>2. /\ job = [k \in Keys |-> job[k]] /\ runs = [k \in Keys |-> runs[k]]
        /\ orphan = [k \in Keys |-> orphan[k]]
    BY DEF SchedulerInv, SchedulerShape
  <2>3. job \in [Keys -> Jobs \cup {NoJob}]
    BY <2>1, <2>2 DEF KeyTyped
  <2>4. runs \in [Keys -> SUBSET Runs]
    BY <2>1, <2>2 DEF KeyTyped
  <2>5. orphan \in [Keys -> RunIds \cup {NoRun}]
    BY <2>1, <2>2 DEF KeyTyped
  <2>6. running \in Nat /\ runningCritical \in Nat
    BY HoldersFinite DEF SlotInv
  <2> QED
    BY <2>3, <2>4, <2>5, <2>6 DEF SchedulerTypeOK, FlagsTyped, SchedulerInv, SchedulerShape
<1> QED
  BY <1>1, <1>2, FlagsNext, SchedulerInvInit, SchedulerInvNext, SlotInvInit, SlotInvNext, PTL
     DEF SchedulerSpec
=============================================================================
