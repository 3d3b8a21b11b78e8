-------------------------- MODULE DeletionPromise --------------------------
(***************************************************************************)
(* What deleting an environment promises about the host, whatever fails    *)
(* and whenever the backend stops: nothing of a live environment is        *)
(* touched; what depends on something is removed after it; and once the    *)
(* environment's record is gone, whatever is left of it on the host is     *)
(* still owed (docs/architecture/environment-deletion.md, "Anything a      *)
(* failed, interrupted or older deletion left behind is found and removed  *)
(* later").                                                                *)
(***************************************************************************)
CONSTANTS
    Envs,        \* environments
    Owns,        \* Owns[e]: the host resources Orkestrator created for e
    Unmerged     \* environments whose branch holds work nobody else has

VARIABLES
    status,      \* "live", "deleting" or "gone"
    present,     \* the resources of an environment still on the host
    owed         \* the resources somebody has undertaken to remove

promiseVars == <<status, present, owed>>

\* A branch with work of its own is kept, and nobody owes its removal.
Settled(e, s, left) == s \notin left \/ (s = "branch" /\ e \in Unmerged)

\* What must be gone before s may be removed.
Before(s) == CASE s \in {"volumes", "network"} -> {"container"}
               [] s = "branch" -> {"worktree"}
               [] OTHER -> {}

PromiseInit ==
    /\ status = [e \in Envs |-> "live"]
    /\ present = Owns
    /\ owed = [e \in Envs |-> {}]

Condemn(e) ==
    /\ status[e] = "live"
    /\ status' = [status EXCEPT ![e] = "deleting"]
    /\ UNCHANGED <<present, owed>>

Undertake(e) ==
    /\ status[e] = "deleting"
    /\ owed' = [owed EXCEPT ![e] = Owns[e]]
    /\ UNCHANGED <<status, present>>

\* One attempt at one resource: it goes or stays, and the debt is struck off
\* only when nothing is left to do.
Attempt(e, s) ==
    /\ status[e] # "live"
    /\ s \in Owns[e]
    /\ \/ present' = present
       \/ /\ Before(s) \cap present[e] = {}
          /\ ~(s = "branch" /\ e \in Unmerged)
          /\ present' = [present EXCEPT ![e] = @ \ {s}]
    /\ \/ owed' = owed
       \/ /\ Settled(e, s, present'[e])
          /\ owed' = [owed EXCEPT ![e] = @ \ {s}]
    /\ UNCHANGED status

Forget(e) ==
    /\ status[e] = "deleting"
    /\ \A s \in present[e] : s \in owed[e] \/ Settled(e, s, present[e])
    /\ status' = [status EXCEPT ![e] = "gone"]
    /\ UNCHANGED <<present, owed>>

PromiseNext ==
    \E e \in Envs : \/ Condemn(e) \/ Undertake(e) \/ Forget(e)
                    \/ \E s \in Owns[e] : Attempt(e, s)

PromiseSpec == PromiseInit /\ [][PromiseNext]_promiseVars
=============================================================================
