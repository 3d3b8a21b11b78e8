-------------------------- MODULE EnvironmentMove --------------------------
(***************************************************************************)
(* Moving the worktree of a local environment to another folder            *)
(* (environment-move.ts) behind the fence that keeps file writes, agent    *)
(* submissions, tab closes and replacements away from it                   *)
(* (environment-replacement-fence.ts), and the code rewind that borrows    *)
(* the fence (workspace-code-rewind.ts).                                   *)
(*                                                                         *)
(* A move is journaled on the environment's record before a file is        *)
(* touched.  The folder goes by git worktree move, by a rename when git    *)
(* refuses (submodules), or by a copy to another disk; the path is         *)
(* committed to the record; what is keyed by the old folder follows.  Each *)
(* command and each write may fail, having had its effect or not; a write  *)
(* may be published and still be rejected.  A failure is undone, or the    *)
(* journal and the fence stay for the recovery of the next start.          *)
(*                                                                         *)
(* The journal's source identity and "source cleaned" mark, which keep a   *)
(* retried completion from deleting a folder that was reused meanwhile,    *)
(* are left out: nobody else uses the folders of the model.                *)
(***************************************************************************)
EXTENDS Integers

CONSTANTS
    Folders,         \* folders a worktree may be in
    Home,            \* the folder it is in first
    MaxHolds,        \* bound: holds of one kind
    MaxEdits,        \* bound: edits of the checkout
    MaxMoveFaults,   \* bound: failing commands and writes
    MaxCrashes       \* bound: stops of the backend

ASSUME MoveAssumption ==
    /\ Home \in Folders
    /\ MaxHolds \in Nat /\ MaxEdits \in Nat
    /\ MaxMoveFaults \in Nat /\ MaxCrashes \in Nat

VARIABLES
    worktreePath,    \* the record's path
    journal,         \* the record's worktreeMove, or NoMove
    rec,             \* the move's copy of it
    disk,            \* disk[f]: Absent, Partial, or the edits of a whole checkout in f
    staging,         \* the same for the staging copy
    gitAt,           \* the folder git has on record for the worktree
    at,              \* where the move, rewind or recovery is
    moved,           \* how the folder was moved: "no", "rename" (or by git) or "copy"
    mover,           \* who has reserved the fence: "none", "move" or "rewind"
    recoveryPending, bound,    \* of the fence; bound: movingPaths names the folders
    held,            \* held[k]: holds of kind k
    turn,            \* an agent's turn goes on after its submission was acknowledged
    edits,           \* edits of the checkout so far
    unrepaired,      \* history: a rollback was called done with git left behind
    moveFaults, crashes

fenceVars == <<at, mover, recoveryPending, bound, held, turn>>
fileVars == <<worktreePath, journal, rec, disk, staging, gitAt, moved, edits>>
moveVars == <<fenceVars, fileVars, unrepaired, moveFaults, crashes>>

Absent == -2
Partial == -1
Contents == {Absent, Partial} \cup 0..MaxEdits

\* pendingMutations, pendingAgentWork, closingTabs, pendingPathWrites, replacing.
Kinds == {"mutation", "agent", "tab", "path", "replacement"}
NoHolds == [k \in Kinds |-> 0]

NoMove == [from |-> Home, to |-> Home, phase |-> "none", removeSource |-> FALSE]
Journals == [from : Folders, to : Folders, phase : {"none", "moving", "copied", "committed"},
             removeSource : BOOLEAN]

\* The steps at which the move, the rewind or the recovery works on files.
FileSteps == {"journaling", "ready", "renaming", "renamed", "copying", "staging", "staged",
              "placed", "undo", "copied", "moved", "uncertain", "committed", "cleaned",
              "failed", "rollback", "rolledback", "stuck", "unknown", "incomplete",
              "resetting"}
Startup == {"recovering"}

MoveTypeOK ==
    /\ worktreePath \in Folders /\ gitAt \in Folders
    /\ journal \in Journals /\ rec \in Journals
    /\ disk \in [Folders -> Contents] /\ staging \in Contents
    /\ at \in {"idle", "queued", "checked", "rewinding"} \cup FileSteps \cup Startup
    /\ moved \in {"no", "rename", "copy"}
    /\ mover \in {"none", "move", "rewind"}
    /\ recoveryPending \in BOOLEAN /\ bound \in BOOLEAN
    /\ held \in [Kinds -> Nat] /\ turn \in BOOLEAN
    /\ edits \in 0..MaxEdits /\ unrepaired \in BOOLEAN
    /\ moveFaults \in 0..MaxMoveFaults /\ crashes \in 0..MaxCrashes

MoveInit ==
    /\ worktreePath = Home /\ gitAt = Home
    /\ journal = NoMove /\ rec = NoMove
    /\ disk = [f \in Folders |-> IF f = Home THEN 0 ELSE Absent]
    /\ staging = Absent
    /\ at = "idle" /\ moved = "no" /\ mover = "none"
    /\ recoveryPending = FALSE /\ bound = FALSE
    /\ held = NoHolds /\ turn = FALSE
    /\ edits = 0 /\ unrepaired = FALSE
    /\ moveFaults = 0 /\ crashes = 0

MoveFault == moveFaults < MaxMoveFaults /\ moveFaults' = moveFaults + 1
NoFault == UNCHANGED moveFaults

----------------------------------------------------------------------------
(* The fence.                                                              *)

AcceptsAgentWork ==
    /\ held["tab"] = 0
    /\ ~recoveryPending /\ mover = "none"
    /\ held["replacement"] = 0

\* What lets a hold of each kind begin.
Admits(k) ==
    CASE k \in {"mutation", "replacement"} -> ~recoveryPending /\ mover = "none"
      [] k = "agent" -> AcceptsAgentWork
      [] k = "tab" -> AcceptsAgentWork /\ held["agent"] = 0
      [] k = "path" -> ~bound

\* beginMutation, beginAgentWork, beginTabClose, beginWorktreeMutation and
\* withReplacement.  No command is served before the recovery of the start is over.
Begin(k) ==
    /\ mover = "none" => at = "idle"
    /\ Admits(k)
    /\ held[k] < MaxHolds
    /\ held' = [held EXCEPT ![k] = @ + 1]
    /\ UNCHANGED <<at, mover, recoveryPending, bound, turn, fileVars, unrepaired, moveFaults,
                   crashes>>

\* The release; the turn an agent submission started goes on.
Release(k) ==
    /\ held[k] > 0
    /\ held' = [held EXCEPT ![k] = @ - 1]
    /\ turn' \in {turn, turn \/ k = "agent"}
    /\ UNCHANGED <<at, mover, recoveryPending, bound, fileVars, unrepaired, moveFaults, crashes>>

AgentTurnEnds ==
    /\ turn
    /\ turn' = FALSE
    /\ UNCHANGED <<at, mover, recoveryPending, bound, held, fileVars, unrepaired, moveFaults,
                   crashes>>

\* Work under a hold, or a turn, writes in the folder that the record names.
Edit ==
    /\ turn \/ held["mutation"] > 0 \/ held["path"] > 0 \/ at = "resetting"
    /\ edits < MaxEdits
    /\ edits' = edits + 1
    /\ disk' = [disk EXCEPT ![worktreePath] = IF @ < 0 THEN @ ELSE edits + 1]
    /\ UNCHANGED <<fenceVars, worktreePath, journal, rec, staging, gitAt, moved, unrepaired,
                   moveFaults, crashes>>

\* beginMove.
MoveAdmitted ==
    /\ mover = "none" /\ at = "idle"
    /\ held["tab"] = 0 /\ held["mutation"] = 0 /\ held["agent"] = 0

\* Mutant of EndMove: the paths are unbound with the reservation.
EndMoveUnbinds(pending) ==
    /\ at' = "idle" /\ mover' = "none"
    /\ recoveryPending' = pending
    /\ bound' = FALSE
    /\ UNCHANGED <<held, turn>>

\* endMove: the paths stay bound while a recovery is pending.
EndMove(pending) ==
    /\ at' = "idle" /\ mover' = "none"
    /\ recoveryPending' = pending
    /\ bound' = (bound /\ pending)
    /\ UNCHANGED <<held, turn>>

Goto(s) == at' = s /\ UNCHANGED <<mover, recoveryPending, bound, held, turn>>

----------------------------------------------------------------------------
(* withExclusiveMutation for a code rewind: the folder is bound only once   *)
(* it was read, when moves are excluded already.                           *)

BeginRewind ==
    /\ AcceptsAgentWork /\ MoveAdmitted
    /\ mover' = "rewind" /\ at' = "rewinding"
    /\ bound' = FALSE
    /\ UNCHANGED <<recoveryPending, held, turn, fileVars, unrepaired, moveFaults, crashes>>

BindRewind ==
    /\ at = "rewinding"
    /\ held["path"] = 0
    /\ bound' = TRUE /\ at' = "resetting"
    /\ UNCHANGED <<mover, recoveryPending, held, turn, fileVars, unrepaired, moveFaults, crashes>>

EndRewind ==
    /\ at \in {"rewinding", "resetting"}
    /\ EndMove(recoveryPending)
    /\ UNCHANGED <<fileVars, unrepaired, moveFaults, crashes>>

----------------------------------------------------------------------------
(* A move up to its journal.                                               *)

RequestMove ==
    /\ MoveAdmitted
    /\ mover' = "move" /\ at' = "queued"
    /\ UNCHANGED <<recoveryPending, bound, held, turn, fileVars, unrepaired, moveFaults, crashes>>

\* assertEnvironmentMovable and the checks up to bindMovePaths; each may refuse.
CheckMove(to) ==
    /\ at = "queued"
    /\ journal = NoMove /\ held["replacement"] = 0 /\ ~turn
    /\ to # worktreePath /\ disk[to] = Absent /\ disk[worktreePath] # Absent
    /\ rec' = [from |-> worktreePath, to |-> to, phase |-> "moving", removeSource |-> FALSE]
    /\ moved' = "no"
    /\ Goto("checked")
    /\ UNCHANGED <<worktreePath, journal, disk, staging, gitAt, edits, unrepaired, moveFaults,
                   crashes>>

MoveRefused ==
    /\ at \in {"queued", "checked"}
    /\ EndMove(recoveryPending)
    /\ UNCHANGED <<fileVars, unrepaired, moveFaults, crashes>>

BindMove ==
    /\ at = "checked"
    /\ held["path"] = 0
    /\ bound' = TRUE /\ at' = "journaling"
    /\ UNCHANGED <<mover, recoveryPending, held, turn, fileVars, unrepaired, moveFaults, crashes>>

\* A write of the record's journal: done, or rejected before or after it was published.
Written(j) == journal' = j /\ NoFault
WriteRejected(j) == journal' \in {journal, j} /\ MoveFault

JournalMove ==
    /\ at = "journaling"
    /\ \/ Written(rec) /\ Goto("ready")
       \/ WriteRejected(rec) /\ EndMove(recoveryPending)
    /\ UNCHANGED <<worktreePath, rec, disk, staging, gitAt, moved, edits, unrepaired, crashes>>

----------------------------------------------------------------------------
(* Moving the folder.                                                      *)

Swapped(a, b) == [disk EXCEPT ![a] = Absent, ![b] = disk[a]]

\* git worktree move, once everything that runs in the folder is stopped.
GitMoves ==
    /\ at = "ready"
    /\ disk' = Swapped(rec.from, rec.to) /\ gitAt' = rec.to
    /\ moved' = "rename" /\ Goto("moved")
    /\ UNCHANGED <<worktreePath, journal, rec, staging, edits, unrepaired, moveFaults, crashes>>

\* git refuses: submodules, or another disk.
GitRefuses ==
    /\ at = "ready"
    /\ Goto("renaming") \/ Goto("copying")
    /\ UNCHANGED <<fileVars, unrepaired, moveFaults, crashes>>

\* Something is still running, or git fails before or after it moved the folder.
GitFails ==
    /\ at = "ready"
    /\ MoveFault
    /\ \/ UNCHANGED <<disk, gitAt>>
       \/ disk' = Swapped(rec.from, rec.to) /\ gitAt' \in {gitAt, rec.to}
    /\ Goto("failed")
    /\ UNCHANGED <<worktreePath, journal, rec, staging, moved, edits, unrepaired, crashes>>

\* renameWorktree: the journal is written again, and the folder renamed.
RenameFolder ==
    /\ at = "renaming"
    /\ disk' = Swapped(rec.from, rec.to)
    /\ moved' = "rename" /\ Goto("renamed")
    /\ UNCHANGED <<worktreePath, journal, rec, staging, gitAt, edits, unrepaired, moveFaults,
                   crashes>>

RenameFails ==
    /\ at = "renaming"
    /\ \/ NoFault /\ Goto("copying")
       \/ MoveFault /\ Goto("failed")
    /\ UNCHANGED <<fileVars, unrepaired, crashes>>

RepairRenamed ==
    /\ at = "renamed"
    /\ \/ gitAt' = rec.to /\ NoFault /\ Goto("moved")
       \/ gitAt' \in {gitAt, rec.to} /\ MoveFault /\ Goto("failed")
    /\ UNCHANGED <<worktreePath, journal, rec, disk, staging, moved, edits, unrepaired, crashes>>

\* The copy: journal the staging folder, fill it, rename it, point git at it.
JournalStaging ==
    /\ at = "copying"
    /\ \/ Written(rec) /\ Goto("staging")
       \/ WriteRejected(rec) /\ Goto("failed")
    /\ UNCHANGED <<worktreePath, rec, disk, staging, gitAt, moved, edits, unrepaired, crashes>>

FillStaging ==
    /\ at = "staging"
    /\ \/ staging' = disk[rec.from] /\ NoFault /\ Goto("staged")
       \/ staging' = Partial /\ MoveFault /\ Goto("undo")
    /\ UNCHANGED <<worktreePath, journal, rec, disk, gitAt, moved, edits, unrepaired, crashes>>

PlaceCopy ==
    /\ at = "staged"
    /\ \/ /\ disk' = [disk EXCEPT ![rec.to] = staging] /\ staging' = Absent
          /\ NoFault /\ Goto("placed")
       \/ UNCHANGED <<disk, staging>> /\ MoveFault /\ Goto("undo")
    /\ UNCHANGED <<worktreePath, journal, rec, gitAt, moved, edits, unrepaired, crashes>>

RepairCopy ==
    /\ at = "placed"
    /\ \/ gitAt' = rec.to /\ NoFault /\ Goto("copied")
       \/ gitAt' \in {gitAt, rec.to} /\ MoveFault /\ Goto("undo")
    /\ UNCHANGED <<worktreePath, journal, rec, disk, staging, moved, edits, unrepaired, crashes>>

\* The copy's own catch: both copies are removed, best effort, and git is pointed
\* back; that may fail, and the move's catch does not learn of it.
UndoCopy ==
    /\ at = "undo"
    /\ \/ /\ staging' = Absent /\ disk' = [disk EXCEPT ![rec.to] = Absent]
          /\ gitAt' = rec.from /\ NoFault
       \/ /\ staging' \in {Absent, staging}
          /\ disk' \in {[disk EXCEPT ![rec.to] = c] : c \in {Absent, Partial, disk[rec.to]}}
          /\ gitAt' \in {gitAt, rec.from}
          /\ MoveFault
    /\ Goto("failed")
    /\ UNCHANGED <<worktreePath, journal, rec, moved, edits, unrepaired, crashes>>

JournalCopied ==
    /\ at = "copied"
    /\ rec' = [rec EXCEPT !.phase = "copied", !.removeSource = TRUE]
    /\ moved' = "copy"
    /\ \/ Written(rec') /\ Goto("moved")
       \/ WriteRejected(rec') /\ Goto("failed")
    /\ UNCHANGED <<worktreePath, disk, staging, gitAt, edits, unrepaired, crashes>>

----------------------------------------------------------------------------
(* Commit and completion (completeCommittedMove), of a move or a recovery. *)

Commit ==
    /\ at = "moved"
    /\ rec' = [rec EXCEPT !.phase = "committed"]
    /\ \/ /\ journal' = rec' /\ worktreePath' = rec.to
          /\ NoFault /\ Goto("committed")
       \/ /\ \/ journal' = rec' /\ worktreePath' = rec.to
             \/ UNCHANGED <<journal, worktreePath>>
          /\ MoveFault /\ Goto("uncertain")
    /\ UNCHANGED <<disk, staging, gitAt, moved, edits, unrepaired, crashes>>

\* The record is read again before anything is undone.
ReadAuthority ==
    /\ at = "uncertain"
    /\ \/ NoFault /\ Goto(IF worktreePath = rec.to THEN "incomplete" ELSE "failed")
       \/ MoveFault /\ Goto("unknown")
    /\ UNCHANGED <<fileVars, unrepaired, crashes>>

\* The source of a copy goes once the agents' state has followed.
RemoveSource ==
    /\ at = "committed" /\ rec.removeSource
    /\ \/ disk' = [disk EXCEPT ![rec.from] = Absent] /\ NoFault /\ Goto("cleaned")
       \/ /\ disk' \in {[disk EXCEPT ![rec.from] = c] : c \in {Absent, Partial, disk[rec.from]}}
          /\ MoveFault /\ Goto("incomplete")
    /\ UNCHANGED <<worktreePath, journal, rec, staging, gitAt, moved, edits, unrepaired, crashes>>

FinishMove ==
    /\ at = "cleaned" \/ (at = "committed" /\ ~rec.removeSource)
    /\ \/ Written(NoMove) /\ EndMove(FALSE)
       \/ WriteRejected(NoMove) /\ Goto("incomplete")
    /\ UNCHANGED <<worktreePath, rec, disk, staging, gitAt, moved, edits, unrepaired, crashes>>

\* Conversations that could not be relocated, or a failure after the commit.
CompletionLeft ==
    /\ at = "incomplete" \/ at = "committed"
    /\ EndMove(TRUE)
    /\ UNCHANGED <<fileVars, unrepaired, moveFaults, crashes>>

----------------------------------------------------------------------------
(* A failure before the commit.                                            *)

\* Nothing was moved as far as the move knows: the folders tell.
InspectFolders ==
    /\ at = "failed" /\ moved = "no"
    /\ Goto(IF disk[rec.from] # Absent /\ disk[rec.to] = Absent THEN "rolledback" ELSE "stuck")
    /\ UNCHANGED <<fileVars, unrepaired, moveFaults, crashes>>

\* A copy: first the journal says that the source counts.
PublishRollback ==
    /\ at = "failed" /\ moved = "copy"
    /\ rec' = [rec EXCEPT !.phase = "moving"]
    /\ \/ Written(rec') /\ Goto("rollback")
       \/ WriteRejected(rec') /\ Goto("stuck")
    /\ UNCHANGED <<worktreePath, disk, staging, gitAt, moved, edits, unrepaired, crashes>>

RollbackCopy ==
    /\ at = "rollback"
    /\ \/ /\ gitAt' = rec.from /\ disk' = [disk EXCEPT ![rec.to] = Absent]
          /\ NoFault /\ Goto("rolledback")
       \/ /\ \/ gitAt' = gitAt /\ disk' = disk
             \/ gitAt' = rec.from /\ disk' \in {disk, [disk EXCEPT ![rec.to] = Partial]}
          /\ MoveFault /\ Goto("stuck")
    /\ UNCHANGED <<worktreePath, journal, rec, staging, moved, edits, unrepaired, crashes>>

\* A rename, by git or by hand, is undone the way it was done.
RollbackRename ==
    /\ at = "failed" /\ moved = "rename"
    /\ \/ /\ disk' = Swapped(rec.to, rec.from) /\ gitAt' = rec.from
          /\ NoFault /\ Goto("rolledback")
       \/ /\ \/ disk' = disk /\ gitAt' = gitAt
             \/ disk' = Swapped(rec.to, rec.from) /\ gitAt' \in {gitAt, rec.from}
          /\ MoveFault /\ Goto("stuck")
    /\ UNCHANGED <<worktreePath, journal, rec, staging, moved, edits, unrepaired, crashes>>

\* The write that ends a failed move is best effort; the fence decides.
RolledBack ==
    /\ at = "rolledback"
    /\ Written(NoMove) \/ WriteRejected(NoMove)
    /\ EndMove(FALSE)
    /\ unrepaired' = (unrepaired \/ gitAt # rec.from)
    /\ UNCHANGED <<worktreePath, rec, disk, staging, gitAt, moved, edits, crashes>>

\* The rollback failed, or was not allowed because the commit's fate is unknown.
KeepJournal ==
    /\ at \in {"stuck", "unknown"}
    /\ LET kept == [rec EXCEPT !.phase =
                        IF at = "unknown" /\ rec.removeSource THEN "copied" ELSE "moving"]
       IN Written(kept) \/ WriteRejected(kept)
    /\ EndMove(TRUE)
    /\ UNCHANGED <<worktreePath, rec, disk, staging, gitAt, moved, edits, unrepaired, crashes>>

----------------------------------------------------------------------------
(* The process stops, at any moment, and starts again.                     *)

MoveCrash ==
    /\ crashes < MaxCrashes
    /\ crashes' = crashes + 1
    /\ held' = NoHolds /\ turn' = FALSE
    /\ mover' = "none"
    /\ rec' = journal
    /\ at' = IF journal = NoMove THEN "idle" ELSE "recovering"
    /\ recoveryPending' = (journal # NoMove) /\ bound' = (journal # NoMove)
    /\ UNCHANGED <<worktreePath, journal, disk, staging, gitAt, moved, edits, unrepaired,
                   moveFaults>>

\* Mutant of Adopts: a destination that exists is taken for a finished move.
AdoptsAny == disk[rec.to] # Absent

\* What recovery prefers: the destination of a finished move, or the only folder.
Adopts ==
    /\ disk[rec.to] # Absent
    /\ rec.phase \in {"committed", "copied"} \/ disk[rec.from] = Absent

Adopt ==
    /\ at = "recovering" /\ Adopts
    /\ gitAt' = rec.to /\ worktreePath' = rec.to
    /\ rec' = [rec EXCEPT !.phase = "committed"]
    /\ Written(rec') /\ Goto("committed")
    /\ UNCHANGED <<disk, staging, moved, edits, unrepaired, crashes>>

\* Mutant of Abandon: git is left with the folder it has on record.
AbandonUnrepaired ==
    /\ at = "recovering" /\ ~Adopts /\ rec.phase # "committed"
    /\ staging' \in {Absent, staging}
    /\ Written(NoMove) /\ EndMove(FALSE)
    /\ UNCHANGED <<worktreePath, rec, disk, gitAt, moved, edits, unrepaired, crashes>>

Abandon ==
    /\ at = "recovering" /\ ~Adopts /\ rec.phase # "committed"
    /\ staging' \in {Absent, staging}
    /\ gitAt' = IF disk[rec.from] # Absent THEN rec.from ELSE gitAt
    /\ Written(NoMove) /\ EndMove(FALSE)
    /\ UNCHANGED <<worktreePath, rec, disk, moved, edits, unrepaired, crashes>>

\* A repair or a write of the recovery fails, the write published or not: it is
\* retried at the next start.
RecoveryFails ==
    /\ at = "recovering"
    /\ MoveFault
    /\ staging' \in {Absent, staging}
    /\ \/ /\ gitAt' \in {gitAt, IF Adopts THEN rec.to ELSE rec.from}
          /\ UNCHANGED <<worktreePath, journal>>
       \/ /\ Adopts
          /\ gitAt' = rec.to /\ worktreePath' = rec.to
          /\ journal' = [rec EXCEPT !.phase = "committed"]
       \/ /\ ~Adopts /\ rec.phase # "committed"
          /\ gitAt' = IF disk[rec.from] # Absent THEN rec.from ELSE gitAt
          /\ journal' = NoMove
          /\ UNCHANGED worktreePath
    /\ EndMove(TRUE)
    /\ UNCHANGED <<rec, disk, moved, edits, unrepaired, crashes>>

MoveStep ==
    \/ RequestMove \/ MoveRefused \/ BindMove \/ JournalMove
    \/ \E to \in Folders : CheckMove(to)
    \/ GitMoves \/ GitRefuses \/ GitFails
    \/ RenameFolder \/ RenameFails \/ RepairRenamed
    \/ JournalStaging \/ FillStaging \/ PlaceCopy \/ RepairCopy \/ UndoCopy \/ JournalCopied
    \/ Commit \/ ReadAuthority \/ RemoveSource \/ FinishMove \/ CompletionLeft
    \/ InspectFolders \/ PublishRollback \/ RollbackCopy \/ RollbackRename
    \/ RolledBack \/ KeepJournal

RecoveryStep == Adopt \/ Abandon \/ RecoveryFails

FenceStep ==
    \/ \E k \in Kinds : Begin(k) \/ Release(k)
    \/ AgentTurnEnds \/ Edit \/ BeginRewind \/ BindRewind \/ EndRewind

MoveNext == FenceStep \/ MoveStep \/ RecoveryStep \/ MoveCrash

MoveSpec == MoveInit /\ [][MoveNext]_moveVars

----------------------------------------------------------------------------
(* Properties.                                                             *)

\* While a move, a rewind or a recovery works on the folders, and for as long as
\* a recovery is pending, no file write, agent submission, tab close or
\* replacement is under way, whatever was admitted before the reservation; and
\* no agent's turn runs while a worktree is moved.
MoveExcludes ==
    /\ at \in FileSteps \/ recoveryPending => held = NoHolds
    /\ at \in FileSteps \ {"resetting"} => ~turn

\* Nobody is working on the move and the fence is open.
Settled == at = "idle" /\ ~recoveryPending

\* No crash, failed command or half-published write loses the checkout or an edit
\* made in it: whenever the fence is open the folder that the record names holds
\* the whole checkout with every edit so far.
EditsKept == Settled => disk[worktreePath] = edits

\* ... and git knows the worktree by that folder, unless the copy's own catch
\* could not point it back and the rollback was called done (unrepaired).
GitFollows == Settled /\ ~unrepaired => gitAt = worktreePath
=============================================================================
