----------------------- MODULE EnvironmentMoveProofs -----------------------
(***************************************************************************)
(* For every set of folders and any number of holds, edits, faults and     *)
(* stops, the fence keeps everyone out while a move, a rewind or a         *)
(* recovery works on the folders, no edit is lost and git finds the        *)
(* worktree where the record says it is.                                   *)
(*                                                                         *)
(* MoveExcludes is not inductive: it says nothing of the steps between the *)
(* reservation and the binding of the folders, where some holds are gone   *)
(* for good and others are still let in.  FenceInv says which.             *)
(*                                                                         *)
(* EditsKept and GitFollows speak of the environment at rest; FilesInv     *)
(* says at every step of a move where the checkout is, in the source, in   *)
(* both folders or in the destination, and that what the journal says at   *)
(* that moment is enough for the recovery to find it again.                *)
(***************************************************************************)
EXTENDS EnvironmentMove, TLAPS

\* The steps of a move or of a recovery.
MoveSteps == (FileSteps \ {"resetting"}) \cup {"recovering"}

\* Nobody holds the environment, and nobody can: the folders are bound.
Closed == bound /\ held = NoHolds

FenceTypes ==
    /\ held \in [Kinds -> Nat]
    /\ turn \in BOOLEAN /\ bound \in BOOLEAN /\ recoveryPending \in BOOLEAN

\* What is known from the reservation to the binding.
Reserved ==
    /\ at = "queued" => \A k \in {"mutation", "agent", "tab"} : held[k] = 0
    /\ at \in {"checked", "rewinding"} => \A k \in Kinds \ {"path"} : held[k] = 0

FenceClosed == at \in MoveSteps \cup {"resetting"} \/ recoveryPending => Closed

NoTurn == at \in MoveSteps \cup {"checked"} => ~turn

FenceInv == FenceTypes /\ Reserved /\ FenceClosed /\ NoTurn

----------------------------------------------------------------------------
LEMMA FenceInit == MoveInit => FenceInv
<1> SUFFICES ASSUME MoveInit PROVE FenceInv
  OBVIOUS
<1>1. NoHolds \in [Kinds -> Nat]
  BY DEF NoHolds
<1>2. at = "idle" /\ held = NoHolds
  BY DEF MoveInit
<1>3. recoveryPending = FALSE /\ bound = FALSE /\ turn = FALSE
  BY DEF MoveInit
<1> QED
  BY <1>1, <1>2, <1>3 DEF FenceInv, FenceTypes, Reserved, FenceClosed, NoTurn, MoveSteps,
                          FileSteps

\* From one step on the files to the next the fence does not change.
LEMMA FileStep ==
    ASSUME FenceInv, at \in MoveSteps, NEW s \in MoveSteps, Goto(s)
    PROVE  FenceInv'
BY DEF Goto, FenceInv, FenceTypes, Reserved, FenceClosed, NoTurn, MoveSteps, FileSteps, Closed

\* The reservation ends; a recovery is left pending only where the fence is closed.
LEMMA EndStep ==
    ASSUME FenceInv, NEW p \in BOOLEAN, EndMove(p),
           p => at \in MoveSteps \/ recoveryPending
    PROVE  FenceInv'
BY DEF EndMove, FenceInv, FenceTypes, Reserved, FenceClosed, NoTurn, MoveSteps, FileSteps, Closed

\* A hold begins: with the fence reserved only a path write can, and only while
\* the folders are not bound.
LEMMA BeginStep ==
    ASSUME FenceInv, NEW k \in Kinds, Begin(k)
    PROVE  FenceInv'
<1>1. held' \in [Kinds -> Nat] /\ \A j \in Kinds \ {k} : held'[j] = held[j]
  BY DEF Begin, FenceInv, FenceTypes
<1>2. UNCHANGED <<at, mover, recoveryPending, bound, turn>>
  BY DEF Begin
<1>3. ~recoveryPending /\ at \notin MoveSteps \cup {"resetting"}
  <2>1. CASE mover = "none"
    <3>1. at = "idle"
      BY <2>1 DEF Begin
    <3>2. recoveryPending => bound
      BY DEF FenceInv, FenceClosed, Closed
    <3>3. ~recoveryPending
      BY <3>2 DEF Begin, Admits, AcceptsAgentWork, Kinds
    <3> QED
      BY <3>1, <3>3 DEF MoveSteps, FileSteps
  <2>2. CASE mover # "none"
    <3>1. ~bound
      BY <2>2 DEF Begin, Admits, AcceptsAgentWork, Kinds
    <3> QED
      BY <3>1 DEF FenceInv, FenceClosed, Closed
  <2> QED
    BY <2>1, <2>2
<1>4. at # "idle" => k = "path"
  BY DEF Begin, Admits, AcceptsAgentWork, Kinds
<1>5. Reserved'
  BY <1>1, <1>2, <1>4 DEF FenceInv, Reserved, Kinds
<1> QED
  BY <1>1, <1>2, <1>3, <1>5 DEF FenceInv, FenceTypes, FenceClosed, NoTurn

\* A hold ends, which starts a turn only where agent submissions were let in.
LEMMA ReleaseStep ==
    ASSUME FenceInv, NEW k \in Kinds, Release(k)
    PROVE  FenceInv'
<1>1. held' \in [Kinds -> Nat] /\ \A j \in Kinds \ {k} : held'[j] = held[j]
  BY DEF Release, FenceInv, FenceTypes
<1>2. UNCHANGED <<at, mover, recoveryPending, bound>>
  BY DEF Release
<1>3. held # NoHolds
  BY DEF Release, NoHolds
<1>4. ~recoveryPending /\ at \notin MoveSteps \cup {"resetting"}
  BY <1>3 DEF FenceInv, FenceClosed, Closed
<1>5. at = "queued" => k \notin {"mutation", "agent", "tab"}
  BY DEF Release, FenceInv, Reserved
<1>6. at \in {"checked", "rewinding"} => k = "path"
  BY DEF Release, FenceInv, Reserved
<1>7. turn' \in BOOLEAN /\ (k # "agent" => turn' = turn)
  BY DEF Release, FenceInv, FenceTypes
<1>8. Reserved'
  BY <1>1, <1>2, <1>5, <1>6 DEF FenceInv, Reserved, Kinds
<1>9. at = "checked" => ~turn'
  BY <1>6, <1>7 DEF FenceInv, NoTurn
<1> QED
  BY <1>1, <1>2, <1>4, <1>7, <1>8, <1>9 DEF FenceInv, FenceTypes, FenceClosed, NoTurn

LEMMA OtherFenceSteps ==
    ASSUME FenceInv,
           AgentTurnEnds \/ Edit \/ BeginRewind \/ BindRewind \/ EndRewind
    PROVE  FenceInv'
<1>1. CASE AgentTurnEnds
  BY <1>1 DEF AgentTurnEnds, FenceInv, FenceTypes, Reserved, FenceClosed, NoTurn, Closed
<1>2. CASE Edit
  BY <1>2 DEF Edit, fenceVars, FenceInv, FenceTypes, Reserved, FenceClosed, NoTurn, Closed
<1>3. CASE BeginRewind
  BY <1>3 DEF BeginRewind, AcceptsAgentWork, MoveAdmitted, Kinds, FenceInv, FenceTypes,
              Reserved, FenceClosed, NoTurn, MoveSteps, FileSteps
<1>4. CASE BindRewind
  <2>1. held = NoHolds
    BY <1>4 DEF BindRewind, FenceInv, FenceTypes, Reserved, NoHolds
  <2> QED
    BY <1>4, <2>1 DEF BindRewind, FenceInv, FenceTypes, Reserved, FenceClosed, NoTurn,
                      Closed, MoveSteps, FileSteps
<1>5. CASE EndRewind
  BY <1>5, EndStep DEF EndRewind, FenceInv, FenceTypes
<1> QED
  BY <1>1, <1>2, <1>3, <1>4, <1>5

\* A move up to its journal.
LEMMA StartingSteps ==
    ASSUME FenceInv,
           \/ RequestMove \/ MoveRefused \/ BindMove \/ JournalMove
           \/ \E to \in Folders : CheckMove(to)
    PROVE  FenceInv'
<1>1. CASE RequestMove
  BY <1>1 DEF RequestMove, MoveAdmitted, FenceInv, FenceTypes, Reserved, FenceClosed, NoTurn,
              Closed, MoveSteps, FileSteps
<1>2. CASE MoveRefused
  BY <1>2, EndStep DEF MoveRefused, FenceInv, FenceTypes
<1>3. CASE BindMove
  <2>1. held = NoHolds /\ ~turn
    BY <1>3 DEF BindMove, FenceInv, FenceTypes, Reserved, NoHolds, NoTurn
  <2> QED
    BY <1>3, <2>1 DEF BindMove, FenceInv, FenceTypes, Reserved, FenceClosed, NoTurn, Closed
<1>4. CASE JournalMove
  <2>1. at \in MoveSteps /\ "ready" \in MoveSteps /\ recoveryPending \in BOOLEAN
    BY <1>4 DEF JournalMove, MoveSteps, FileSteps, FenceInv, FenceTypes
  <2>2. Goto("ready") \/ EndMove(recoveryPending)
    BY <1>4 DEF JournalMove
  <2> QED
    BY <2>1, <2>2, FileStep, EndStep
<1>5. ASSUME NEW to \in Folders, CheckMove(to) PROVE FenceInv'
  BY <1>5 DEF CheckMove, Goto, FenceInv, FenceTypes, Reserved, FenceClosed, NoTurn, Closed,
              Kinds, MoveSteps, FileSteps
<1> QED
  BY <1>1, <1>2, <1>3, <1>4, <1>5

\* From the journal on, every step of a move goes to another one or ends the
\* reservation.
LEMMA WorkingGoes ==
    ASSUME \/ GitMoves \/ GitRefuses \/ GitFails
           \/ RenameFolder \/ RenameFails \/ RepairRenamed
           \/ JournalStaging \/ FillStaging \/ PlaceCopy \/ RepairCopy \/ UndoCopy
           \/ JournalCopied \/ Commit \/ ReadAuthority \/ RemoveSource \/ FinishMove
           \/ CompletionLeft \/ InspectFolders \/ PublishRollback \/ RollbackCopy
           \/ RollbackRename \/ RolledBack \/ KeepJournal
    PROVE  /\ at \in MoveSteps
           /\ \/ \E s \in MoveSteps : Goto(s)
              \/ EndMove(TRUE) \/ EndMove(FALSE)
<1>1. at \in MoveSteps
  BY DEF GitMoves, GitRefuses, GitFails, RenameFolder, RenameFails, RepairRenamed,
         JournalStaging, FillStaging, PlaceCopy, RepairCopy, UndoCopy, JournalCopied, Commit,
         ReadAuthority, RemoveSource, FinishMove, CompletionLeft, InspectFolders,
         PublishRollback, RollbackCopy, RollbackRename, RolledBack, KeepJournal,
         MoveSteps, FileSteps
<1>2. \/ \E s \in MoveSteps : Goto(s)
      \/ EndMove(TRUE) \/ EndMove(FALSE)
  <2>1. {"moved", "renaming", "copying", "failed", "renamed", "staging", "staged", "undo",
         "placed", "copied", "committed", "uncertain", "incomplete", "unknown", "cleaned",
         "rolledback", "stuck", "rollback"} \subseteq MoveSteps
    BY DEF MoveSteps, FileSteps
  <2>2. CASE GitMoves \/ GitRefuses \/ GitFails \/ RenameFolder \/ RenameFails \/ RepairRenamed
    BY <2>1, <2>2 DEF GitMoves, GitRefuses, GitFails, RenameFolder, RenameFails, RepairRenamed
  <2>3. CASE JournalStaging \/ FillStaging \/ PlaceCopy \/ RepairCopy \/ UndoCopy \/ JournalCopied
    BY <2>1, <2>3 DEF JournalStaging, FillStaging, PlaceCopy, RepairCopy, UndoCopy, JournalCopied
  <2>4. CASE Commit \/ ReadAuthority \/ RemoveSource \/ FinishMove \/ CompletionLeft
    BY <2>1, <2>4 DEF Commit, ReadAuthority, RemoveSource, FinishMove, CompletionLeft
  <2>5. CASE InspectFolders \/ PublishRollback \/ RollbackCopy \/ RollbackRename
    BY <2>1, <2>5 DEF InspectFolders, PublishRollback, RollbackCopy, RollbackRename
  <2>6. CASE RolledBack \/ KeepJournal
    BY <2>6 DEF RolledBack, KeepJournal
  <2> QED
    BY <2>2, <2>3, <2>4, <2>5, <2>6
<1> QED
  BY <1>1, <1>2

LEMMA WorkingSteps ==
    ASSUME FenceInv,
           \/ GitMoves \/ GitRefuses \/ GitFails
           \/ RenameFolder \/ RenameFails \/ RepairRenamed
           \/ JournalStaging \/ FillStaging \/ PlaceCopy \/ RepairCopy \/ UndoCopy
           \/ JournalCopied \/ Commit \/ ReadAuthority \/ RemoveSource \/ FinishMove
           \/ CompletionLeft \/ InspectFolders \/ PublishRollback \/ RollbackCopy
           \/ RollbackRename \/ RolledBack \/ KeepJournal
    PROVE  FenceInv'
BY WorkingGoes, FileStep, EndStep

\* A stop of the process and the recovery of the next start.
LEMMA RecoverySteps ==
    ASSUME FenceInv, RecoveryStep \/ MoveCrash
    PROVE  FenceInv'
<1>1. CASE Adopt
  <2>1. at \in MoveSteps /\ "committed" \in MoveSteps
    BY <1>1 DEF Adopt, MoveSteps, FileSteps
  <2> QED
    BY <1>1, <2>1, FileStep DEF Adopt
<1>2. CASE Abandon
  BY <1>2, EndStep DEF Abandon
<1>3. CASE RecoveryFails
  <2>1. at \in MoveSteps
    BY <1>3 DEF RecoveryFails, MoveSteps
  <2> QED
    BY <1>3, <2>1, EndStep DEF RecoveryFails
<1>4. CASE MoveCrash
  <2>1. NoHolds \in [Kinds -> Nat] /\ \A k \in Kinds : NoHolds[k] = 0
    BY DEF NoHolds
  <2>2. held' = NoHolds /\ turn' = FALSE /\ at' \in {"idle", "recovering"}
    BY <1>4 DEF MoveCrash
  <2>3. /\ bound' \in BOOLEAN /\ recoveryPending' \in BOOLEAN
        /\ recoveryPending' \/ at' = "recovering" => bound'
    BY <1>4 DEF MoveCrash
  <2> QED
    BY <2>1, <2>2, <2>3 DEF FenceInv, FenceTypes, Reserved, FenceClosed, NoTurn, Closed,
                            MoveSteps, FileSteps
<1> QED
  BY <1>1, <1>2, <1>3, <1>4 DEF RecoveryStep

LEMMA FenceNext == FenceInv /\ [MoveNext]_moveVars => FenceInv'
<1> SUFFICES ASSUME FenceInv, [MoveNext]_moveVars PROVE FenceInv'
  OBVIOUS
<1>1. CASE FenceStep
  BY <1>1, BeginStep, ReleaseStep, OtherFenceSteps DEF FenceStep
<1>2. CASE MoveStep
  BY <1>2, StartingSteps, WorkingSteps DEF MoveStep
<1>3. CASE RecoveryStep \/ MoveCrash
  BY <1>3, RecoverySteps
<1>4. CASE UNCHANGED moveVars
  BY <1>4 DEF moveVars, fenceVars, FenceInv, FenceTypes, Reserved, FenceClosed, NoTurn, Closed
<1> QED
  BY <1>1, <1>2, <1>3, <1>4 DEF MoveNext

\* MoveExcludes: whatever was admitted before a move or a rewind reserved the
\* fence is gone before a file is touched, nothing is let in until it is over or
\* its recovery is, and no turn runs in a folder that is moved.
THEOREM FenceExcludes == MoveSpec => []MoveExcludes
<1>1. FenceInv => MoveExcludes
  BY DEF FenceInv, FenceClosed, NoTurn, Closed, MoveExcludes, MoveSteps
<1> QED
  BY <1>1, FenceInit, FenceNext, PTL DEF MoveSpec
----------------------------------------------------------------------------
(* Types.                                                                  *)

Places == {"idle", "queued", "checked", "rewinding"} \cup FileSteps \cup Startup

FileTypes ==
    /\ worktreePath \in Folders /\ gitAt \in Folders
    /\ journal \in Journals /\ rec \in Journals
    /\ disk \in [Folders -> Contents] /\ staging \in Contents
    /\ moved \in {"no", "rename", "copy"}
    /\ edits \in 0..MaxEdits

CountTypes ==
    /\ at \in Places /\ mover \in {"none", "move", "rewind"}
    /\ unrepaired \in BOOLEAN
    /\ moveFaults \in 0..MaxMoveFaults /\ crashes \in 0..MaxCrashes

\* A journal in another phase is a journal of the same move.
LEMMA Phase ==
    ASSUME NEW j \in Journals, NEW p \in {"moving", "copied", "committed"}
    PROVE  LET k == [j EXCEPT !.phase = p]
           IN /\ k \in Journals /\ k # NoMove
              /\ k.from = j.from /\ k.to = j.to /\ k.phase = p
              /\ k.removeSource = j.removeSource
<1>1. ASSUME NEW k, k = [j EXCEPT !.phase = p]
      PROVE  /\ k \in Journals /\ k.phase = p
             /\ k.from = j.from /\ k.to = j.to /\ k.removeSource = j.removeSource
  BY <1>1 DEF Journals
<1>2. ASSUME NEW k, k.phase = p PROVE k # NoMove
  BY <1>2 DEF NoMove
<1> QED
  BY <1>1, <1>2, Zenon

LEMMA CopiedPhase ==
    ASSUME NEW j \in Journals
    PROVE  LET k == [j EXCEPT !.phase = "copied", !.removeSource = TRUE]
           IN /\ k \in Journals /\ k # NoMove
              /\ k.from = j.from /\ k.to = j.to /\ k.phase = "copied" /\ k.removeSource
<1>1. ASSUME NEW k, k = [j EXCEPT !.phase = "copied", !.removeSource = TRUE]
      PROVE  /\ k \in Journals /\ k.phase = "copied"
             /\ k.from = j.from /\ k.to = j.to /\ k.removeSource
  BY <1>1 DEF Journals
<1>2. ASSUME NEW k, k.phase = "copied" PROVE k # NoMove
  BY <1>2 DEF NoMove
<1> QED
  BY <1>1, <1>2, Zenon

LEMMA NoMoveTyped == NoMove \in Journals
BY MoveAssumption DEF NoMove, Journals

\* Moving a folder keeps the type of the disk.
LEMMA DiskTyped ==
    ASSUME disk \in [Folders -> Contents], NEW a \in Folders, NEW b \in Folders
    PROVE  /\ Swapped(a, b) \in [Folders -> Contents]
           /\ \A c \in Contents : [disk EXCEPT ![a] = c] \in [Folders -> Contents]
           /\ Absent \in Contents /\ Partial \in Contents /\ disk[a] \in Contents
BY DEF Swapped, Contents

LEMMA FileTypesNext == FileTypes /\ [MoveNext]_moveVars => FileTypes'
<1> SUFFICES ASSUME FileTypes, [MoveNext]_moveVars PROVE FileTypes'
  OBVIOUS
<1>1. /\ rec.from \in Folders /\ rec.to \in Folders /\ worktreePath \in Folders
      /\ disk \in [Folders -> Contents] /\ rec \in Journals
  BY DEF FileTypes, Journals
<1>2. ASSUME UNCHANGED fileVars PROVE FileTypes'
  BY <1>2 DEF fileVars, FileTypes
<1> DEFINE phased(p) == [rec EXCEPT !.phase = p]
<1>phases. /\ phased("moving") \in Journals /\ phased("copied") \in Journals
      /\ phased("committed") \in Journals
  BY <1>1, Phase
<1>disks. /\ \A c \in Contents : /\ [disk EXCEPT ![rec.to] = c] \in [Folders -> Contents]
                             /\ [disk EXCEPT ![rec.from] = c] \in [Folders -> Contents]
      /\ {Absent, Partial, disk[rec.to], disk[rec.from], staging} \subseteq Contents
  BY <1>1, DiskTyped DEF FileTypes
<1>3. CASE FenceStep
  <2>1. CASE Edit
    <3>1. edits + 1 \in 0..MaxEdits /\ edits + 1 \in Contents
      BY <2>1, MoveAssumption DEF Edit, FileTypes, Contents
    <3>2. disk' \in [Folders -> Contents]
      BY <1>1, <2>1, <3>1 DEF Edit
    <3> QED
      BY <2>1, <3>1, <3>2 DEF Edit, FileTypes
  <2> QED
    BY <1>2, <1>3, <2>1 DEF FenceStep, Begin, Release, AgentTurnEnds, BeginRewind, BindRewind,
                            EndRewind
<1>4. CASE \/ RequestMove \/ MoveRefused \/ BindMove \/ GitRefuses \/ RenameFails
           \/ ReadAuthority \/ CompletionLeft \/ InspectFolders
  BY <1>2, <1>4 DEF RequestMove, MoveRefused, BindMove, GitRefuses, RenameFails, ReadAuthority,
                    CompletionLeft, InspectFolders
<1>5. ASSUME NEW to \in Folders, CheckMove(to) PROVE FileTypes'
  <2>1. rec' \in Journals
    BY <1>1, <1>5 DEF CheckMove, Journals
  <2> QED
    BY <1>5, <2>1 DEF CheckMove, FileTypes
<1>6. CASE GitMoves \/ GitFails \/ RenameFolder \/ RepairRenamed \/ RepairCopy
  BY <1>1, <1>6, DiskTyped DEF GitMoves, GitFails, RenameFolder, RepairRenamed, RepairCopy, FileTypes
<1>7. CASE JournalMove \/ JournalStaging \/ FinishMove \/ RolledBack
  BY <1>1, <1>7, NoMoveTyped DEF JournalMove, JournalStaging, FinishMove, RolledBack, Written,
                                 WriteRejected, FileTypes
<1>8. CASE FillStaging \/ PlaceCopy \/ UndoCopy
  <2>1. disk' \in [Folders -> Contents] /\ staging' \in Contents
    <3>1. CASE FillStaging
      BY <1>1, <3>1, DiskTyped DEF FillStaging, FileTypes
    <3>2. CASE PlaceCopy
      BY <1>1, <1>disks, <3>2 DEF PlaceCopy
    <3>3. CASE UndoCopy
      BY <1>1, <1>disks, <3>3 DEF UndoCopy
    <3> QED
      BY <1>8, <3>1, <3>2, <3>3
  <2> QED
    BY <1>1, <1>8, <2>1 DEF FillStaging, PlaceCopy, UndoCopy, FileTypes
<1>9. CASE RemoveSource \/ RollbackCopy \/ RollbackRename
  <2>1. disk' \in [Folders -> Contents]
    BY <1>1, <1>9, DiskTyped DEF RemoveSource, RollbackCopy, RollbackRename
  <2> QED
    BY <1>1, <1>9, <2>1 DEF RemoveSource, RollbackCopy, RollbackRename, FileTypes
<1>10. CASE JournalCopied
  <2>1. rec' \in Journals
    BY <1>1, <1>10, CopiedPhase DEF JournalCopied
  <2> QED
    BY <1>10, <2>1 DEF JournalCopied, Written, WriteRejected, FileTypes
<1>11. CASE Commit \/ PublishRollback
  <2>1. rec' \in Journals
    BY <1>phases, <1>11 DEF Commit, PublishRollback
  <2> QED
    BY <1>1, <1>11, <2>1 DEF Commit, PublishRollback, Written, WriteRejected, FileTypes
<1>12. CASE KeepJournal
  <2>1. journal' \in Journals
    BY <1>phases, <1>12 DEF KeepJournal, Written, WriteRejected, FileTypes
  <2> QED
    BY <1>12, <2>1 DEF KeepJournal, FileTypes
<1>13. CASE RecoveryStep
  <2>1. journal' \in Journals /\ rec' \in Journals
    BY <1>phases, <1>13, NoMoveTyped
       DEF RecoveryStep, Adopt, Abandon, RecoveryFails, Written, FileTypes
  <2>2. staging' \in Contents
    BY <1>1, <1>13, DiskTyped DEF RecoveryStep, Adopt, Abandon, RecoveryFails, FileTypes
  <2> QED
    BY <1>1, <1>13, <2>1, <2>2 DEF RecoveryStep, Adopt, Abandon, RecoveryFails, FileTypes
<1>14. CASE MoveCrash
  BY <1>14 DEF MoveCrash, FileTypes
<1>15. CASE UNCHANGED moveVars
  BY <1>2, <1>15 DEF moveVars
<1> QED
  BY <1>3, <1>4, <1>5, <1>6, <1>7, <1>8, <1>9, <1>10, <1>11, <1>12, <1>13, <1>14, <1>15
     DEF MoveNext, MoveStep

LEMMA CountTypesNext == CountTypes /\ [MoveNext]_moveVars => CountTypes'
<1> SUFFICES ASSUME CountTypes, [MoveNext]_moveVars PROVE CountTypes'
  OBVIOUS
<1>1. mover' \in {"none", "move", "rewind"} /\ at' \in Places
  <2>1. CASE UNCHANGED <<at, mover>>
    BY <2>1 DEF CountTypes
  <2>2. ASSUME NEW s \in Places, Goto(s) PROVE mover' \in {"none", "move", "rewind"} /\ at' \in Places
    BY <2>2 DEF Goto, CountTypes
  <2>3. ASSUME NEW p, EndMove(p) PROVE mover' \in {"none", "move", "rewind"} /\ at' \in Places
    BY <2>3 DEF EndMove, Places
  <2>4. /\ FileSteps \subseteq Places
        /\ {"idle", "queued", "checked", "rewinding", "recovering"} \subseteq Places
    BY DEF Places, Startup
  <2>5. CASE FenceStep
    <3>1. CASE \/ \E k \in Kinds : Begin(k) \/ Release(k)
               \/ AgentTurnEnds \/ Edit
      BY <2>1, <3>1 DEF Begin, Release, AgentTurnEnds, Edit, fenceVars
    <3>2. CASE BeginRewind \/ BindRewind
      BY <2>4, <3>2 DEF BeginRewind, BindRewind, FileSteps, CountTypes
    <3>3. CASE EndRewind
      BY <2>3, <3>3 DEF EndRewind
    <3> QED
      BY <2>5, <3>1, <3>2, <3>3 DEF FenceStep
  <2>6. CASE MoveStep
    <3>1. CASE RequestMove \/ MoveRefused \/ BindMove \/ JournalMove
      BY <2>2, <2>3, <2>4, <3>1 DEF RequestMove, MoveRefused, BindMove, JournalMove, CountTypes,
         FileSteps
    <3>2. CASE \E to \in Folders : CheckMove(to)
      BY <2>2, <2>4, <3>2 DEF CheckMove
    <3>3. CASE GitMoves \/ GitRefuses \/ GitFails \/ RenameFolder \/ RenameFails \/ RepairRenamed
      BY <2>2, <2>4, <3>3 DEF GitMoves, GitRefuses, GitFails, RenameFolder, RenameFails,
         RepairRenamed, FileSteps
    <3>4. CASE JournalStaging \/ FillStaging \/ PlaceCopy \/ RepairCopy \/ UndoCopy \/ JournalCopied
      BY <2>2, <2>4, <3>4 DEF JournalStaging, FillStaging, PlaceCopy, RepairCopy, UndoCopy,
         JournalCopied, FileSteps
    <3>5. CASE Commit \/ ReadAuthority \/ RemoveSource \/ FinishMove \/ CompletionLeft
      BY <2>2, <2>3, <2>4, <3>5 DEF Commit, ReadAuthority, RemoveSource, FinishMove,
         CompletionLeft, FileSteps
    <3>6. CASE \/ InspectFolders \/ PublishRollback \/ RollbackCopy \/ RollbackRename
               \/ RolledBack \/ KeepJournal
      BY <2>2, <2>3, <2>4, <3>6 DEF InspectFolders, PublishRollback, RollbackCopy,
         RollbackRename, RolledBack, KeepJournal, FileSteps
    <3> QED
      BY <2>6, <3>1, <3>2, <3>3, <3>4, <3>5, <3>6 DEF MoveStep
  <2>7. CASE RecoveryStep \/ MoveCrash
    BY <2>2, <2>3, <2>4, <2>7 DEF RecoveryStep, Adopt, Abandon, RecoveryFails, MoveCrash, FileSteps
  <2>8. CASE UNCHANGED moveVars
    BY <2>1, <2>8 DEF moveVars, fenceVars
  <2> QED
    BY <2>5, <2>6, <2>7, <2>8 DEF MoveNext
<1>2. /\ MoveFault \/ NoFault
      /\ crashes' = crashes \/ MoveCrash
      /\ unrepaired' = unrepaired \/ RolledBack
  <2>1. CASE FenceStep
    BY <2>1 DEF FenceStep, Begin, Release, AgentTurnEnds, Edit, BeginRewind, BindRewind,
       EndRewind, NoFault
  <2>2. CASE MoveStep
    <3>1. CASE RequestMove \/ MoveRefused \/ BindMove \/ JournalMove
      BY <3>1 DEF RequestMove, MoveRefused, BindMove, JournalMove, Written, WriteRejected, NoFault
    <3>2. CASE \E to \in Folders : CheckMove(to)
      BY <3>2 DEF CheckMove, NoFault
    <3>3. CASE GitMoves \/ GitRefuses \/ GitFails \/ RenameFolder \/ RenameFails \/ RepairRenamed
      BY <3>3 DEF GitMoves, GitRefuses, GitFails, RenameFolder, RenameFails, RepairRenamed, NoFault
    <3>4. CASE JournalStaging \/ FillStaging \/ PlaceCopy \/ RepairCopy \/ UndoCopy \/ JournalCopied
      BY <3>4 DEF JournalStaging, FillStaging, PlaceCopy, RepairCopy, UndoCopy, JournalCopied,
         Written, WriteRejected
    <3>5. CASE Commit \/ ReadAuthority \/ RemoveSource \/ FinishMove \/ CompletionLeft
      BY <3>5 DEF Commit, ReadAuthority, RemoveSource, FinishMove, CompletionLeft, Written,
         WriteRejected, NoFault
    <3>6. CASE \/ InspectFolders \/ PublishRollback \/ RollbackCopy \/ RollbackRename
               \/ RolledBack \/ KeepJournal
      BY <3>6 DEF InspectFolders, PublishRollback, RollbackCopy, RollbackRename, RolledBack,
         KeepJournal, Written, WriteRejected, NoFault
    <3> QED
      BY <2>2, <3>1, <3>2, <3>3, <3>4, <3>5, <3>6 DEF MoveStep
  <2>3. CASE RecoveryStep \/ MoveCrash
    BY <2>3 DEF RecoveryStep, Adopt, Abandon, RecoveryFails, MoveCrash, Written, NoFault
  <2>4. CASE UNCHANGED moveVars
    BY <2>4 DEF moveVars, NoFault
  <2> QED
    BY <2>1, <2>2, <2>3, <2>4 DEF MoveNext
<1>3. moveFaults' \in 0..MaxMoveFaults
  BY <1>2, MoveAssumption DEF MoveFault, NoFault, CountTypes
<1>4. crashes' \in 0..MaxCrashes
  BY <1>2, MoveAssumption DEF MoveCrash, CountTypes
<1>5. unrepaired' \in BOOLEAN
  BY <1>2 DEF RolledBack, CountTypes
<1> QED
  BY <1>1, <1>3, <1>4, <1>5 DEF CountTypes

LEMMA MoveTypesInit == MoveInit => FileTypes /\ CountTypes
<1> SUFFICES ASSUME MoveInit PROVE FileTypes /\ CountTypes
  OBVIOUS
<1>1. 0 \in Contents /\ Absent \in Contents /\ 0 \in 0..MaxEdits
  BY MoveAssumption DEF Contents
<1>2. disk \in [Folders -> Contents]
  BY <1>1 DEF MoveInit
<1>3. FileTypes
  BY <1>1, <1>2, MoveAssumption, NoMoveTyped DEF MoveInit, FileTypes
<1>4. CountTypes
  <2>1. at \in Places /\ mover \in {"none", "move", "rewind"}
    BY DEF MoveInit, Places
  <2>2. moveFaults \in 0..MaxMoveFaults /\ crashes \in 0..MaxCrashes
    BY MoveAssumption DEF MoveInit
  <2>3. unrepaired \in BOOLEAN
    BY DEF MoveInit
  <2> QED
    BY <2>1, <2>2, <2>3 DEF CountTypes
<1> QED
  BY <1>3, <1>4

\* MoveTypeOK: the journal, the folders, the fence and the bounds stay in their types.
THEOREM MoveTyped == MoveSpec => []MoveTypeOK
<1>1. FenceInv /\ FileTypes /\ CountTypes => MoveTypeOK
  BY DEF FenceInv, FenceTypes, FileTypes, CountTypes, MoveTypeOK, Places
<1> QED
  BY <1>1, FenceInit, FenceNext, MoveTypesInit, FileTypesNext, CountTypesNext, PTL DEF MoveSpec

----------------------------------------------------------------------------
(* The files.  While a move is under way the checkout may be in either     *)
(* folder or in both, and a stop of the process leaves only the journal to *)
(* tell.  FilesInv says, for each step, where the whole checkout is, and   *)
(* that the journal, whenever there is one, points the recovery to it.     *)

\* No turn edits the folder that a pending recovery may give up.
RecoveryQuiet ==
    /\ recoveryPending => ~turn
    /\ at \in {"rewinding", "resetting"} => ~recoveryPending

\* What the recovery makes of j keeps the checkout.
Recoverable(j) ==
    /\ j.from # j.to /\ worktreePath \in {j.from, j.to}
    /\ \/ j.phase = "committed" /\ worktreePath = j.to /\ disk[j.to] = edits
       \/ j.phase = "copied" /\ disk[j.to] = edits
       \/ j.phase = "moving" /\ worktreePath = j.from /\ disk[j.from] = edits
       \/ j.phase = "moving" /\ disk[j.from] = Absent /\ disk[j.to] = edits

Outside == {"idle", "queued", "checked", "journaling", "rewinding", "resetting"}

\* No move has touched the files: the record's folder has the checkout, and git
\* knows it.  A journal may be left by a write that was rejected but published.
FilesUntouched ==
    at \in Outside /\ (journal = NoMove \/ ~recoveryPending) =>
        /\ disk[worktreePath] = edits
        /\ unrepaired \/ gitAt = worktreePath
        /\ journal # NoMove => journal.phase = "moving" /\ journal.from = worktreePath

\* What a move has chosen before it writes its journal.
Chosen ==
    at \in {"checked", "journaling"} =>
        /\ journal = NoMove /\ moved = "no"
        /\ rec.from = worktreePath /\ rec.to # worktreePath
        /\ rec.phase = "moving" /\ ~rec.removeSource
        /\ disk[rec.to] = Absent

\* From its journal on, the move works on the folders its journal names.
SameMove ==
    at \notin Outside =>
        /\ rec.from # rec.to
        /\ \/ journal # NoMove /\ journal.from = rec.from /\ journal.to = rec.to
           \/ journal = NoMove /\ at = "incomplete"

Recovers == journal # NoMove => Recoverable(journal)

Copying == {"copying", "staging", "staged", "placed", "undo", "copied"}

\* Where the checkout is while the source counts ...
Source ==
    /\ at \in {"ready", "renaming", "renamed", "moved", "failed", "rollback", "rolledback",
               "stuck"} \cup Copying =>
           worktreePath = rec.from /\ journal.phase \in {"moving", "copied"}
    /\ at \in {"ready", "renaming", "renamed"} \cup Copying =>
           journal.phase = "moving" /\ rec.phase = "moving" /\ ~rec.removeSource
    /\ at \in {"ready", "renaming"} \cup Copying => moved = "no"
    /\ at \in {"ready", "renaming", "rollback", "rolledback"} \cup Copying =>
           disk[rec.from] = edits
    /\ at \in {"ready", "renaming", "copying", "staging", "staged"} => disk[rec.to] = Absent
    /\ at = "staged" => staging = edits
    /\ at \in {"placed", "copied"} => disk[rec.to] = edits
    /\ at = "copied" => gitAt = rec.to
    /\ at = "renamed" => moved = "rename"
    /\ at \in {"rollback", "rolledback"} => journal.phase = "moving"

\* ... how it is moved ...
Moved ==
    /\ at \in {"renamed", "moved", "uncertain", "unknown", "failed"} =>
           /\ moved = "rename" => disk[rec.from] = Absent /\ disk[rec.to] = edits
           /\ moved = "copy" => disk[rec.from] = edits /\ disk[rec.to] = edits
           /\ journal.phase = "copied" => moved = "copy"
    /\ at \in {"moved", "uncertain", "unknown"} => gitAt = rec.to /\ moved # "no"
    /\ at \in {"uncertain", "unknown"} => (rec.removeSource <=> moved = "copy")
    /\ at = "moved" => (rec.removeSource <=> moved = "copy")
    /\ at = "failed" /\ moved = "no" =>
           \/ disk[rec.from] = edits
           \/ disk[rec.from] = Absent /\ disk[rec.to] = edits
    /\ at \in {"uncertain", "unknown"} =>
           IF worktreePath = rec.to THEN journal.phase = "committed"
           ELSE worktreePath = rec.from /\ journal.phase \in {"moving", "copied"}
    /\ at = "stuck" =>
           \/ disk[rec.from] = edits
           \/ disk[rec.from] = Absent /\ disk[rec.to] = edits

\* ... and that it is in the destination after the commit.
Destination ==
    at \in {"committed", "cleaned", "incomplete"} =>
        /\ worktreePath = rec.to /\ disk[rec.to] = edits /\ gitAt = rec.to
        /\ journal # NoMove => journal.phase = "committed"

AtStart == at = "recovering" => rec = journal

FilesInv == /\ FilesUntouched /\ Chosen /\ SameMove /\ Recovers
            /\ Source /\ Moved /\ Destination /\ AtStart

LEMMA RecoveryQuietNext == FenceInv /\ RecoveryQuiet /\ [MoveNext]_moveVars => RecoveryQuiet'
<1> SUFFICES ASSUME FenceInv, RecoveryQuiet, [MoveNext]_moveVars PROVE RecoveryQuiet'
  OBVIOUS
<1>1. ASSUME NEW s, s \notin {"rewinding", "resetting"}, Goto(s) PROVE RecoveryQuiet'
  BY <1>1 DEF Goto, RecoveryQuiet
<1>2. ASSUME NEW p \in BOOLEAN, EndMove(p), p => at \in MoveSteps \/ recoveryPending
      PROVE  RecoveryQuiet'
  BY <1>2 DEF EndMove, FenceInv, NoTurn, RecoveryQuiet
<1>3. CASE FenceStep
  <2>1. ASSUME NEW k \in Kinds, Begin(k) PROVE RecoveryQuiet'
    BY <2>1 DEF Begin, RecoveryQuiet
  <2>2. ASSUME NEW k \in Kinds, Release(k) PROVE RecoveryQuiet'
    <3>1. held # NoHolds
      BY <2>2 DEF Release, NoHolds
    <3> QED
      BY <2>2, <3>1 DEF Release, FenceInv, FenceClosed, Closed, RecoveryQuiet
  <2>3. CASE AgentTurnEnds \/ Edit \/ BeginRewind \/ BindRewind
    BY <2>3 DEF AgentTurnEnds, Edit, fenceVars, BeginRewind, AcceptsAgentWork, BindRewind,
                RecoveryQuiet
  <2>4. CASE EndRewind
    BY <1>2, <2>4 DEF EndRewind, FenceInv, FenceTypes
  <2> QED
    BY <1>3, <2>1, <2>2, <2>3, <2>4 DEF FenceStep
<1>4. CASE MoveStep
  <2>1. CASE RequestMove \/ MoveRefused \/ BindMove \/ JournalMove
    BY <1>1, <1>2, <2>1 DEF RequestMove, MoveRefused, BindMove, JournalMove, FenceInv,
                            FenceTypes, RecoveryQuiet
  <2>2. CASE \E to \in Folders : CheckMove(to)
    BY <1>1, <2>2 DEF CheckMove
  <2>3. CASE ~(\/ RequestMove \/ MoveRefused \/ BindMove \/ JournalMove
               \/ \E to \in Folders : CheckMove(to))
    <3>1. at \in MoveSteps /\ (\/ \E s \in MoveSteps : Goto(s)
                               \/ EndMove(TRUE) \/ EndMove(FALSE))
      BY <1>4, <2>3, WorkingGoes DEF MoveStep
    <3>2. {"rewinding", "resetting"} \cap MoveSteps = {}
      BY DEF MoveSteps, FileSteps
    <3> QED
      BY <1>1, <1>2, <3>1, <3>2
  <2> QED
    BY <2>1, <2>2, <2>3
<1>5. CASE RecoveryStep
  BY <1>1, <1>2, <1>5 DEF RecoveryStep, Adopt, Abandon, RecoveryFails, MoveSteps
<1>6. CASE MoveCrash \/ UNCHANGED moveVars
  BY <1>6 DEF MoveCrash, moveVars, fenceVars, RecoveryQuiet
<1> QED
  BY <1>3, <1>4, <1>5, <1>6 DEF MoveNext

\* Numbers and folders that the cases below keep asking about.
LEMMA FileFacts ==
    ASSUME FileTypes
    PROVE  /\ edits \in Int /\ edits >= 0 /\ edits # Absent /\ edits # Partial
           /\ rec \in Journals /\ rec.from \in Folders /\ rec.to \in Folders
           /\ journal \in Journals /\ journal.from \in Folders /\ journal.to \in Folders
           /\ NoMove.phase = "none"
           /\ worktreePath \in Folders /\ DOMAIN disk = Folders
BY DEF FileTypes, Journals, Absent, Partial, NoMove

\* Work on the fence alone.
LEMMA FenceKeepsFiles ==
    ASSUME FilesInv, UNCHANGED fileVars, UNCHANGED unrepaired,
           \/ at' = at /\ recoveryPending' = recoveryPending
           \/ /\ at \in Outside /\ at' \in Outside \ {"checked", "journaling"}
              /\ recoveryPending' = recoveryPending
           \/ at = "checked" /\ at' = "journaling" /\ recoveryPending' = recoveryPending
    PROVE  FilesInv'
BY DEF fileVars, FilesInv, FilesUntouched, Chosen, SameMove, Recovers, Recoverable, Source, Moved,
       Destination, AtStart, Outside, Copying

\* An edit reaches the folder that has the checkout: whoever edits was let in by
\* the fence, so no move or pending recovery has touched the files.
LEMMA EditKeepsFiles ==
    ASSUME FileTypes, CountTypes, FenceInv, RecoveryQuiet, FilesInv, Edit
    PROVE  FilesInv'
<1>1. ~recoveryPending /\ at \in Outside
  <2>1. CASE turn
    <3>1. at \notin MoveSteps
      BY <2>1 DEF FenceInv, NoTurn
    <3> QED
      BY <2>1, <3>1 DEF RecoveryQuiet, CountTypes, Places, Startup, MoveSteps, FileSteps, Outside
  <2>2. CASE held["mutation"] > 0 \/ held["path"] > 0
    <3>1. held # NoHolds
      BY <2>2 DEF NoHolds, Kinds
    <3>2. ~recoveryPending /\ at \notin MoveSteps
      BY <3>1 DEF FenceInv, FenceClosed, Closed
    <3> QED
      BY <3>2 DEF CountTypes, Places, Startup, MoveSteps, FileSteps, Outside
  <2>3. CASE at = "resetting"
    BY <2>3 DEF RecoveryQuiet, Outside
  <2> QED
    BY <2>1, <2>2, <2>3 DEF Edit
<1>2. disk[worktreePath] = edits
  BY <1>1 DEF FilesInv, FilesUntouched
<1>3. /\ disk'[worktreePath] = edits + 1 /\ edits' = edits + 1
      /\ \A f \in Folders \ {worktreePath} : disk'[f] = disk[f]
  BY <1>2, FileFacts DEF Edit
<1>4. /\ UNCHANGED <<at, recoveryPending, worktreePath, journal, rec, staging, gitAt, moved,
                     unrepaired>>
  BY DEF Edit, fenceVars
<1>5. FilesUntouched'
  BY <1>3, <1>4 DEF FilesInv, FilesUntouched
<1>6. Chosen'
  BY <1>3, <1>4, FileFacts DEF FilesInv, Chosen
<1>7. Recovers'
  BY <1>1, <1>3, <1>4, FileFacts DEF FilesInv, Recovers, Recoverable, FilesUntouched
<1>8. SameMove' /\ Source' /\ Moved' /\ Destination' /\ AtStart'
  BY <1>1, <1>4 DEF SameMove, Source, Moved, Destination, AtStart, Outside, Copying
<1> QED
  BY <1>5, <1>6, <1>7, <1>8 DEF FilesInv

LEMMA CheckKeepsFiles ==
    ASSUME FileTypes, FilesInv, NEW to \in Folders, CheckMove(to)
    PROVE  FilesInv'
<1>1. /\ rec'.from = worktreePath /\ rec'.to = to /\ rec'.phase = "moving"
      /\ rec'.removeSource = FALSE
  BY DEF CheckMove
<1>2. /\ UNCHANGED <<worktreePath, journal, disk, staging, gitAt, edits, unrepaired,
                     recoveryPending>>
      /\ at = "queued" /\ at' = "checked" /\ moved' = "no"
      /\ journal = NoMove /\ to # worktreePath /\ disk[to] = Absent
  BY DEF CheckMove, Goto
<1> QED
  BY <1>1, <1>2 DEF FilesInv, FilesUntouched, Chosen, SameMove, Recovers, Recoverable, Source, Moved,
         Destination, AtStart, Outside, Copying

LEMMA JournalKeepsFiles ==
    ASSUME FileTypes, FilesInv, JournalMove
    PROVE  FilesInv'
<1>1. /\ at = "journaling" /\ UNCHANGED <<worktreePath, rec, disk, staging, gitAt, moved, edits,
                                          unrepaired>>
      /\ \/ journal' = rec /\ at' = "ready"
         \/ /\ journal' \in {journal, rec} /\ at' = "idle" /\ recoveryPending' = recoveryPending
  BY DEF JournalMove, Written, WriteRejected, Goto, EndMove
<1>2. /\ journal = NoMove /\ moved = "no" /\ rec.from = worktreePath /\ rec.to # worktreePath
      /\ rec.phase = "moving" /\ ~rec.removeSource /\ disk[rec.to] = Absent
      /\ disk[worktreePath] = edits /\ (unrepaired \/ gitAt = worktreePath)
  BY <1>1 DEF FilesInv, FilesUntouched, Chosen, Outside
<1>3. rec # NoMove
  BY <1>2, FileFacts
<1>4. Recoverable(rec)'
  BY <1>1, <1>2 DEF Recoverable
<1>5. CASE journal' = rec /\ at' = "ready"
  BY <1>1, <1>2, <1>3, <1>4, <1>5 DEF FilesInv, FilesUntouched, Chosen, SameMove, Recovers, Source,
         Moved, Destination, AtStart, Outside, Copying
<1>6. CASE journal' \in {journal, rec} /\ at' = "idle" /\ recoveryPending' = recoveryPending
  BY <1>1, <1>2, <1>3, <1>4, <1>6 DEF FilesInv, FilesUntouched, Chosen, SameMove, Recovers, Source,
         Moved, Destination, AtStart, Outside, Copying
<1> QED
  BY <1>1, <1>5, <1>6

\* The folder goes to the destination by git or by a rename.
LEMMA RenamesKeepFiles ==
    ASSUME FileTypes, FilesInv,
           GitMoves \/ GitRefuses \/ GitFails \/ RenameFolder \/ RenameFails \/ RepairRenamed
    PROVE  FilesInv'
<1>1. /\ at \in {"ready", "renaming", "renamed"} /\ UNCHANGED <<worktreePath, journal, rec, staging,
                                                               edits, unrepaired>>
  BY DEF GitMoves, GitRefuses, GitFails, RenameFolder, RenameFails, RepairRenamed, fileVars
<1>2. /\ rec.from # rec.to /\ worktreePath = rec.from
      /\ journal # NoMove /\ journal.from = rec.from /\ journal.to = rec.to
      /\ journal.phase = "moving"
  BY <1>1 DEF FilesInv, SameMove, Source, Moved, Outside
<1> DEFINE swapped == disk' = Swapped(rec.from, rec.to)
<1>3. CASE at \in {"ready", "renaming"}
  <2>1. /\ moved = "no" /\ rec.phase = "moving" /\ ~rec.removeSource
        /\ disk[rec.from] = edits /\ disk[rec.to] = Absent
    BY <1>3 DEF FilesInv, Source
  <2>2. swapped => disk'[rec.from] = Absent /\ disk'[rec.to] = edits
    BY <1>2, <2>1, FileFacts DEF Swapped
  <2>3. \/ swapped /\ gitAt' = rec.to /\ moved' = "rename" /\ at' = "moved"
        \/ swapped /\ moved' = "rename" /\ at' = "renamed"
        \/ disk' = disk /\ moved' = moved /\ at' \in {"renaming", "copying"}
        \/ (swapped \/ disk' = disk) /\ moved' = moved /\ at' = "failed"
    BY <1>3 DEF GitMoves, GitRefuses, GitFails, RenameFolder, RenameFails, RepairRenamed,
                fileVars, Goto
  <2> HIDE DEF swapped
  <2> QED
    BY <1>1, <1>2, <2>1, <2>2, <2>3, FileFacts
       DEF FilesInv, FilesUntouched, Chosen, SameMove, Recovers, Recoverable, Source, Moved,
         Destination, AtStart, Outside, Copying
<1>4. CASE at = "renamed"
  <2>1. /\ moved = "rename" /\ ~rec.removeSource /\ rec.phase = "moving"
        /\ disk[rec.from] = Absent /\ disk[rec.to] = edits
    BY <1>4 DEF FilesInv, Source, Moved
  <2>2. /\ disk' = disk /\ moved' = moved
        /\ \/ gitAt' = rec.to /\ at' = "moved"
           \/ at' = "failed"
    BY <1>4 DEF GitMoves, GitRefuses, GitFails, RenameFolder, RenameFails, RepairRenamed, Goto
  <2> QED
    BY <1>1, <1>2, <1>4, <2>1, <2>2, FileFacts
       DEF FilesInv, FilesUntouched, Chosen, SameMove, Recovers, Recoverable, Source, Moved,
         Destination, AtStart, Outside, Copying
<1> QED
  BY <1>1, <1>3, <1>4

\* The folder is copied.
LEMMA CopiesKeepFiles ==
    ASSUME FileTypes, FilesInv,
           JournalStaging \/ FillStaging \/ PlaceCopy \/ RepairCopy \/ UndoCopy \/ JournalCopied
    PROVE  FilesInv'
<1>1. at \in Copying /\ UNCHANGED <<worktreePath, edits, unrepaired>>
  BY DEF JournalStaging, FillStaging, PlaceCopy, RepairCopy, UndoCopy, JournalCopied, Copying
<1>2. /\ rec.from # rec.to /\ worktreePath = rec.from
      /\ journal # NoMove /\ journal.from = rec.from /\ journal.to = rec.to
      /\ journal.phase = "moving" /\ moved = "no"
      /\ rec.phase = "moving" /\ ~rec.removeSource
      /\ disk[rec.from] = edits
  BY <1>1 DEF FilesInv, SameMove, Source, Outside, Copying
<1>3. rec # NoMove
  BY <1>2, FileFacts
<1>4. CASE JournalStaging \/ FillStaging
  <2>1. /\ UNCHANGED <<rec, disk, gitAt, moved>> /\ journal' \in {journal, rec}
        /\ \/ at = "copying" /\ at' \in {"staging", "failed"}
           \/ at = "staging" /\ at' = "staged" /\ staging' = disk[rec.from]
           \/ at = "staging" /\ at' = "undo"
    BY <1>4 DEF JournalStaging, FillStaging, Written, WriteRejected, Goto
  <2> QED
    BY <1>1, <1>2, <1>3, <2>1, FileFacts
       DEF FilesInv, FilesUntouched, Chosen, SameMove, Recovers, Recoverable, Source, Moved,
         Destination, AtStart, Outside, Copying
<1>5. CASE PlaceCopy
  <2>1. /\ UNCHANGED <<rec, journal, gitAt, moved>> /\ at = "staged"
        /\ \/ disk' = [disk EXCEPT ![rec.to] = staging] /\ at' = "placed"
           \/ disk' = disk /\ at' = "undo"
    BY <1>5 DEF PlaceCopy, Goto
  <2>2. staging = edits
    BY <2>1 DEF FilesInv, Source
  <2>3. \/ disk'[rec.from] = edits /\ disk'[rec.to] = edits /\ at' = "placed"
        \/ disk'[rec.from] = edits /\ at' = "undo"
    BY <1>2, <2>1, <2>2, FileFacts
  <2> QED
    BY <1>1, <1>2, <2>1, <2>3, FileFacts
       DEF FilesInv, FilesUntouched, Chosen, SameMove, Recovers, Recoverable, Source, Moved,
         Destination, AtStart, Outside, Copying
<1>6. CASE RepairCopy
  <2>1. /\ UNCHANGED <<rec, journal, disk, moved>> /\ at = "placed"
        /\ \/ at' = "copied" /\ gitAt' = rec.to
           \/ at' = "undo"
    BY <1>6 DEF RepairCopy, Goto
  <2> QED
    BY <1>1, <1>2, <2>1, FileFacts
       DEF FilesInv, FilesUntouched, Chosen, SameMove, Recovers, Recoverable, Source, Moved,
         Destination, AtStart, Outside, Copying
<1>7. CASE UndoCopy
  <2>1. UNCHANGED <<rec, journal, moved>> /\ at' = "failed"
    BY <1>7 DEF UndoCopy, Goto
  <2>2. disk'[rec.from] = edits
    BY <1>2, <1>7, FileFacts DEF UndoCopy
  <2> QED
    BY <1>1, <1>2, <2>1, <2>2, FileFacts
       DEF FilesInv, FilesUntouched, Chosen, SameMove, Recovers, Recoverable, Source, Moved,
         Destination, AtStart, Outside, Copying
<1>8. CASE JournalCopied
  <2>1. /\ at = "copied" /\ UNCHANGED <<disk, gitAt>> /\ moved' = "copy"
        /\ rec' = [rec EXCEPT !.phase = "copied", !.removeSource = TRUE]
        /\ \/ at' = "moved" /\ journal' = rec'
           \/ at' = "failed" /\ journal' \in {journal, rec'}
    BY <1>8 DEF JournalCopied, Written, WriteRejected, Goto
  <2>2. /\ rec' # NoMove /\ rec'.from = rec.from /\ rec'.to = rec.to /\ rec'.phase = "copied"
        /\ rec'.removeSource
    BY <2>1, CopiedPhase, FileFacts
  <2>3. disk[rec.to] = edits /\ gitAt = rec.to
    BY <2>1 DEF FilesInv, Source
  <2> QED
    BY <1>1, <1>2, <2>1, <2>2, <2>3, FileFacts
       DEF FilesInv, FilesUntouched, Chosen, SameMove, Recovers, Recoverable, Source, Moved,
         Destination, AtStart, Outside, Copying
<1> QED
  BY <1>4, <1>5, <1>6, <1>7, <1>8

\* The commit, and what follows it.
LEMMA CommitKeepsFiles ==
    ASSUME FileTypes, FilesInv, Commit \/ ReadAuthority
    PROVE  FilesInv'
<1>1. /\ UNCHANGED <<disk, gitAt, moved, edits, unrepaired>>
      /\ rec.from # rec.to /\ disk[rec.to] = edits /\ gitAt = rec.to
      /\ journal # NoMove /\ journal.from = rec.from /\ journal.to = rec.to
      /\ moved \in {"rename", "copy"} /\ (rec.removeSource <=> moved = "copy")
      /\ moved = "rename" => disk[rec.from] = Absent
      /\ moved = "copy" => disk[rec.from] = edits
      /\ journal.phase = "copied" => moved = "copy"
  BY DEF Commit, ReadAuthority, fileVars, FileTypes, FilesInv, SameMove, Moved, Outside
<1>2. CASE Commit
  <2>1. /\ at = "moved" /\ rec' = [rec EXCEPT !.phase = "committed"]
        /\ \/ journal' = rec' /\ worktreePath' = rec.to /\ at' \in {"committed", "uncertain"}
           \/ journal' = journal /\ worktreePath' = worktreePath /\ at' = "uncertain"
    BY <1>2 DEF Commit, Goto
  <2>2. /\ rec' # NoMove /\ rec'.from = rec.from /\ rec'.to = rec.to
        /\ rec'.phase = "committed" /\ rec'.removeSource = rec.removeSource
    BY <2>1, Phase, FileFacts
  <2>3. worktreePath = rec.from /\ journal.phase \in {"moving", "copied"}
    BY <2>1 DEF FilesInv, Source
  <2> QED
    BY <1>1, <2>1, <2>2, <2>3, FileFacts
       DEF FilesInv, FilesUntouched, Chosen, SameMove, Recovers, Recoverable, Source, Moved,
         Destination, AtStart, Outside, Copying
<1>3. CASE ReadAuthority
  <2>1. /\ at = "uncertain" /\ UNCHANGED <<journal, rec, worktreePath>>
        /\ \/ at' = "incomplete" /\ worktreePath = rec.to
           \/ at' = "failed" /\ worktreePath # rec.to
           \/ at' = "unknown"
    BY <1>3 DEF ReadAuthority, Goto, fileVars
  <2>2. IF worktreePath = rec.to THEN journal.phase = "committed"
        ELSE worktreePath = rec.from /\ journal.phase \in {"moving", "copied"}
    BY <2>1 DEF FilesInv, Moved
  <2> QED
    BY <1>1, <2>1, <2>2, FileFacts
       DEF FilesInv, FilesUntouched, Chosen, SameMove, Recovers, Recoverable, Source, Moved,
         Destination, AtStart, Outside, Copying
<1> QED
  BY <1>2, <1>3

LEMMA CompletionKeepsFiles ==
    ASSUME FileTypes, FilesInv, RemoveSource \/ FinishMove \/ CompletionLeft
    PROVE  FilesInv'
<1>1. /\ at \in {"committed", "cleaned", "incomplete"}
      /\ UNCHANGED <<worktreePath, rec, gitAt, edits, unrepaired>>
  BY DEF RemoveSource, FinishMove, CompletionLeft, fileVars
<1>2. /\ worktreePath = rec.to /\ disk[rec.to] = edits /\ gitAt = rec.to /\ rec.from # rec.to
      /\ journal # NoMove => /\ journal.phase = "committed"
                             /\ journal.from = rec.from /\ journal.to = rec.to
      /\ journal = NoMove => at = "incomplete"
  BY <1>1 DEF FilesInv, Destination, SameMove, Outside
<1>3. disk'[rec.to] = edits
  BY <1>2, FileFacts DEF RemoveSource, FinishMove, CompletionLeft, fileVars
<1>4. \/ journal' = journal /\ at' \in {"cleaned", "incomplete"} /\ journal # NoMove
      \/ journal' \in {journal, NoMove} /\ at' = "incomplete"
      \/ journal' = NoMove /\ at' = "idle"
      \/ journal' = journal /\ at' = "idle" /\ recoveryPending' = TRUE
  BY <1>2 DEF RemoveSource, FinishMove, CompletionLeft, fileVars, Written, WriteRejected,
              EndMove, Goto
<1> QED
  BY <1>1, <1>2, <1>3, <1>4, FileFacts
     DEF FilesInv, FilesUntouched, Chosen, SameMove, Recovers, Recoverable, Source, Moved,
         Destination, AtStart, Outside, Copying

\* A failure before the commit: the folders are inspected, or the copy or the
\* rename is undone.
LEMMA RollbackKeepsFiles ==
    ASSUME FileTypes, FilesInv,
           InspectFolders \/ PublishRollback \/ RollbackCopy \/ RollbackRename
    PROVE  FilesInv'
<1>1. /\ at \in {"failed", "rollback"} /\ UNCHANGED <<worktreePath, edits, unrepaired>>
  BY DEF InspectFolders, PublishRollback, RollbackCopy, RollbackRename, fileVars
<1>2. /\ worktreePath = rec.from /\ rec.from # rec.to
      /\ journal # NoMove /\ journal.from = rec.from /\ journal.to = rec.to
      /\ journal.phase \in {"moving", "copied"}
  BY <1>1 DEF FilesInv, Source, SameMove, Outside
<1>3. CASE InspectFolders
  <2>1. /\ UNCHANGED <<rec, journal, disk>>
        /\ \/ at' = "rolledback" /\ disk[rec.from] # Absent
           \/ at' = "stuck"
    BY <1>3 DEF InspectFolders, fileVars, Goto
  <2>2. /\ journal.phase = "moving"
        /\ \/ disk[rec.from] = edits
           \/ disk[rec.from] = Absent /\ disk[rec.to] = edits
    BY <1>2, <1>3 DEF InspectFolders, FilesInv, Moved
  <2> QED
    BY <1>1, <1>2, <2>1, <2>2, FileFacts
       DEF FilesInv, FilesUntouched, Chosen, SameMove, Recovers, Recoverable, Source, Moved,
         Destination, AtStart, Outside, Copying
<1>4. CASE PublishRollback
  <2>1. /\ rec' = [rec EXCEPT !.phase = "moving"] /\ disk' = disk
        /\ \/ at' = "rollback" /\ journal' = rec'
           \/ at' = "stuck" /\ journal' \in {journal, rec'}
    BY <1>4 DEF PublishRollback, Written, WriteRejected, Goto
  <2>2. rec' # NoMove /\ rec'.from = rec.from /\ rec'.to = rec.to /\ rec'.phase = "moving"
    BY <2>1, Phase, FileFacts
  <2>3. disk[rec.from] = edits /\ disk[rec.to] = edits
    BY <1>4 DEF PublishRollback, FilesInv, Moved
  <2> QED
    BY <1>1, <1>2, <2>1, <2>2, <2>3, FileFacts
       DEF FilesInv, FilesUntouched, Chosen, SameMove, Recovers, Recoverable, Source, Moved,
         Destination, AtStart, Outside, Copying
<1>5. CASE RollbackCopy
  <2>1. UNCHANGED <<journal, rec>> /\ at' \in {"rolledback", "stuck"}
    BY <1>5 DEF RollbackCopy, Goto
  <2>2. disk[rec.from] = edits /\ journal.phase = "moving"
    BY <1>5 DEF RollbackCopy, FilesInv, Source
  <2>3. disk'[rec.from] = edits
    BY <1>2, <1>5, <2>2, FileFacts DEF RollbackCopy
  <2> QED
    BY <1>1, <1>2, <2>1, <2>2, <2>3, FileFacts
       DEF FilesInv, FilesUntouched, Chosen, SameMove, Recovers, Recoverable, Source, Moved,
         Destination, AtStart, Outside, Copying
<1>6. CASE RollbackRename
  <2>1. /\ disk[rec.from] = Absent /\ disk[rec.to] = edits /\ journal.phase = "moving"
    BY <1>2, <1>6 DEF RollbackRename, FilesInv, Moved
  <2>2. /\ UNCHANGED <<journal, rec>>
        /\ \/ at' \in {"rolledback", "stuck"} /\ disk' = Swapped(rec.to, rec.from)
           \/ at' = "stuck" /\ disk' = disk
    BY <1>6 DEF RollbackRename, Goto
  <2>3. disk' = Swapped(rec.to, rec.from) => disk'[rec.from] = edits
    BY <1>2, <2>1, FileFacts DEF Swapped
  <2> QED
    BY <1>1, <1>2, <2>1, <2>2, <2>3, FileFacts
       DEF FilesInv, FilesUntouched, Chosen, SameMove, Recovers, Recoverable, Source, Moved,
         Destination, AtStart, Outside, Copying
<1> QED
  BY <1>3, <1>4, <1>5, <1>6

LEMMA GivingUpKeepsFiles ==
    ASSUME FileTypes, FilesInv, RolledBack \/ KeepJournal
    PROVE  FilesInv'
<1>1. /\ at \in {"rolledback", "stuck", "unknown"} /\ at' = "idle"
      /\ UNCHANGED <<worktreePath, rec, disk, gitAt, edits>>
  BY DEF RolledBack, KeepJournal, EndMove
<1>2. /\ rec.from # rec.to /\ journal # NoMove
      /\ journal.from = rec.from /\ journal.to = rec.to /\ Recoverable(journal)
  BY <1>1 DEF FilesInv, SameMove, Recovers, Outside
<1>3. CASE RolledBack
  <2>1. /\ journal' \in {journal, NoMove}
        /\ unrepaired' = (unrepaired \/ gitAt # rec.from)
    BY <1>3 DEF RolledBack, Written, WriteRejected
  <2>2. worktreePath = rec.from /\ disk[rec.from] = edits /\ journal.phase = "moving"
    BY <1>3 DEF RolledBack, FilesInv, Source
  <2>3. unrepaired' \/ gitAt' = worktreePath'
    BY <1>1, <2>1, <2>2
  <2> QED
    BY <1>1, <1>2, <2>1, <2>2, <2>3, FileFacts
       DEF FilesInv, FilesUntouched, Chosen, SameMove, Recovers, Recoverable, Source, Moved,
         Destination, AtStart, Outside, Copying
<1>4. CASE KeepJournal
  <2>1. PICK k : /\ journal' \in {journal, k} /\ k # NoMove
                 /\ k.from = rec.from /\ k.to = rec.to
                 /\ k.phase = IF at = "unknown" /\ rec.removeSource THEN "copied" ELSE "moving"
    <3> DEFINE p == IF at = "unknown" /\ rec.removeSource THEN "copied" ELSE "moving"
               kept == [rec EXCEPT !.phase = p]
    <3>1. journal' \in {journal, kept}
      BY <1>4 DEF KeepJournal, Written, WriteRejected
    <3>2. p \in {"moving", "copied", "committed"}
      OBVIOUS
    <3>3. kept # NoMove /\ kept.from = rec.from /\ kept.to = rec.to /\ kept.phase = p
      <4> HIDE DEF p
      <4> QED
        BY <3>2, Phase, FileFacts
    <3> HIDE DEF kept
    <3> QED
      BY <3>1, <3>3
  <2>2. recoveryPending' = TRUE
    BY <1>4 DEF KeepJournal, EndMove
  <2>3. Recoverable(k)'
    <3>1. CASE at = "stuck"
      <4>1. /\ worktreePath = rec.from
            /\ \/ disk[rec.from] = edits
               \/ disk[rec.from] = Absent /\ disk[rec.to] = edits
        BY <3>1 DEF FilesInv, Source, Moved
      <4> QED
        BY <1>1, <1>2, <2>1, <3>1, <4>1 DEF Recoverable
    <3>2. CASE at = "unknown"
      <4>1. /\ worktreePath \in {rec.from, rec.to} /\ disk[rec.to] = edits
            /\ rec.removeSource \/ disk[rec.from] = Absent
        BY <3>2 DEF FileTypes, FilesInv, Moved
      <4> QED
        BY <1>1, <1>2, <2>1, <3>2, <4>1 DEF Recoverable
    <3> QED
      BY <1>4, <3>1, <3>2 DEF KeepJournal
  <2>4. Recovers'
    BY <1>1, <1>2, <2>1, <2>3 DEF Recovers, Recoverable
  <2> QED
    BY <1>1, <1>2, <2>1, <2>2, <2>4
       DEF FilesInv, FilesUntouched, Chosen, SameMove, Recovers, Source, Moved, Destination, AtStart,
           Outside, Copying
<1> QED
  BY <1>3, <1>4

\* A stop leaves the journal, and the recovery finds the checkout by it.
LEMMA CrashKeepsFiles ==
    ASSUME FileTypes, FilesInv, MoveCrash
    PROVE  FilesInv'
<1>1. /\ UNCHANGED <<worktreePath, journal, disk, gitAt, edits, unrepaired>> /\ rec' = journal
      /\ IF journal = NoMove THEN at' = "idle"
         ELSE at' = "recovering"
  BY DEF MoveCrash
<1>2. journal = NoMove => /\ disk[worktreePath] = edits
                          /\ unrepaired \/ gitAt = worktreePath
  BY DEF FilesInv, SameMove, FilesUntouched, Destination
<1>3. journal # NoMove => Recoverable(journal)
  BY DEF FilesInv, Recovers
<1> QED
  BY <1>1, <1>2, <1>3, FileFacts
       DEF FilesInv, FilesUntouched, Chosen, SameMove, Recovers, Recoverable, Source, Moved,
         Destination, AtStart, Outside, Copying

LEMMA RecoveryKeepsFiles ==
    ASSUME FileTypes, FilesInv, RecoveryStep
    PROVE  FilesInv'
<1>1. /\ at = "recovering" /\ UNCHANGED <<disk, edits, unrepaired>>
      /\ rec = journal /\ rec # NoMove /\ Recoverable(rec)
  BY DEF RecoveryStep, Adopt, Abandon, RecoveryFails, FilesInv, SameMove, Recovers, AtStart,
         Outside
<1>2. Adopts => disk[rec.to] = edits
  BY <1>1, FileFacts DEF Adopts, Recoverable
<1>3. ~Adopts => worktreePath = rec.from /\ disk[rec.from] = edits /\ rec.phase = "moving"
  BY <1>1, FileFacts DEF Adopts, Recoverable
<1> DEFINE done == [rec EXCEPT !.phase = "committed"]
<1>4. done # NoMove /\ done.from = rec.from /\ done.to = rec.to /\ done.phase = "committed"
  BY Phase, FileFacts
<1>5. \/ /\ Adopts /\ gitAt' = rec.to /\ worktreePath' = rec.to /\ rec' = done /\ journal' = done
         /\ at' = "committed"
      \/ /\ ~Adopts /\ worktreePath' = worktreePath /\ journal' = NoMove /\ at' = "idle"
         /\ gitAt' = rec.from
      \/ /\ Adopts /\ gitAt' = rec.to /\ worktreePath' = rec.to /\ journal' = done
         /\ at' = "idle" /\ recoveryPending' = TRUE
      \/ /\ worktreePath' = worktreePath /\ journal' = journal
         /\ at' = "idle" /\ recoveryPending' = TRUE
  BY <1>1, <1>3, FileFacts DEF RecoveryStep, Adopt, Abandon, RecoveryFails, Written, Goto, EndMove
<1> HIDE DEF done
<1> QED
  BY <1>1, <1>2, <1>3, <1>4, <1>5, FileFacts
     DEF FilesInv, FilesUntouched, Chosen, SameMove, Recovers, Recoverable, Source, Moved,
         Destination, AtStart, Outside, Copying

LEMMA FilesInvNext ==
    /\ FileTypes /\ CountTypes /\ FenceInv /\ RecoveryQuiet /\ FilesInv
    /\ [MoveNext]_moveVars
    => FilesInv'
<1> SUFFICES ASSUME FileTypes, CountTypes, FenceInv, RecoveryQuiet, FilesInv,
                    [MoveNext]_moveVars
             PROVE  FilesInv'
  OBVIOUS
<1>1. CASE FenceStep
  <2>1. CASE Edit
    BY <2>1, EditKeepsFiles
  <2>2. CASE \/ \E k \in Kinds : Begin(k) \/ Release(k)
             \/ AgentTurnEnds \/ BeginRewind \/ BindRewind \/ EndRewind
    BY <2>2, FenceKeepsFiles DEF Begin, Release, AgentTurnEnds, BeginRewind, MoveAdmitted,
                                 BindRewind, EndRewind, EndMove, Outside
  <2> QED
    BY <1>1, <2>1, <2>2 DEF FenceStep
<1>2. CASE RequestMove \/ MoveRefused \/ BindMove
  BY <1>2, FenceKeepsFiles DEF RequestMove, MoveAdmitted, MoveRefused, BindMove, EndMove, Outside
<1>3. CASE MoveStep /\ ~(RequestMove \/ MoveRefused \/ BindMove)
  BY <1>3, CheckKeepsFiles, JournalKeepsFiles, RenamesKeepFiles, CopiesKeepFiles,
     CommitKeepsFiles, CompletionKeepsFiles, RollbackKeepsFiles, GivingUpKeepsFiles
     DEF MoveStep
<1>4. CASE RecoveryStep \/ MoveCrash
  BY <1>4, RecoveryKeepsFiles, CrashKeepsFiles
<1>5. CASE UNCHANGED moveVars
  BY <1>5, FenceKeepsFiles DEF moveVars, fenceVars
<1> QED
  BY <1>1, <1>2, <1>3, <1>4, <1>5 DEF MoveNext

LEMMA FilesInvInit == MoveInit => RecoveryQuiet /\ FilesInv
BY MoveAssumption
   DEF MoveInit, RecoveryQuiet, FilesInv, FilesUntouched, Chosen, SameMove, Recovers, Recoverable,
       Source, Moved, Destination, AtStart, Outside, Copying

\* EditsKept: wherever a command or a write fails, or the process stops, however
\* often, once the fence is open again the record names a folder with the whole
\* checkout and every edit.
THEOREM EditsAreKept == MoveSpec => []EditsKept
<1>1. FilesInv => EditsKept
  BY DEF FilesInv, FilesUntouched, EditsKept, Settled, Outside
<1> QED
  BY <1>1, FilesInvInit, FilesInvNext, RecoveryQuietNext, FenceInit, FenceNext, MoveTypesInit,
     FileTypesNext, CountTypesNext, PTL DEF MoveSpec

\* GitFollows: ... and git knows the worktree by that folder, but for the rollback
\* that was called done after the copy's own catch had failed.
THEOREM GitAlwaysFollows == MoveSpec => []GitFollows
<1>1. FilesInv => GitFollows
  BY DEF FilesInv, FilesUntouched, GitFollows, Settled, Outside
<1> QED
  BY <1>1, FilesInvInit, FilesInvNext, RecoveryQuietNext, FenceInit, FenceNext, MoveTypesInit,
     FileTypesNext, CountTypesNext, PTL DEF MoveSpec
=============================================================================
