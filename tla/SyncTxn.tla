------------------------------- MODULE SyncTxn -------------------------------
(***************************************************************************)
(* The updater's Git synchronisation (GitEngine.execute_phase of            *)
(* update_dusky/python/update_dusky.py): the transaction journal, the       *)
(* backups it points to, and the recovery that every launch begins with.    *)
(*                                                                         *)
(* The state is what survives a power loss: the repository (HEAD, index),   *)
(* the work tree, .dusky_sync_transaction.json and, for each run, its       *)
(* your_changes_* (capture) and moved_aside_* (aside) directories.  One     *)
(* action is one durable effect.  The updater lock makes runs sequential    *)
(* (module Supervisor); the user edits files and stages them at will.       *)
(* A path is a file here: directories in the way of files, modes and the    *)
(* manual_merge copies of what a capture keeps anyway are left out.         *)
(***************************************************************************)
EXTENDS Naturals, FiniteSets

CONSTANTS
  Paths,
  Dev,            \* contents the developer publishes
  User,           \* contents only the user writes
  Absent,         \* no file
  None,           \* nothing recorded, no commit
  NoRepo,         \* HEAD of a missing repository
  Unborn,         \* HEAD of a repository without commits
  Starts,         \* what the first run may find: NoRepo, Unborn or commit 1
  MaxCommits,     \* bound on upstream commits
  MaxRuns,        \* bound on updater runs
  MaxEdits,       \* bound on edits of files
  MaxStages,      \* bound on uses of git add and git rm --cached
  MaxFaults,      \* bound on crashes, cancellations and I/O errors
  Habits          \* what the user does that others do not, of AllHabits

Content == Dev \cup User
Object == Content \cup {Absent}
Commits == 1..MaxCommits
Heads == Commits \cup {NoRepo, Unborn}
Runs == 1..MaxRuns

\* Editing and staging while recovery data is unresolved; editing tracked files
\* during a run, until its last check; creating files then; recreating a file
\* whose deletion is staged; staging before the first commit.
AllHabits == {"inattentive", "edits tracked", "creates", "recreates",
              "stages unborn"}

ASSUME ValuesAssumption ==
  /\ Dev \cap User = {} /\ Absent \notin Content /\ None \notin Object \cup Commits
  /\ NoRepo # Unborn /\ {NoRepo, Unborn} \cap Commits = {}
ASSUME BoundsAssumption ==
  /\ {MaxCommits, MaxRuns, MaxEdits, MaxStages, MaxFaults} \subseteq Nat
  /\ MaxCommits > 0 /\ Starts \subseteq {NoRepo, Unborn, 1}
  /\ Habits \subseteq AllHabits

VARIABLES
  tree,       \* the files of each upstream commit (never changes)
  upstream,   \* the upstream branch
  head, index, work,
  txn,        \* the journal
  capture,    \* your_changes_* of each run
  aside,      \* moved_aside_* of each run
  run, pc,    \* the number of the current run, and where it is
  failing,    \* the run is in execute_phase's exception handler
  todo,       \* paths still to be handled by the loop pc is in
  seen,       \* _capture_signature
  mtime,      \* edits of each path since the signature was taken
  replayed,   \* captures recovery has restored in this pass
  cur,        \* the capture being restored
  outcome,    \* all_ok and upstream_overrode_deletions of the restore
  before,     \* history: work when the transaction was prepared, with
              \* later edits
  calm,       \* history: <<work, index>> at a launch with no sync unfinished
  authored,   \* history: what the user last wrote at each path
  staged,     \* history: what the user last staged at each path, unless HEAD
              \* had the same
  touched,    \* history: paths the user ever changed
  unrestored, \* history: paths whose restore, or move back, failed with an I/O
              \* error
  half,       \* history: a reset has begun and not ended
  edits, stages, faults

repo == <<head, index>>
backups == <<txn, capture, aside>>
loop == <<todo, seen, mtime, replayed, cur, outcome>>
user == <<authored, staged, touched, edits, stages>>
history == <<before, calm, unrestored, half>>
vars == <<tree, upstream, repo, work, backups, run, pc, failing, loop, user,
          history, faults>>

TreeOf(c) == IF c \in Commits THEN tree[c] ELSE [p \in Paths |-> Absent]
NoFiles == [p \in Paths |-> None]
NoCapture == [status |-> "none", old |-> None, target |-> None,
              files |-> NoFiles, staged |-> NoFiles]
NoAside == [status |-> "none", files |-> NoFiles]

PreApply == {"prepared", "collisions-durable", "snapshot-durable"}
\* completed-recovery-retained is told apart from completed by nothing but
\* its name.
Terminal == {"none", "completed", "aborted-before-apply"}
TxnState == PreApply \cup Terminal
            \cup {"applying", "reset-applied", "recovery-blocked"}
CaptureStatus == {"none", "pending", "completed", "pending-staged",
                  "pending-upstream-conflict", "pending-restore",
                  "completed-capture-retained"}
Restorable == {"pending", "pending-restore"}
PC == {"off", "recover", "replay", "sync", "cloned", "equal", "collide",
       "capture", "copy", "record", "check", "apply", "reset", "restore",
       "finish"}

Goto(p) == pc' = p
Fault == faults < MaxFaults /\ faults' = faults + 1
Unedited == [p \in Paths |-> 0]
Write(state) == txn' = [txn EXCEPT !.state = state]

\* The process ends, and its local variables with it.
End ==
  /\ Goto("off") /\ failing' = FALSE /\ todo' = {} /\ seen' = None
  /\ mtime' = Unedited /\ replayed' = {} /\ cur' = 0 /\ outcome' = "restored"

\* The exception handler of execute_phase runs recovery once more, with
\* errors suppressed.
Handle ==
  IF failing THEN End
  ELSE /\ Goto("recover") /\ failing' = TRUE /\ todo' = {} /\ seen' = None
       /\ mtime' = Unedited /\ replayed' = {} /\ cur' = 0 /\ outcome' = "restored"

Init ==
  /\ tree \in [Commits -> [Paths -> Dev \cup {Absent}]]
  /\ upstream = 1 /\ head \in Starts
  /\ index = TreeOf(head) /\ work = TreeOf(head)
  /\ txn = [state |-> "none", old |-> None, target |-> None, local |-> 0]
  /\ capture = [r \in Runs |-> NoCapture] /\ aside = [r \in Runs |-> NoAside]
  /\ run = 0 /\ pc = "off" /\ failing = FALSE
  /\ todo = {} /\ seen = None /\ mtime = Unedited /\ replayed = {} /\ cur = 0
  /\ outcome = "restored"
  /\ before = work /\ calm = None /\ unrestored = {} /\ half = FALSE
  /\ authored = NoFiles /\ staged = NoFiles /\ touched = {}
  /\ edits = 0 /\ stages = 0 /\ faults = 0

----------------------------------------------------------------------------
(* _recover_pending_sync_artifacts                                         *)

Launch ==
  /\ pc = "off" /\ run < MaxRuns
  /\ run' = run + 1 /\ Goto("recover")
  /\ calm' = IF txn.state \in Terminal /\ unrestored = {}
             THEN <<work, index>> ELSE None
  /\ UNCHANGED <<tree, upstream, repo, work, backups, failing, loop, user,
                 before, unrestored, half, faults>>

\* Mutant: a blocked transaction is only reported.
StayBlockedIgnored ==
  /\ pc = "recover" /\ txn.state = "recovery-blocked" /\ Goto("sync")
  /\ UNCHANGED <<tree, upstream, repo, work, backups, run, failing, loop, user,
                 history, faults>>

\* A blocked transaction ends this and every later run.
StayBlocked ==
  /\ pc = "recover" /\ txn.state = "recovery-blocked" /\ End
  /\ UNCHANGED <<tree, upstream, repo, work, backups, run, user, history,
                 faults>>

Recovering == pc = "recover" /\ txn.state # "recovery-blocked"
PendingAsides == {r \in Runs : aside[r].status = "pending-collision"}

\* _rollback_collision_backup: a moved file goes back unless something is at
\* its path now.
PutBack(r, p) ==
  /\ Recovering /\ r \in PendingAsides
  /\ aside[r].files[p] # None /\ work[p] = Absent
  /\ work' = [work EXCEPT ![p] = aside[r].files[p]]
  /\ aside' = [aside EXCEPT ![r].files[p] = None]
  /\ UNCHANGED <<tree, upstream, repo, txn, capture, run, pc, failing, loop,
                 user, history, faults>>

\* A file that cannot be moved or synced stays in the backup, which is closed all
\* the same.
CloseAside(r) ==
  /\ Recovering /\ r \in PendingAsides
  /\ LET kept == {p \in Paths : aside[r].files[p] # None /\ work[p] = Absent}
     IN /\ IF kept = {} THEN UNCHANGED faults ELSE Fault
        /\ unrestored' = unrestored \cup kept
  /\ aside' = [aside EXCEPT ![r].status = "completed"]
  /\ UNCHANGED <<tree, upstream, repo, work, txn, capture, run, pc, failing,
                 loop, user, before, calm, half>>

Resolving == Recovering /\ PendingAsides = {}

\* The reset was never started: the capture is kept as evidence only ...
RetainCapture ==
  /\ Resolving /\ txn.state \in PreApply /\ txn.local # 0
  /\ capture[txn.local].status = "pending"
  /\ capture' = [capture EXCEPT
                   ![txn.local].status = "completed-capture-retained"]
  /\ UNCHANGED <<tree, upstream, repo, work, txn, aside, run, pc, failing,
                 loop, user, history, faults>>

\* Recovery is over: the run goes on, or its handler returns False.
Recovered ==
  IF failing THEN End
  ELSE /\ Goto("sync") /\ replayed' = {} /\ cur' = 0 /\ outcome' = "restored"
       /\ UNCHANGED <<failing, todo, seen, mtime>>

\* ... and recovery returns at once.
AbortBeforeApply ==
  /\ Resolving /\ txn.state \in PreApply
  /\ txn.local # 0 => capture[txn.local].status # "pending"
  /\ Write("aborted-before-apply") /\ Recovered
  /\ UNCHANGED <<tree, upstream, repo, work, capture, aside, run, user,
                 history, faults>>

\* Mutant: HEAD at the target is taken as proof of a completed reset.
ResumableByHead ==
  /\ txn.state \in {"applying", "reset-applied"} /\ head = txn.target
  /\ txn.local # 0 => capture[txn.local].status # "none"

\* Only reset-applied proves that the reset completed; the capture it names
\* must still exist.
Resumable ==
  /\ txn.state = "reset-applied" /\ head = txn.target
  /\ txn.local # 0 => capture[txn.local].status # "none"

Block ==
  /\ Resolving /\ txn.state \in {"applying", "reset-applied"} /\ ~Resumable
  /\ Write("recovery-blocked") /\ Handle
  /\ UNCHANGED <<tree, upstream, repo, work, capture, aside, run, user,
                 history, faults>>

\* Mutant: completed captures are restored again.
ReplayableCompleted(r) ==
  /\ r \notin replayed /\ capture[r].status \in Restorable \cup {"completed"}
  /\ \/ txn.state = "reset-applied" /\ Resumable /\ r = txn.local
     \/ txn.state \in Terminal /\ capture[r].target = head

\* The captures recovery restores: the one of a completed reset, then any
\* other whose target is HEAD.
Replayable(r) ==
  /\ r \notin replayed /\ capture[r].status \in Restorable
  /\ \/ txn.state = "reset-applied" /\ Resumable /\ r = txn.local
     \/ txn.state \in Terminal /\ capture[r].target = head

\* Mutant: recovery does not remember which captures it has restored.
ReplayForgetful(r) ==
  /\ Resolving /\ Replayable(r)
  /\ Goto("replay") /\ cur' = r
  /\ todo' = {p \in Paths : capture[r].files[p] # None}
  /\ outcome' = "restored"
  /\ UNCHANGED <<tree, upstream, repo, work, backups, run, failing, seen,
                 mtime, replayed, user, history, faults>>

Replay(r) ==
  /\ Resolving /\ Replayable(r)
  /\ Goto("replay") /\ cur' = r /\ replayed' = replayed \cup {r}
  /\ todo' = {p \in Paths : capture[r].files[p] # None}
  /\ outcome' = "restored"
  /\ UNCHANGED <<tree, upstream, repo, work, backups, run, failing, seen,
                 mtime, user, history, faults>>

\* The resumed transaction is completed ...
Resume ==
  /\ Resolving /\ Resumable /\ ~\E r \in Runs : Replayable(r)
  /\ Write("completed")
  /\ UNCHANGED <<tree, upstream, repo, work, capture, aside, run, pc, failing,
                 loop, user, history, faults>>

\* ... and nothing is left to recover.
RecoverDone ==
  /\ Resolving /\ txn.state \in Terminal /\ ~\E r \in Runs : Replayable(r)
  /\ Recovered
  /\ UNCHANGED <<tree, upstream, repo, work, backups, run, user, history,
                 faults>>

----------------------------------------------------------------------------
(* execute_phase, up to the reset                                          *)

\* _clone_with_retry publishes the repository; nothing is checked out yet.
Clone ==
  /\ pc = "sync" /\ head = NoRepo
  /\ head' = upstream /\ Goto("cloned")
  /\ UNCHANGED <<tree, upstream, index, work, backups, run, failing, loop,
                 user, history, faults>>

\* Mutant: nothing is moved aside for a first checkout.
CollisionsTracked(old, target) ==
  {p \in Paths : /\ TreeOf(target)[p] # Absent /\ work[p] # Absent
                 /\ old # Unborn /\ index[p] = Absent
                 /\ TreeOf(old)[p] = Absent}

\* Files in the way of the target: any for a first checkout, else those that
\* neither the index nor HEAD knows.
Collisions(old, target) ==
  {p \in Paths : /\ TreeOf(target)[p] # Absent /\ work[p] # Absent
                 /\ old = Unborn \/ (index[p] = Absent
                                     /\ TreeOf(old)[p] = Absent)}

\* The target commit is fixed and the journal started anew.
Prepare ==
  /\ pc \in {"sync", "cloned"} /\ head # NoRepo
  /\ LET old == IF pc = "cloned" THEN Unborn ELSE head
         target == IF pc = "cloned" THEN head ELSE upstream
     IN /\ txn' = [state |-> "prepared", old |-> old, target |-> target,
                   local |-> 0]
        /\ IF old = target
           THEN Goto("equal") /\ UNCHANGED todo
           ELSE Goto("collide") /\ todo' = Collisions(old, target)
  /\ before' = work
  /\ UNCHANGED <<tree, upstream, repo, work, capture, aside, run, failing,
                 seen, mtime, replayed, cur, outcome, user, calm, unrestored, half,
                 faults>>

\* Already at the target commit: no reset.
Equal ==
  /\ pc = "equal" /\ Write("completed") /\ End
  /\ UNCHANGED <<tree, upstream, repo, work, capture, aside, run, user,
                 history, faults>>

\* _backup_worktree_collisions
MoveAside(p) ==
  /\ pc = "collide" /\ p \in todo /\ todo' = todo \ {p}
  /\ IF work[p] = Absent THEN UNCHANGED <<work, aside>>
     ELSE /\ aside' = [aside EXCEPT ![run] =
                         [status |-> "pending-collision",
                          files |-> [@.files EXCEPT ![p] = work[p]]]]
          /\ work' = [work EXCEPT ![p] = Absent]
  /\ UNCHANGED <<tree, upstream, repo, txn, capture, run, pc, failing, seen,
                 mtime, replayed, cur, outcome, user, history, faults>>

\* A first checkout captures nothing.
CollideDone ==
  /\ pc = "collide" /\ todo = {}
  /\ Write("collisions-durable")
  /\ Goto(IF txn.old = Unborn THEN "apply" ELSE "capture")
  /\ UNCHANGED <<tree, upstream, repo, work, capture, aside, run, failing,
                 loop, user, history, faults>>

\* _capture_tracked_changes: HEAD against the index and the index against the
\* work tree.
StagedPaths == {p \in Paths : index[p] # TreeOf(head)[p]}
Changes == StagedPaths \cup {p \in Paths : index[p] # Absent
                                           /\ work[p] # index[p]}
Signature == <<index, [p \in Changes |-> <<work[p], mtime[p]>>]>>

Capture ==
  /\ pc = "capture"
  /\ seen' = Signature /\ todo' = Changes
  /\ IF Changes = {} THEN Goto("record") /\ UNCHANGED capture
     ELSE /\ Goto("copy")
          /\ capture' = [capture EXCEPT ![run] =
                           [NoCapture EXCEPT !.status = "pending",
                              !.old = head, !.target = txn.target]]
  /\ UNCHANGED <<tree, upstream, repo, work, txn, aside, run, failing,
                 mtime, replayed, cur, outcome, user, history, faults>>

\* _backup_user_modifications and _capture_staged_blob for one path.  An
\* absent entry is recorded too: a deletion, a staged deletion.
Copy(p) ==
  /\ pc = "copy" /\ p \in todo /\ todo' = todo \ {p}
  /\ capture' = [capture EXCEPT
       ![run].files[p] = work[p],
       ![run].staged[p] = IF p \in StagedPaths THEN index[p] ELSE None]
  /\ UNCHANGED <<tree, upstream, repo, work, txn, aside, run, pc, failing,
                 seen, mtime, replayed, cur, outcome, user, history, faults>>

CopyDone ==
  /\ pc = "copy" /\ todo = {} /\ Goto("record")
  /\ UNCHANGED <<tree, upstream, repo, work, backups, run, failing, loop,
                 user, history, faults>>

Record ==
  /\ pc = "record" /\ Goto("check")
  /\ txn' = [txn EXCEPT !.state = "snapshot-durable",
               !.local = IF capture[run].status = "none" THEN 0 ELSE run]
  /\ UNCHANGED <<tree, upstream, repo, work, capture, aside, run, failing,
                 loop, user, history, faults>>

\* Mutant: the captured state is not compared again.
CheckSkipped ==
  /\ pc = "check" /\ Goto("apply")
  /\ UNCHANGED <<tree, upstream, repo, work, backups, run, failing, loop, user,
                 history, faults>>

\* "refusing reset" when the captured state has changed since.
Check ==
  /\ pc = "check"
  /\ IF Signature = seen THEN Goto("apply") /\ UNCHANGED <<failing, loop>>
                         ELSE Handle
  /\ UNCHANGED <<tree, upstream, repo, work, backups, run, user, history,
                 faults>>

----------------------------------------------------------------------------
(* The reset and the restore                                               *)

Apply ==
  /\ pc = "apply" /\ Write("applying")
  /\ Goto("reset") /\ todo' = Paths
  /\ UNCHANGED <<tree, upstream, repo, work, capture, aside, run, failing,
                 seen, mtime, replayed, cur, outcome, user, history, faults>>

\* git reset --hard (or the first checkout) updates one file: the target's
\* version overwrites whatever is there, and a file the target lacks is
\* removed when the index knows it.
ResetPath(p) ==
  /\ pc = "reset" /\ p \in todo /\ todo' = todo \ {p}
  /\ LET new == TreeOf(txn.target)[p] IN
       /\ work' = [work EXCEPT
                     ![p] = IF new = Absent /\ index[p] = Absent THEN @ ELSE new]
       /\ index' = [index EXCEPT ![p] = new]
  /\ half' = (todo' # {} \/ head # txn.target)
  /\ UNCHANGED <<tree, upstream, head, backups, run, pc, failing, seen,
                 mtime, replayed, cur, outcome, user, before, calm, unrestored,
                 faults>>

ResetHead ==
  /\ pc = "reset" /\ head # txn.target /\ head' = txn.target
  /\ half' = (todo # {})
  /\ UNCHANGED <<tree, upstream, index, work, backups, run, pc, failing, loop,
                 user, before, calm, unrestored, faults>>

\* git returned 0.
MarkApplied ==
  /\ pc = "reset" /\ todo = {} /\ head = txn.target
  /\ Write("reset-applied") /\ seen' = None /\ mtime' = Unedited
  /\ IF txn.local = 0
     THEN Goto("finish") /\ UNCHANGED <<todo, cur>>
     ELSE /\ Goto("restore") /\ cur' = txn.local
          /\ todo' = {p \in Paths : capture[txn.local].files[p] # None}
  /\ UNCHANGED <<tree, upstream, repo, work, capture, aside, run, failing,
                 replayed, outcome, user, history, faults>>

\* What _restore_user_modifications does at one path.
Base(p) == TreeOf(capture[cur].old)[p]
Incoming(p) == TreeOf(head)[p]
Mine(p) == capture[cur].files[p]
Deleted(p) == Mine(p) = Absent
Overridden(p) == Deleted(p) /\ Incoming(p) \notin {Absent, Base(p)}
\* Mutant: a file the developer deleted is taken for one left alone.
SafeDeleted(p) ==
  Incoming(p) \in {Base(p), Absent} /\ {Mine(p), Base(p)} # {Absent}

\* The developer left the path alone, so the user's version goes back, or the
\* deletion is repeated.
Safe(p) == Incoming(p) = Base(p) /\ {Mine(p), Base(p)} # {Absent}

RestorePath(p) ==
  /\ pc \in {"restore", "replay"} /\ p \in todo /\ todo' = todo \ {p}
  /\ \/ /\ work' = IF Safe(p) THEN [work EXCEPT ![p] = Mine(p)] ELSE work
        /\ outcome' = IF Overridden(p) THEN "overridden"
                      ELSE IF Deleted(p) \/ Safe(p) \/ outcome = "overridden"
                           THEN outcome ELSE "left"
        /\ unrestored' = unrestored \ {p} /\ UNCHANGED faults
     \/ /\ Safe(p) /\ Fault /\ UNCHANGED work
        /\ outcome' = IF outcome = "overridden" THEN outcome ELSE "left"
        /\ unrestored' = unrestored \cup {p}
  /\ UNCHANGED <<tree, upstream, repo, backups, run, pc, failing, seen,
                 mtime, replayed, cur, user, before, calm, half>>

\* Mutant: staged records do not count.
RestoredStatusUnstaged(c) ==
  IF c.files = NoFiles THEN c.status
  ELSE CASE outcome = "overridden" -> "pending-upstream-conflict"
         [] outcome = "left" -> "pending-restore"
         [] outcome = "restored" -> "completed"

\* STATUS of a restored capture; one that recorded nothing keeps it.
RestoredStatus(c) ==
  IF c.files = NoFiles THEN c.status
  ELSE IF c.staged # NoFiles THEN "pending-staged"
  ELSE CASE outcome = "overridden" -> "pending-upstream-conflict"
         [] outcome = "left" -> "pending-restore"
         [] outcome = "restored" -> "completed"

RestoreDone ==
  /\ pc \in {"restore", "replay"} /\ todo = {}
  /\ capture' = [capture EXCEPT ![cur].status = RestoredStatus(capture[cur])]
  /\ Goto(IF pc = "restore" THEN "finish" ELSE "recover")
  /\ cur' = 0 /\ outcome' = "restored"
  /\ UNCHANGED <<tree, upstream, repo, work, txn, aside, run, failing, todo,
                 seen, mtime, replayed, user, history, faults>>

\* Mutant: a state _write_sync_txn does not know.
FinishUnknown ==
  /\ pc = "finish" /\ Write("finished") /\ End
  /\ UNCHANGED <<tree, upstream, repo, work, capture, aside, run, user,
                 history, faults>>

Finish ==
  /\ pc = "finish" /\ Write("completed") /\ End
  /\ UNCHANGED <<tree, upstream, repo, work, capture, aside, run, user,
                 history, faults>>

----------------------------------------------------------------------------
(* The environment                                                         *)

\* An exception anywhere in a run, or its cancellation.
Error ==
  /\ pc # "off" /\ Fault /\ Handle
  /\ UNCHANGED <<tree, upstream, repo, work, backups, run, user, history>>

\* A kill or power loss.
Crash ==
  /\ pc # "off" /\ Fault /\ End
  /\ UNCHANGED <<tree, upstream, repo, work, backups, run, user, history>>

\* Mutant: every backup that is not pending expires.
PruneResolved(r) ==
  /\ pc = "off" /\ capture[r].status \notin {"none", "pending"}
  /\ capture' = [capture EXCEPT ![r] = NoCapture]
  /\ UNCHANGED <<tree, upstream, repo, work, txn, aside, run, pc, failing,
                 loop, user, history, faults>>

\* auto_prune, at the start of a run or long before it: expired backups whose
\* STATUS is completed are removed.
Prune(r) ==
  /\ pc = "off" /\ capture[r].status = "completed"
  /\ capture' = [capture EXCEPT ![r] = NoCapture]
  /\ UNCHANGED <<tree, upstream, repo, work, txn, aside, run, pc, failing,
                 loop, user, history, faults>>

\* The developer publishes.
Push ==
  /\ upstream < MaxCommits /\ upstream' = upstream + 1
  /\ UNCHANGED <<tree, repo, work, backups, run, pc, failing, loop, user,
                 history, faults>>

\* Recovery data that a later run will act upon; of the current run's own
\* the user knows nothing yet.
Unresolved ==
  \/ pc = "off" /\ (txn.state \notin Terminal \/ PendingAsides # {})
  \/ \E r \in Runs : capture[r].status \in Restorable /\ (pc = "off" \/ r # run)

Heedful == "inattentive" \notin Habits /\ Unresolved

\* Files that are written under a running updater.
Open(p) ==
  /\ pc \in {"collide", "capture", "copy", "record", "check"}
  /\ IF Absent \in {index[p], work[p]} THEN "creates" \in Habits
     ELSE "edits tracked" \in Habits

\* The user writes, deletes or reverts a file.
Edit(p, new) ==
  /\ edits < MaxEdits /\ edits' = edits + 1
  /\ new # work[p]
  /\ ~Heedful
  /\ pc # "off" => Open(p) /\ new # Absent
  /\ \/ new = Absent \/ "recreates" \in Habits
     \/ index[p] # Absent \/ TreeOf(head)[p] = Absent
  /\ work' = [work EXCEPT ![p] = new]
  /\ authored' = [authored EXCEPT ![p] = new]
  /\ before' = [before EXCEPT ![p] = new]
  /\ mtime' = IF seen = None THEN mtime ELSE [mtime EXCEPT ![p] = @ + 1]
  /\ touched' = touched \cup {p}
  /\ UNCHANGED <<tree, upstream, repo, backups, run, pc, failing, todo, seen,
                 replayed, cur, outcome, staged, stages, calm, unrestored,
                 half, faults>>

\* git add of a file, or of its deletion.
Stage(p) ==
  /\ stages < MaxStages /\ stages' = stages + 1
  /\ pc = "off" /\ ~Heedful
  /\ head \in Commits \/ (head = Unborn /\ "stages unborn" \in Habits)
  /\ index[p] # work[p]
  /\ index' = [index EXCEPT ![p] = work[p]]
  /\ staged' = [staged EXCEPT ![p] = IF work[p] = TreeOf(head)[p] THEN None
                                     ELSE work[p]]
  /\ touched' = touched \cup {p}
  /\ UNCHANGED <<tree, upstream, head, work, backups, run, pc, failing, loop,
                 authored, edits, history, faults>>

Recovery ==
  \/ StayBlocked \/ RetainCapture \/ AbortBeforeApply \/ Block
  \/ Resume \/ RecoverDone
  \/ \E r \in Runs : CloseAside(r) \/ Replay(r) \/ \E p \in Paths : PutBack(r, p)
Sync ==
  \/ Clone \/ Prepare \/ Equal \/ CollideDone \/ Capture \/ CopyDone
  \/ Record \/ Check \/ Apply \/ ResetHead \/ MarkApplied \/ RestoreDone
  \/ Finish
  \/ \E p \in Paths : MoveAside(p) \/ Copy(p) \/ ResetPath(p) \/ RestorePath(p)
Environment ==
  \/ Error \/ Crash \/ Push
  \/ \E r \in Runs : Prune(r)
  \/ \E p \in Paths : Stage(p) \/ \E new \in Object : Edit(p, new)

Next == Launch \/ Recovery \/ Sync \/ Environment

Spec == Init /\ [][Next]_vars

\* A run that was launched goes on.
FairSpec == Spec /\ WF_vars(Recovery \/ Sync)

----------------------------------------------------------------------------
(* Properties                                                              *)

TxnRecord ==
  [state : TxnState, old : Heads \cup {None}, target : Commits \cup {None},
   local : Runs \cup {0}]
CaptureRecord ==
  [status : CaptureStatus, old : Commits \cup {None},
   target : Commits \cup {None}, files : [Paths -> Object \cup {None}],
   staged : [Paths -> Object \cup {None}]]
AsideRecord ==
  [status : {"none", "pending-collision", "completed"},
   files : [Paths -> Content \cup {None}]]

RepositoryType ==
  /\ tree \in [Commits -> [Paths -> Dev \cup {Absent}]]
  /\ upstream \in Commits /\ head \in Heads
  /\ index \in [Paths -> Object] /\ work \in [Paths -> Object]
BackupType ==
  /\ txn \in TxnRecord
  /\ capture \in [Runs -> CaptureRecord] /\ aside \in [Runs -> AsideRecord]
LoopType ==
  /\ run \in 0..MaxRuns /\ pc \in PC /\ failing \in BOOLEAN
  /\ todo \subseteq Paths /\ replayed \subseteq Runs /\ cur \in Runs \cup {0}
  /\ outcome \in {"restored", "left", "overridden"}
EditType ==
  /\ edits \in 0..MaxEdits /\ mtime \in [Paths -> 0..MaxEdits]
UserType ==
  /\ authored \in [Paths -> Object \cup {None}]
  /\ staged \in [Paths -> Object \cup {None}]
  /\ touched \subseteq Paths /\ stages \in 0..MaxStages
  /\ unrestored \subseteq Paths /\ half \in BOOLEAN /\ faults \in 0..MaxFaults
TypeOK == RepositoryType /\ BackupType /\ LoopType /\ EditType /\ UserType

\* What the user wrote last at a path is still there or in a backup, whatever
\* the developer published, and wherever a run was interrupted ("Conflicting
\* local files are backed up", UPDATE_SYNC_BEHAVIOR.md); and what the user staged
\* last, other than what HEAD had, is in the index, or its blob, and the fact that
\* it was a deletion, in a backup that no retention cleanup removes ("Staged
\* changes are saved").
WrittenIsKept(p) == authored[p] \in User =>
  \/ work[p] = authored[p]
  \/ \E r \in Runs : authored[p] \in {capture[r].files[p], aside[r].files[p]}
StagedIsKept(p) == staged[p] \in User \cup {Absent} =>
  \/ index[p] = staged[p]
  \/ \E r \in Runs : capture[r].staged[p] = staged[p]
NothingLost == \A p \in Paths : WrittenIsKept(p) /\ StagedIsKept(p)

\* The conflict chart of UPDATE_SYNC_BEHAVIOR.md.  A sync whose reset was applied
\* ends with the developer's version where the developer changed a path and with
\* the user's everywhere else, also when it was interrupted and resumed.  A run
\* that finds itself at the target commit, with no sync left pending by an earlier
\* run, leaves files and staging as they were ("Same commit: No reset; local files
\* and staging remain in place").
Ruled(p) ==
  LET old == TreeOf(txn.old)[p] new == TreeOf(txn.target)[p] IN
    work[p] = IF old = new THEN before[p] ELSE new
ConflictChart ==
  [][txn'.state = "completed" =>
       /\ txn.state = "reset-applied" => \A p \in Paths \ unrestored : Ruled(p)
       /\ pc = "equal" /\ calm # None => <<work, index>> = calm]_vars

\* A reset that was interrupted between two files is never taken for a
\* completed one: its transaction stays in flight or is blocked.
HalfResetIsBlocked == half => txn.state \in {"applying", "recovery-blocked"}

\* A blocked transaction freezes the repository: no later run changes anything
\* before a person has looked at it.
BlockedIsFrozen ==
  [][txn.state = "recovery-blocked" =>
       /\ UNCHANGED <<txn, head, aside>>
       /\ UNCHANGED <<work, index>> \/ edits' > edits \/ stages' > stages]_vars

\* After a successful run every file the user never changed is the one
\* of the commit the run reports to be at.
UntouchedIsInstalled ==
  [][txn.state # "completed" /\ txn'.state = "completed" =>
       \A p \in Paths \ (touched \cup unrestored) :
         work[p] = TreeOf(head)[p]]_vars

\* Every run ends: recovery replays no capture twice.
RunEnds == pc # "off" ~> pc = "off"
=============================================================================
