---------------------------- MODULE SyncTxnProofs ----------------------------
(* Proofs about SyncTxn, for any paths and contents, every history of commits  *)
(* and any number of runs, edits and faults: where a transaction can be at     *)
(* each place of a run, and what a run leaves alone.                           *)
EXTENDS SyncTxn, TLAPS

\* A reset has begun and is not known to have ended.
InDoubt == {"applying", "recovery-blocked"}

\* The journal says how far the run has come.
PcInv ==
  /\ pc # "off" => run \in Runs
  /\ pc \in {"restore", "replay"} => cur \in Runs
  /\ failing => pc \in {"recover", "replay"}
  /\ pc \in {"sync", "cloned"} => txn.state \in Terminal
  /\ pc \in {"equal", "collide"} => txn.state = "prepared"
  /\ pc \in {"capture", "copy", "record"} => txn.state = "collisions-durable"
  /\ pc = "check" => txn.state = "snapshot-durable"
  /\ pc = "apply" => txn.state \in {"collisions-durable", "snapshot-durable"}
  /\ pc = "reset" => txn.state = "applying"
  /\ pc \in {"restore", "finish"} => txn.state = "reset-applied"
  /\ pc = "replay" => txn.state \in Terminal \cup {"reset-applied"}
  /\ txn.state = "recovery-blocked" => pc \in {"off", "recover"}

\* What it says of HEAD.
HeadInv ==
  /\ txn.state \notin Terminal =>
       txn.target \in Commits /\ txn.old \in Commits \cup {Unborn}
  /\ txn.state \in PreApply => txn.old = Unborn \/ head = txn.old
  /\ pc = "cloned" => head \in Commits
  /\ pc = "equal" => head = txn.target
  /\ pc \in {"capture", "copy", "record", "check"} => txn.old \in Commits

\* A reset is half done until its last file and HEAD are there.
HalfInv ==
  /\ half => txn.state \in InDoubt
  /\ half /\ pc = "reset" => todo # {} \/ head # txn.target

MtimeInv == \A p \in Paths : mtime[p] <= edits

\* Only paths of the capture are restored.
TodoInv ==
  pc \in {"restore", "replay"} => \A p \in todo : capture[cur].files[p] # None

TxnInv == TypeOK /\ PcInv /\ HeadInv /\ HalfInv /\ MtimeInv /\ TodoInv

\* A path the user never changed is nowhere in the backups, and is what HEAD has,
\* or a reset makes it what its target has.
UntouchedTodo ==
  pc \in {"collide", "copy", "restore", "replay"} => todo \subseteq touched
UntouchedBackup ==
  \A p \in Paths \ touched, r \in Runs :
    capture[r].files[p] = None /\ aside[r].files[p] = None
UntouchedFiles ==
  \A p \in Paths \ touched :
    /\ txn.state \notin InDoubt => work[p] = TreeOf(head)[p] /\ index[p] = work[p]
    /\ pc = "reset" => /\ index[p] = work[p]
                       /\ p \in todo \/ work[p] = TreeOf(txn.target)[p]
UntouchedInv ==
  /\ head # NoRepo /\ pc # "cloned" /\ unrestored \subseteq touched
  /\ UntouchedTodo /\ UntouchedBackup /\ UntouchedFiles

-----------------------------------------------------------------------------
(* The steps, for each part of the invariant.                                *)

\* Every commit is a tree of the developer's files.
LEMMA TreeType ==
  ASSUME RepositoryType, NEW c, NEW p \in Paths
  PROVE  TreeOf(c)[p] \in Dev \cup {Absent}
BY DEF RepositoryType, TreeOf

\* The repository and the work tree.
LEMMA RepositoryTypeStep ==
  ASSUME RepositoryType, BackupType, PcInv, HeadInv, TodoInv, todo \subseteq Paths, Next
  PROVE  RepositoryType'
<1> USE DEF RepositoryType, repo
<1>1. ASSUME NEW r \in Runs, NEW p \in Paths, PutBack(r, p)
      PROVE  RepositoryType'
  BY <1>1 DEF PutBack, BackupType, AsideRecord, Object
<1>2. CASE Clone
  BY <1>2 DEF Clone, Heads
<1>3. ASSUME NEW p \in Paths, MoveAside(p)
      PROVE  RepositoryType'
  BY <1>3 DEF MoveAside, Object
<1>4. ASSUME NEW p \in Paths, ResetPath(p)
      PROVE  RepositoryType'
  <2>1. TreeOf(txn.target)[p] \in Object
    BY TreeType DEF Object, Content
  <2> QED
    BY <1>4, <2>1 DEF ResetPath
<1>5. CASE ResetHead
  <2>1. txn.target \in Heads
    BY <1>5 DEF ResetHead, PcInv, HeadInv, Terminal, Heads
  <2> QED
    BY <1>5, <2>1 DEF ResetHead
<1>6. ASSUME NEW p \in Paths, RestorePath(p)
      PROVE  RepositoryType'
  <2>1. capture[cur].files[p] \in Object
    BY <1>6 DEF RestorePath, TodoInv, PcInv, BackupType, CaptureRecord
  <2> QED
    BY <1>6, <2>1 DEF RestorePath, Mine
<1>7. CASE Push
  BY <1>7, BoundsAssumption DEF Push, Commits
<1>8. ASSUME NEW p \in Paths, Stage(p) \/ \E new \in Object : Edit(p, new)
      PROVE  RepositoryType'
  <2>1. CASE Stage(p)
    BY <2>1 DEF Stage
  <2>2. ASSUME NEW new \in Object, Edit(p, new)
        PROVE  RepositoryType'
    BY <2>2 DEF Edit
  <2> QED
    BY <1>8, <2>1, <2>2
<1>9. ASSUME UNCHANGED <<tree, upstream, repo, work>>
      PROVE  RepositoryType'
  BY <1>9
<1>10. CASE Launch
  BY <1>10, <1>9 DEF Launch
<1>11. CASE StayBlocked \/ RetainCapture \/ AbortBeforeApply \/ Block \/ Resume \/ RecoverDone
  BY <1>11, <1>9 DEF StayBlocked, RetainCapture, AbortBeforeApply, Block, Resume, RecoverDone
<1>12. ASSUME NEW r \in Runs, CloseAside(r) \/ Replay(r) \/ Prune(r)
       PROVE  RepositoryType'
  BY <1>12, <1>9 DEF CloseAside, Replay, Prune
<1>13. CASE Prepare \/ Equal \/ CollideDone \/ Capture \/ CopyDone
  BY <1>13, <1>9 DEF Prepare, Equal, CollideDone, Capture, CopyDone
<1>14. CASE Record \/ Check \/ Apply \/ MarkApplied \/ RestoreDone \/ Finish \/ Error \/ Crash
  BY <1>14, <1>9 DEF Record, Check, Apply, MarkApplied, RestoreDone, Finish, Error, Crash
<1>15. ASSUME NEW p \in Paths, Copy(p)
       PROVE  RepositoryType'
  BY <1>15, <1>9 DEF Copy
<1> QED
  BY <1>1, <1>2, <1>3, <1>4, <1>5, <1>6, <1>7, <1>8, <1>10, <1>11, <1>12, <1>13, <1>14, <1>15
  DEF Next, Recovery, Sync, Environment

\* The transaction, the captures and what is aside.
LEMMA BackupTypeStep ==
  ASSUME RepositoryType, BackupType, LoopType, PcInv, HeadInv, Next
  PROVE  BackupType'
<1> USE DEF backups
<1>1. ASSUME NEW r \in Runs, (\E p \in Paths : PutBack(r, p)) \/ CloseAside(r)
      PROVE  BackupType'
  <2>1. CASE CloseAside(r)
    BY <2>1 DEF CloseAside, BackupType, AsideRecord
  <2>2. ASSUME NEW p \in Paths, PutBack(r, p)
        PROVE  BackupType'
    <3>1. aside[r] \in AsideRecord
      BY DEF BackupType
    <3>2. [aside[r] EXCEPT !.files[p] = None] \in AsideRecord
      BY <3>1 DEF AsideRecord
    <3> QED
      BY <2>2, <3>2 DEF PutBack, BackupType
  <2> QED
    BY <1>1, <2>1, <2>2
<1>2. CASE RetainCapture
  <2>1. txn.local \in Runs /\ capture[txn.local] \in CaptureRecord
    BY <1>2 DEF RetainCapture, BackupType, TxnRecord
  <2>2. [capture[txn.local] EXCEPT !.status = "completed-capture-retained"] \in CaptureRecord
    BY <2>1 DEF CaptureRecord, CaptureStatus
  <2> QED
    BY <1>2, <2>1, <2>2 DEF RetainCapture, BackupType
<1>3. CASE AbortBeforeApply \/ Block \/ Resume \/ Equal \/ CollideDone \/ Apply \/ MarkApplied \/ Finish
  <2>1. ASSUME NEW state \in TxnState, Write(state), UNCHANGED <<capture, aside>>
        PROVE  BackupType'
    BY <2>1 DEF Write, BackupType, TxnRecord
  <2>2. {"aborted-before-apply", "recovery-blocked", "completed", "collisions-durable",
         "applying", "reset-applied"} \subseteq TxnState
    BY DEF TxnState, PreApply, Terminal
  <2> QED
    BY <1>3, <2>1, <2>2
    DEF AbortBeforeApply, Block, Resume, Equal, CollideDone, Apply, MarkApplied, Finish
<1>4. CASE Prepare
  BY <1>4 DEF Prepare, BackupType, RepositoryType, TxnRecord, TxnState, PreApply, Heads, PcInv, HeadInv
<1>5. ASSUME NEW p \in Paths, MoveAside(p)
      PROVE  BackupType'
  <2>1. CASE work[p] = Absent
    BY <1>5, <2>1 DEF MoveAside, BackupType
  <2>2. CASE work[p] # Absent
    <3>1. work[p] \in Content /\ run \in Runs
      BY <1>5, <2>2 DEF RepositoryType, Object, MoveAside, PcInv
    <3>2. aside[run].files \in [Paths -> Content \cup {None}]
      BY <3>1 DEF BackupType, AsideRecord
    <3>3. [status |-> "pending-collision", files |-> [aside[run].files EXCEPT ![p] = work[p]]]
            \in AsideRecord
      BY <3>1, <3>2 DEF AsideRecord
    <3> QED
      BY <1>5, <2>2, <3>1, <3>3 DEF MoveAside, BackupType
  <2> QED
    BY <2>1, <2>2
<1>6. CASE Capture
  <2>1. run \in Runs /\ head \in Commits /\ txn.target \in Commits
    BY <1>6, ValuesAssumption DEF Capture, PcInv, HeadInv, PreApply, Terminal
  <2>2. [NoCapture EXCEPT !.status = "pending", !.old = head, !.target = txn.target]
          \in CaptureRecord
    BY <2>1 DEF NoCapture, NoFiles, CaptureRecord, CaptureStatus
  <2> QED
    BY <1>6, <2>1, <2>2 DEF Capture, BackupType
<1>7. ASSUME NEW p \in Paths, Copy(p)
      PROVE  BackupType'
  <2>1. run \in Runs /\ capture[run] \in CaptureRecord
    BY <1>7 DEF Copy, PcInv, BackupType
  <2>2. work[p] \in Object /\ index[p] \in Object
    BY DEF RepositoryType
  <2>3. [capture[run] EXCEPT !.files[p] = work[p],
           !.staged[p] = IF p \in StagedPaths THEN index[p] ELSE None] \in CaptureRecord
    BY <2>1, <2>2 DEF CaptureRecord
  <2>4. capture' = [capture EXCEPT ![run] = [capture[run] EXCEPT !.files[p] = work[p],
           !.staged[p] = IF p \in StagedPaths THEN index[p] ELSE None]]
    BY <1>7, <2>1 DEF Copy, BackupType
  <2> QED
    BY <1>7, <2>1, <2>3, <2>4 DEF Copy, BackupType
<1>8. CASE Record
  BY <1>8 DEF Record, BackupType, TxnRecord, TxnState, PreApply, PcInv
<1>9. CASE RestoreDone
  <2>1. cur \in Runs /\ capture[cur] \in CaptureRecord
    BY <1>9 DEF RestoreDone, PcInv, BackupType
  <2>2. RestoredStatus(capture[cur]) \in CaptureStatus
    BY <2>1 DEF RestoredStatus, CaptureStatus, CaptureRecord, LoopType
  <2>3. [capture[cur] EXCEPT !.status = RestoredStatus(capture[cur])] \in CaptureRecord
    BY <2>1, <2>2 DEF CaptureRecord
  <2> QED
    BY <1>9, <2>1, <2>3 DEF RestoreDone, BackupType
<1>10. ASSUME NEW r \in Runs, Prune(r)
       PROVE  BackupType'
  <2>1. NoCapture \in CaptureRecord
    BY DEF NoCapture, NoFiles, CaptureRecord, CaptureStatus
  <2> QED
    BY <1>10, <2>1 DEF Prune, BackupType
<1>11. ASSUME UNCHANGED backups
       PROVE  BackupType'
  BY <1>11 DEF BackupType
<1>12. CASE Launch \/ StayBlocked \/ RecoverDone \/ Clone \/ CopyDone \/ Check \/ ResetHead
  BY <1>12, <1>11 DEF Launch, StayBlocked, RecoverDone, Clone, CopyDone, Check, ResetHead
<1>13. ASSUME NEW r \in Runs, Replay(r)
       PROVE  BackupType'
  BY <1>13, <1>11 DEF Replay
<1>14. ASSUME NEW p \in Paths,
              ResetPath(p) \/ RestorePath(p) \/ Stage(p) \/ \E new \in Object : Edit(p, new)
       PROVE  BackupType'
  BY <1>14, <1>11 DEF ResetPath, RestorePath, Stage, Edit
<1>15. CASE Error \/ Crash \/ Push
  BY <1>15, <1>11 DEF Error, Crash, Push
<1> QED
  BY <1>1, <1>2, <1>3, <1>4, <1>5, <1>6, <1>7, <1>8, <1>9, <1>10, <1>12, <1>13, <1>14, <1>15
  DEF Next, Recovery, Sync, Environment

\* Where the run is.
LEMMA LoopTypeStep ==
  ASSUME LoopType, txn \in TxnRecord, Next
  PROVE  LoopType'
<1>1. ASSUME End \/ Handle, UNCHANGED run
      PROVE  LoopType'
  BY <1>1 DEF End, Handle, Goto, LoopType, PC
<1>2. ASSUME Recovered, UNCHANGED run
      PROVE  LoopType'
  BY <1>2 DEF End, Recovered, Goto, LoopType, PC
<1>3. CASE StayBlocked \/ Block \/ Equal \/ Finish \/ Error \/ Crash
  BY <1>3, <1>1 DEF StayBlocked, Block, Equal, Finish, Error, Crash
<1>4. CASE AbortBeforeApply \/ RecoverDone
  BY <1>4, <1>2 DEF AbortBeforeApply, RecoverDone
<1>5. CASE Check
  BY <1>5, <1>1 DEF Check, Goto, LoopType, PC, loop
<1>6. CASE Launch
  BY <1>6, BoundsAssumption DEF Launch, Goto, LoopType, PC, loop
<1>7. ASSUME NEW r \in Runs, Replay(r)
      PROVE  LoopType'
  BY <1>7 DEF Replay, Goto, LoopType, PC
<1>8. CASE Clone \/ CopyDone \/ Record \/ CollideDone
  BY <1>8 DEF Clone, CopyDone, Record, CollideDone, Goto, LoopType, PC, loop
<1>9. CASE Prepare
  BY <1>9 DEF Prepare, Goto, LoopType, PC, Collisions
<1>10. CASE Capture
  BY <1>10 DEF Capture, Goto, LoopType, PC, Changes, StagedPaths
<1>11. CASE Apply
  BY <1>11 DEF Apply, Goto, LoopType, PC
<1>12. CASE MarkApplied
  <2>1. txn.local \in Runs \cup {0}
    BY DEF TxnRecord
  <2> QED
    BY <1>12, <2>1 DEF MarkApplied, Goto, LoopType, PC
<1>13. CASE RestoreDone
  BY <1>13 DEF RestoreDone, Goto, LoopType, PC
<1>14. ASSUME NEW p \in Paths, MoveAside(p) \/ Copy(p) \/ ResetPath(p) \/ RestorePath(p)
       PROVE  LoopType'
  BY <1>14 DEF MoveAside, Copy, ResetPath, RestorePath, LoopType
<1>15. ASSUME NEW p \in Paths, Stage(p) \/ \E new \in Object : Edit(p, new)
       PROVE  LoopType'
  BY <1>15 DEF Stage, Edit, LoopType, loop
<1>16. ASSUME UNCHANGED <<run, pc, failing, loop>>
       PROVE  LoopType'
  BY <1>16 DEF LoopType, loop
<1>17. CASE RetainCapture \/ Resume \/ ResetHead \/ Push
  BY <1>17, <1>16 DEF RetainCapture, Resume, ResetHead, Push
<1>18. ASSUME NEW r \in Runs,
              CloseAside(r) \/ Prune(r) \/ \E p \in Paths : PutBack(r, p)
       PROVE  LoopType'
  BY <1>18, <1>16 DEF CloseAside, Prune, PutBack
<1> QED
  BY <1>3, <1>4, <1>5, <1>6, <1>7, <1>8, <1>9, <1>10, <1>11, <1>12, <1>13, <1>14, <1>15, <1>17, <1>18
  DEF Next, Recovery, Sync, Environment

\* The edits, and those since the signature.
LEMMA EditTypeStep ==
  ASSUME EditType, MtimeInv, Next
  PROVE  EditType' /\ MtimeInv'
<1>1. ASSUME UNCHANGED edits, mtime' = Unedited \/ UNCHANGED mtime
      PROVE  EditType' /\ MtimeInv'
  BY <1>1, BoundsAssumption DEF EditType, MtimeInv, Unedited
<1>2. ASSUME NEW p \in Paths, NEW new \in Object, Edit(p, new)
      PROVE  EditType' /\ MtimeInv'
  <2>1. edits' = edits + 1 /\ edits' \in 0 .. MaxEdits
    BY <1>2, BoundsAssumption DEF Edit, EditType
  <2>2. mtime[p] + 1 \in 0 .. MaxEdits /\ mtime[p] + 1 <= edits'
    BY <1>2, <2>1, BoundsAssumption DEF Edit, EditType, MtimeInv
  <2>3. mtime' = mtime \/ mtime' = [mtime EXCEPT ![p] = mtime[p] + 1]
    BY <1>2 DEF Edit
  <2> QED
    BY <2>1, <2>2, <2>3, BoundsAssumption DEF EditType, MtimeInv
<1>3. CASE Recovery
  <2>1. CASE StayBlocked \/ Block \/ AbortBeforeApply \/ RecoverDone
    BY <2>1, <1>1 DEF StayBlocked, Block, AbortBeforeApply, RecoverDone, End, Handle, Recovered, user
  <2>2. CASE RetainCapture \/ Resume
    BY <2>2, <1>1 DEF RetainCapture, Resume, user, loop
  <2>3. ASSUME NEW r \in Runs, CloseAside(r) \/ Replay(r) \/ \E p \in Paths : PutBack(r, p)
        PROVE  EditType' /\ MtimeInv'
    BY <2>3, <1>1 DEF CloseAside, Replay, PutBack, user, loop
  <2> QED
    BY <1>3, <2>1, <2>2, <2>3 DEF Recovery
<1>4. CASE Sync
  <2>1. CASE Equal \/ Check \/ Finish \/ MarkApplied
    BY <2>1, <1>1 DEF Equal, Check, Finish, MarkApplied, End, Handle, user, loop
  <2>2. CASE Clone \/ Prepare \/ CollideDone \/ Capture \/ CopyDone
    BY <2>2, <1>1 DEF Clone, Prepare, CollideDone, Capture, CopyDone, user, loop
  <2>3. CASE Record \/ Apply \/ ResetHead \/ RestoreDone
    BY <2>3, <1>1 DEF Record, Apply, ResetHead, RestoreDone, user, loop
  <2>4. ASSUME NEW p \in Paths, MoveAside(p) \/ Copy(p) \/ ResetPath(p) \/ RestorePath(p)
        PROVE  EditType' /\ MtimeInv'
    BY <2>4, <1>1 DEF MoveAside, Copy, ResetPath, RestorePath, user
  <2> QED
    BY <1>4, <2>1, <2>2, <2>3, <2>4 DEF Sync
<1>5. CASE Launch \/ Error \/ Crash \/ Push
  BY <1>5, <1>1 DEF Launch, Error, Crash, Push, End, Handle, user, loop
<1>6. CASE (\E r \in Runs : Prune(r)) \/ (\E p \in Paths : Stage(p))
  BY <1>6, <1>1 DEF Prune, Stage, user, loop
<1> QED
  BY <1>2, <1>3, <1>4, <1>5, <1>6 DEF Next, Environment

\* The user's history, and the faults.
LEMMA UserTypeStep ==
  ASSUME UserType, RepositoryType, todo \subseteq Paths, Next
  PROVE  UserType'
<1>1. ASSUME Fault
      PROVE  faults' \in 0 .. MaxFaults
  BY <1>1, BoundsAssumption DEF Fault, UserType
<1>2. ASSUME UNCHANGED <<user, unrestored, half>>, faults' = faults \/ Fault
      PROVE  UserType'
  BY <1>1, <1>2 DEF user, UserType
<1>3. ASSUME NEW p \in Paths, Stage(p)
      PROVE  UserType'
  <2>1. work[p] \in Object
    BY DEF RepositoryType
  <2>2. stages < MaxStages /\ stages' = stages + 1 /\ stages \in 0 .. MaxStages
    BY <1>3 DEF Stage, UserType
  <2>3. stages' \in 0 .. MaxStages
    BY <2>2, BoundsAssumption
  <2> QED
    BY <1>3, <2>1, <2>3 DEF Stage, UserType, history
<1>4. ASSUME NEW p \in Paths, NEW new \in Object, Edit(p, new)
      PROVE  UserType'
  BY <1>4 DEF Edit, UserType
<1>5. ASSUME NEW p \in Paths, ResetPath(p)
      PROVE  UserType'
  BY <1>5 DEF ResetPath, UserType, user
<1>6. CASE ResetHead
  BY <1>6 DEF ResetHead, UserType, user
<1>7. ASSUME NEW p \in Paths, RestorePath(p)
      PROVE  UserType'
  BY <1>1, <1>7 DEF RestorePath, UserType, user
<1> USE DEF history
<1>8. CASE Recovery
  <2>1. CASE StayBlocked \/ Block \/ AbortBeforeApply \/ RecoverDone \/ RetainCapture \/ Resume
    BY <2>1, <1>2 DEF StayBlocked, Block, AbortBeforeApply, RecoverDone, RetainCapture, Resume
  <2>2. ASSUME NEW r \in Runs, Replay(r) \/ \E p \in Paths : PutBack(r, p)
        PROVE  UserType'
    BY <2>2, <1>2 DEF Replay, PutBack
  <2>3. ASSUME NEW r \in Runs, CloseAside(r)
        PROVE  UserType'
    <3>1. unrestored' \subseteq Paths /\ UNCHANGED <<user, half>>
      BY <2>3 DEF CloseAside, UserType
    <3>2. faults' \in 0 .. MaxFaults
      BY <2>3, <1>1 DEF CloseAside, UserType
    <3> QED
      BY <3>1, <3>2 DEF UserType, user
  <2> QED
    BY <1>8, <2>1, <2>2, <2>3 DEF Recovery
<1>9. CASE Sync
  <2>1. CASE Equal \/ Check \/ Finish \/ MarkApplied \/ Clone \/ Prepare
    BY <2>1, <1>2 DEF Equal, Check, Finish, MarkApplied, Clone, Prepare
  <2>2. CASE CollideDone \/ Capture \/ CopyDone \/ Record \/ Apply \/ RestoreDone
    BY <2>2, <1>2 DEF CollideDone, Capture, CopyDone, Record, Apply, RestoreDone
  <2>3. ASSUME NEW p \in Paths, MoveAside(p) \/ Copy(p)
        PROVE  UserType'
    BY <2>3, <1>2 DEF MoveAside, Copy
  <2> QED
    BY <1>5, <1>6, <1>7, <1>9, <2>1, <2>2, <2>3 DEF Sync
<1>10. CASE Launch \/ Error \/ Crash \/ Push
  BY <1>10, <1>2 DEF Launch, Error, Crash, Push
<1>11. ASSUME NEW r \in Runs, Prune(r)
       PROVE  UserType'
  BY <1>11, <1>2 DEF Prune
<1> QED
  BY <1>3, <1>4, <1>8, <1>9, <1>10, <1>11 DEF Next, Environment

\* The journal and the place of the run.
LEMMA PcStep ==
  ASSUME PcInv, txn \in TxnRecord, run \in 0 .. MaxRuns, Next
  PROVE  PcInv'
<1> USE DEF PcInv
<1>1. ASSUME End \/ Handle, UNCHANGED <<run, txn>>, pc # "off"
      PROVE  PcInv'
  <2>1. pc' \in {"off", "recover"} /\ (failing' => pc' = "recover")
    BY <1>1 DEF End, Handle, Goto
  <2> QED
    BY <1>1, <2>1
<1>2. ASSUME UNCHANGED <<run, txn, pc, failing, cur>>
      PROVE  PcInv'
  BY <1>2
<1>3. CASE Recovery
  <2> USE DEF Terminal, PreApply, Write, TxnRecord
  <2>1. CASE StayBlocked
    BY <2>1, <1>1 DEF StayBlocked, backups
  <2>2. CASE Block
    BY <2>2 DEF Block, Handle, End, Goto, Resolving, Recovering
  <2>3. CASE AbortBeforeApply \/ RecoverDone
    BY <2>3 DEF AbortBeforeApply, RecoverDone, Recovered, End, Goto, Resolving, Recovering, backups
  <2>4. CASE RetainCapture \/ \E r \in Runs : CloseAside(r) \/ \E p \in Paths : PutBack(r, p)
    BY <2>4, <1>2 DEF RetainCapture, CloseAside, PutBack, loop
  <2>5. ASSUME NEW r \in Runs, Replay(r)
        PROVE  PcInv'
    BY <2>5 DEF Replay, Replayable, Resolving, Recovering, Goto, backups
  <2>6. CASE Resume
    BY <2>6 DEF Resume, Resolving, Recovering, loop
  <2> QED
    BY <1>3, <2>1, <2>2, <2>3, <2>4, <2>5, <2>6 DEF Recovery
<1>4. CASE Sync
  <2> USE DEF Goto
  <2>1. CASE Clone \/ Prepare
    BY <2>1 DEF Clone, Prepare, backups, loop
  <2>2. CASE Equal \/ Finish
    BY <2>2 DEF Equal, Finish, End, Write, TxnRecord
  <2>3. CASE CollideDone
    BY <2>3 DEF CollideDone, Write, loop, TxnRecord
  <2>4. CASE Capture \/ CopyDone
    BY <2>4 DEF Capture, CopyDone, loop, backups
  <2>5. CASE Record
    <3>1. txn'.state = "snapshot-durable" /\ pc' = "check" /\ UNCHANGED <<run, failing, cur>>
      BY <2>5 DEF Record, loop, TxnRecord
    <3> QED
      BY <2>5, <3>1 DEF Record
  <2>10. CASE Apply
    BY <2>10 DEF Apply, loop, Write, TxnRecord
  <2>6. CASE Check
    BY <2>6 DEF Check, Handle, End, loop, backups
  <2>7. CASE MarkApplied
    BY <2>7 DEF MarkApplied, Write, TxnRecord
  <2>8. CASE RestoreDone
    BY <2>8 DEF RestoreDone
  <2>9. CASE ResetHead \/ \E p \in Paths : MoveAside(p) \/ Copy(p) \/ ResetPath(p) \/ RestorePath(p)
    BY <2>9, <1>2 DEF ResetHead, MoveAside, Copy, ResetPath, RestorePath, loop, backups
  <2> QED
    BY <1>4, <2>1, <2>2, <2>3, <2>4, <2>5, <2>6, <2>7, <2>8, <2>9, <2>10 DEF Sync
<1>5. CASE Launch
  BY <1>5, BoundsAssumption DEF Launch, Goto, backups, loop, Runs
<1>6. CASE Error \/ Crash
  BY <1>6, <1>1 DEF Error, Crash, backups, Terminal
<1>7. CASE Push \/ (\E r \in Runs : Prune(r)) \/ \E p \in Paths : Stage(p) \/ \E new \in Object : Edit(p, new)
  BY <1>7, <1>2 DEF Push, Prune, Stage, Edit, backups, loop
<1> QED
  BY <1>3, <1>4, <1>5, <1>6, <1>7 DEF Next, Environment

\* The commits of the transaction.
LEMMA HeadStep ==
  ASSUME HeadInv, PcInv, txn \in TxnRecord, upstream \in Commits, head \in Heads, Next
  PROVE  HeadInv'
<1> USE DEF HeadInv, repo
<1>1. ASSUME pc' \in {"off", "recover", "sync", "replay"}, UNCHANGED <<head, txn>>
      PROVE  HeadInv'
  BY <1>1
<1>2. ASSUME UNCHANGED <<head, txn, pc>>
      PROVE  HeadInv'
  BY <1>2
<1>3. CASE Recovery
  <2>1. CASE StayBlocked \/ RecoverDone
    BY <2>1, <1>1 DEF StayBlocked, RecoverDone, Recovered, End, Goto, backups
  <2>2. CASE Block
    <3>1. pc' \in {"off", "recover"} /\ UNCHANGED head /\ txn' = [txn EXCEPT !.state = "recovery-blocked"]
      BY <2>2 DEF Block, Handle, End, Goto, Write
    <3> QED
      BY <2>2, <3>1 DEF Block, TxnRecord, PreApply, Terminal
  <2>3. CASE AbortBeforeApply
    <3>1. pc' \in {"off", "sync"} /\ UNCHANGED head /\ txn' = [txn EXCEPT !.state = "aborted-before-apply"]
      BY <2>3 DEF AbortBeforeApply, Recovered, End, Goto, Write
    <3> QED
      BY <3>1 DEF TxnRecord, PreApply, Terminal
  <2>4. CASE RetainCapture \/ \E r \in Runs : CloseAside(r) \/ \E p \in Paths : PutBack(r, p)
    BY <2>4, <1>2 DEF RetainCapture, CloseAside, PutBack
  <2>5. ASSUME NEW r \in Runs, Replay(r)
        PROVE  HeadInv'
    BY <2>5, <1>1 DEF Replay, Goto, backups
  <2>6. CASE Resume
    BY <2>6 DEF Resume, Resolving, Recovering, Write, TxnRecord, PreApply, Terminal
  <2> QED
    BY <1>3, <2>1, <2>2, <2>3, <2>4, <2>5, <2>6 DEF Recovery
<1>4. CASE Sync
  <2> USE DEF Goto, TxnRecord, PreApply, Terminal
  <2>1. CASE Clone
    BY <2>1, ValuesAssumption DEF Clone, PcInv, backups
  <2>2. CASE Prepare
    BY <2>2 DEF Prepare, PcInv, Heads
  <2>3. CASE Equal \/ Finish
    BY <2>3 DEF Equal, Finish, End, Write
  <2>4. CASE CollideDone
    BY <2>4 DEF CollideDone, PcInv, Write
  <2>5. CASE Capture \/ CopyDone
    BY <2>5 DEF Capture, CopyDone, backups
  <2>6. CASE Record
    <3>1. txn'.state = "snapshot-durable" /\ txn'.target = txn.target /\ txn'.old = txn.old
      BY <2>6 DEF Record
    <3> QED
      BY <2>6, <3>1 DEF Record, PcInv
  <2>7. CASE Apply
    BY <2>7 DEF Apply, PcInv, Write
  <2>8. CASE Check
    BY <2>8 DEF Check, Handle, End, backups
  <2>9. CASE MarkApplied
    BY <2>9 DEF MarkApplied, PcInv, Write
  <2>10. CASE RestoreDone
    BY <2>10 DEF RestoreDone
  <2>11. CASE ResetHead
    BY <2>11 DEF ResetHead, PcInv, backups
  <2>12. ASSUME NEW p \in Paths, MoveAside(p) \/ Copy(p) \/ ResetPath(p) \/ RestorePath(p)
         PROVE  HeadInv'
    BY <2>12, <1>2 DEF MoveAside, Copy, ResetPath, RestorePath, backups
  <2> QED
    BY <1>4, <2>1, <2>2, <2>3, <2>4, <2>5, <2>6, <2>7, <2>8, <2>9, <2>10, <2>11, <2>12 DEF Sync
<1>5. CASE Launch \/ Error \/ Crash
  BY <1>5, <1>1 DEF Launch, Error, Crash, Handle, End, Goto, backups
<1>6. CASE Push \/ (\E r \in Runs : Prune(r)) \/ \E p \in Paths : Stage(p) \/ \E new \in Object : Edit(p, new)
  BY <1>6, <1>2 DEF Push, Prune, Stage, Edit, backups
<1> QED
  BY <1>3, <1>4, <1>5, <1>6 DEF Next, Environment

\* How far a reset is.
LEMMA HalfStep ==
  ASSUME HalfInv, PcInv, txn \in TxnRecord, Next
  PROVE  HalfInv'
<1> USE DEF HalfInv, InDoubt
<1>1. ASSUME UNCHANGED <<half, txn>>, pc' # "reset"
      PROVE  HalfInv'
  BY <1>1
<1>2. ASSUME UNCHANGED <<half, txn, head, todo, pc>>
      PROVE  HalfInv'
  BY <1>2
<1>3. ASSUME ~half, UNCHANGED half
      PROVE  HalfInv'
  BY <1>3
<1> USE DEF repo, backups, loop, history, Goto
<1>4. CASE Recovery
  <2> USE DEF Resolving, Recovering
  <2>1. CASE StayBlocked \/ RecoverDone
    BY <2>1, <1>1 DEF StayBlocked, RecoverDone, Recovered, End
  <2>2. CASE Block
    BY <2>2 DEF Block, Handle, End, Write, TxnRecord
  <2>3. CASE AbortBeforeApply \/ Resume
    BY <2>3, <1>3 DEF AbortBeforeApply, Resume, Resumable, PreApply
  <2>4. CASE RetainCapture \/ \E r \in Runs : CloseAside(r) \/ \E p \in Paths : PutBack(r, p)
    BY <2>4, <1>2 DEF RetainCapture, CloseAside, PutBack
  <2>5. ASSUME NEW r \in Runs, Replay(r)
        PROVE  HalfInv'
    BY <2>5, <1>1 DEF Replay
  <2> QED
    BY <1>4, <2>1, <2>2, <2>3, <2>4, <2>5 DEF Recovery
<1>5. CASE Sync
  <2> USE DEF PcInv, Terminal
  <2>1. CASE Clone \/ Capture \/ CopyDone \/ RestoreDone \/ Check
    BY <2>1, <1>1 DEF Clone, Capture, CopyDone, RestoreDone, Check, Handle, End
  <2>2. CASE Prepare \/ Equal \/ Finish \/ CollideDone \/ Record \/ Apply
    BY <2>2, <1>3 DEF Prepare, Equal, Finish, CollideDone, Record, Apply
  <2>3. CASE MarkApplied
    BY <2>3, <1>3 DEF MarkApplied
  <2>4. CASE ResetHead
    BY <2>4 DEF ResetHead
  <2>5. ASSUME NEW p \in Paths, ResetPath(p)
        PROVE  HalfInv'
    BY <2>5 DEF ResetPath
  <2>6. ASSUME NEW p \in Paths, MoveAside(p) \/ Copy(p) \/ RestorePath(p)
        PROVE  HalfInv'
    BY <2>6, <1>1 DEF MoveAside, Copy, RestorePath
  <2> QED
    BY <1>5, <2>1, <2>2, <2>3, <2>4, <2>5, <2>6 DEF Sync
<1>6. CASE Launch \/ Error \/ Crash
  BY <1>6, <1>1 DEF Launch, Error, Crash, Handle, End
<1>7. CASE Push \/ (\E r \in Runs : Prune(r)) \/ \E p \in Paths : Stage(p) \/ \E new \in Object : Edit(p, new)
  BY <1>7, <1>2 DEF Push, Prune, Stage, Edit
<1> QED
  BY <1>4, <1>5, <1>6, <1>7 DEF Next, Environment

\* What is restored.
LEMMA TodoStep ==
  ASSUME TodoInv, PcInv, txn \in TxnRecord, Next
  PROVE  TodoInv'
<1> USE DEF TodoInv, Goto, backups, loop, history
<1>1. ASSUME pc' \notin {"restore", "replay"}
      PROVE  TodoInv'
  BY <1>1
<1>2. ASSUME UNCHANGED <<pc, cur, capture>>, todo' \subseteq todo
      PROVE  TodoInv'
  BY <1>2
<1>3. CASE Recovery
  <2>1. ASSUME NEW r \in Runs, Replay(r)
        PROVE  TodoInv'
    BY <2>1 DEF Replay
  <2>2. CASE StayBlocked \/ RecoverDone \/ Block \/ AbortBeforeApply \/ Resume \/ RetainCapture
    BY <2>2, <1>1 DEF StayBlocked, RecoverDone, Block, AbortBeforeApply, Resume, RetainCapture,
       Recovered, Handle, End, Resolving, Recovering
  <2>3. CASE \E r \in Runs : CloseAside(r) \/ \E p \in Paths : PutBack(r, p)
    BY <2>3, <1>1 DEF CloseAside, PutBack, Recovering
  <2> QED
    BY <1>3, <2>1, <2>2, <2>3 DEF Recovery
<1>4. CASE Sync
  <2>1. CASE MarkApplied
    BY <2>1 DEF MarkApplied
  <2>2. CASE Clone \/ Prepare \/ Equal \/ CollideDone \/ Capture \/ CopyDone
    BY <2>2, <1>1 DEF Clone, Prepare, Equal, CollideDone, Capture, CopyDone, End
  <2>3. CASE Record \/ Check \/ Apply \/ ResetHead \/ RestoreDone \/ Finish
    BY <2>3, <1>1 DEF Record, Check, Apply, ResetHead, RestoreDone, Finish, Handle, End
  <2>4. ASSUME NEW p \in Paths, MoveAside(p) \/ Copy(p) \/ ResetPath(p)
        PROVE  TodoInv'
    BY <2>4, <1>1 DEF MoveAside, Copy, ResetPath
  <2>5. ASSUME NEW p \in Paths, RestorePath(p)
        PROVE  TodoInv'
    BY <2>5, <1>2 DEF RestorePath
  <2> QED
    BY <1>4, <2>1, <2>2, <2>3, <2>4, <2>5 DEF Sync
<1>5. CASE Launch \/ Error \/ Crash \/ \E r \in Runs : Prune(r)
  BY <1>5, <1>1 DEF Launch, Error, Crash, Prune, Handle, End
<1>6. CASE Push \/ \E p \in Paths : Stage(p) \/ \E new \in Object : Edit(p, new)
  BY <1>6, <1>2 DEF Push, Stage, Edit
<1> QED
  BY <1>3, <1>4, <1>5, <1>6 DEF Next, Environment

-----------------------------------------------------------------------------
(* The invariant and what follows from it.                                   *)

LEMMA InitTxnInv ==
  ASSUME Init
  PROVE  TxnInv
<1> USE DEF Init
<1>1. RepositoryType
  <2>1. head \in Heads /\ upstream \in Commits
    BY BoundsAssumption DEF Heads, Commits
  <2>2. TreeOf(head) \in [Paths -> Object]
    BY DEF TreeOf, Object, Content
  <2> QED
    BY <2>1, <2>2 DEF RepositoryType
<1>2. BackupType
  BY DEF BackupType, TxnRecord, TxnState, Terminal, CaptureRecord, CaptureStatus, AsideRecord,
     NoCapture, NoAside, NoFiles
<1>3. LoopType
  <2>1. /\ run = 0 /\ pc = "off" /\ failing = FALSE /\ todo = {} /\ replayed = {} /\ cur = 0
        /\ outcome = "restored"
    OBVIOUS
  <2>2. 0 \in 0 .. MaxRuns
    BY BoundsAssumption
  <2> QED
    BY <2>1, <2>2 DEF LoopType, PC
<1>4. EditType /\ MtimeInv
  BY BoundsAssumption DEF EditType, MtimeInv, Unedited
<1>5. UserType
  <2>1. /\ authored = NoFiles /\ staged = NoFiles /\ touched = {} /\ unrestored = {}
        /\ half = FALSE /\ stages = 0 /\ faults = 0
    OBVIOUS
  <2>2. 0 \in 0 .. MaxStages /\ 0 \in 0 .. MaxFaults
    BY BoundsAssumption
  <2> QED
    BY <2>1, <2>2 DEF UserType, NoFiles
<1>6. PcInv /\ HeadInv /\ HalfInv /\ TodoInv
  BY DEF PcInv, HeadInv, HalfInv, TodoInv, Terminal, PreApply
<1> QED
  BY <1>1, <1>2, <1>3, <1>4, <1>5, <1>6 DEF TxnInv, TypeOK

LEMMA NextTxnInv ==
  ASSUME TxnInv, Next
  PROVE  TxnInv'
<1> USE DEF TxnInv, TypeOK
<1>1. /\ txn \in TxnRecord /\ todo \subseteq Paths /\ run \in 0 .. MaxRuns
      /\ upstream \in Commits /\ head \in Heads
  BY DEF BackupType, LoopType, RepositoryType
<1>2. RepositoryType' /\ BackupType' /\ LoopType'
  BY <1>1, RepositoryTypeStep, BackupTypeStep, LoopTypeStep
<1>3. EditType' /\ UserType' /\ MtimeInv'
  BY <1>1, EditTypeStep, UserTypeStep
<1>4. PcInv' /\ HeadInv' /\ HalfInv' /\ TodoInv'
  BY <1>1, PcStep, HeadStep, HalfStep, TodoStep
<1> QED
  BY <1>2, <1>3, <1>4

LEMMA StutterTxnInv ==
  ASSUME TxnInv, UNCHANGED vars
  PROVE  TxnInv'
<1> USE DEF TxnInv, TypeOK, vars, repo, backups, loop, user, history
<1>1. RepositoryType' /\ BackupType' /\ LoopType' /\ EditType' /\ UserType'
  BY DEF RepositoryType, BackupType, LoopType, EditType, UserType
<1>2. PcInv' /\ HeadInv' /\ HalfInv' /\ TodoInv' /\ MtimeInv'
  BY DEF PcInv, HeadInv, HalfInv, TodoInv, MtimeInv
<1> QED
  BY <1>1, <1>2

\* At each place of a run the journal, HEAD and the reset are as far as it says.
THEOREM TxnInvariance == Spec => []TxnInv
<1>1. Init => TxnInv
  BY InitTxnInv
<1>2. TxnInv /\ [Next]_vars => TxnInv'
  BY NextTxnInv, StutterTxnInv
<1> QED
  BY <1>1, <1>2, PTL DEF Spec

\* Every variable keeps its type.
THEOREM TypeCorrect == Spec => []TypeOK
<1>1. TxnInv => TypeOK
  BY DEF TxnInv
<1> QED
  BY <1>1, TxnInvariance, PTL

\* An interrupted reset is never taken for a completed one.
THEOREM HalfResetBlocked == Spec => []HalfResetIsBlocked
<1>1. TxnInv => HalfResetIsBlocked
  BY DEF TxnInv, HalfInv, InDoubt, HalfResetIsBlocked
<1> QED
  BY <1>1, TxnInvariance, PTL

\* A blocked transaction freezes the repository.
Frozen ==
  /\ UNCHANGED <<txn, head, aside>>
  /\ UNCHANGED <<work, index>> \/ edits' > edits \/ stages' > stages

THEOREM BlockedFrozen == Spec => BlockedIsFrozen
<1>1. ASSUME TxnInv, txn.state = "recovery-blocked", Next
      PROVE  Frozen
  <2> USE DEF Frozen, repo, backups, user
  <2>1. pc \in {"off", "recover"} /\ ~Recovering /\ ~Resolving
    BY <1>1 DEF TxnInv, PcInv, Recovering, Resolving
  <2>2. CASE Recovery
    BY <2>1, <2>2 DEF Recovery, StayBlocked, RetainCapture, AbortBeforeApply, Block, Resume,
       RecoverDone, CloseAside, Replay, PutBack
  <2>3. ~Sync
    <3>1. ~(Clone \/ Prepare \/ Equal \/ CollideDone \/ Capture \/ CopyDone)
      BY <2>1 DEF Clone, Prepare, Equal, CollideDone, Capture, CopyDone
    <3>2. ~(Record \/ Check \/ Apply \/ ResetHead \/ MarkApplied \/ RestoreDone \/ Finish)
      BY <2>1 DEF Record, Check, Apply, ResetHead, MarkApplied, RestoreDone, Finish
    <3>3. \A p \in Paths : ~(MoveAside(p) \/ Copy(p) \/ ResetPath(p) \/ RestorePath(p))
      BY <2>1 DEF MoveAside, Copy, ResetPath, RestorePath
    <3> QED
      BY <3>1, <3>2, <3>3 DEF Sync
  <2>4. CASE Launch \/ Error \/ Crash \/ Push \/ \E r \in Runs : Prune(r)
    BY <2>4 DEF Launch, Error, Crash, Push, Prune
  <2>5. ASSUME NEW p \in Paths, NEW new \in Object, Edit(p, new)
        PROVE  Frozen
    <3>1. edits' = edits + 1 /\ UNCHANGED <<txn, head, aside>>
      BY <2>5 DEF Edit
    <3>2. edits \in Nat
      BY <1>1, BoundsAssumption DEF TxnInv, TypeOK, EditType
    <3> QED
      BY <3>1, <3>2
  <2>6. ASSUME NEW p \in Paths, Stage(p)
        PROVE  Frozen
    <3>1. stages' = stages + 1 /\ UNCHANGED <<txn, head, aside>>
      BY <2>6 DEF Stage
    <3>2. stages \in Nat
      BY <1>1, BoundsAssumption DEF TxnInv, TypeOK, UserType
    <3> QED
      BY <3>1, <3>2
  <2> QED
    BY <1>1, <2>2, <2>3, <2>4, <2>5, <2>6 DEF Next, Environment
<1>2. TxnInv /\ [Next]_vars => [txn.state = "recovery-blocked" => Frozen]_vars
  BY <1>1
<1> QED
  BY <1>2, TxnInvariance, PTL DEF Spec, BlockedIsFrozen, Frozen

-----------------------------------------------------------------------------
(* What a sync does to the files the user never changed.                     *)

\* The history only grows, and the repository is there from the start.
LEMMA UntouchedRepoStep ==
  ASSUME TxnInv, UntouchedInv, Next
  PROVE  /\ head' # NoRepo /\ pc' # "cloned" /\ unrestored' \subseteq touched'
         /\ touched \subseteq touched'
<1> DEFINE Kept == /\ head' # NoRepo /\ pc' # "cloned" /\ unrestored' \subseteq touched'
                   /\ touched \subseteq touched'
<1> USE DEF UntouchedInv, repo, user, loop, history, Goto
<1>1. ASSUME UNCHANGED <<head, unrestored, touched>>, pc' # "cloned"
      PROVE  Kept
  BY <1>1
<1>2. CASE Recovery
  <2>1. CASE StayBlocked \/ RecoverDone \/ Block \/ AbortBeforeApply \/ Resume \/ RetainCapture
    BY <2>1, <1>1 DEF StayBlocked, RecoverDone, Block, AbortBeforeApply, Resume, RetainCapture,
       Recovered, Handle, End
  <2>2. CASE \E r \in Runs : Replay(r) \/ \E p \in Paths : PutBack(r, p)
    BY <2>2, <1>1 DEF Replay, PutBack
  <2>3. ASSUME NEW r \in Runs, CloseAside(r)
        PROVE  Kept
    <3>1. \A p \in Paths : aside[r].files[p] # None => p \in touched
      BY DEF UntouchedBackup
    <3>2. unrestored' \subseteq touched
      BY <2>3, <3>1 DEF CloseAside
    <3>3. UNCHANGED <<head, pc, touched>>
      BY <2>3 DEF CloseAside
    <3> QED
      BY <3>2, <3>3
  <2> QED
    BY <1>2, <2>1, <2>2, <2>3 DEF Recovery
<1>3. CASE Sync
  <2>1. CASE Prepare \/ Equal \/ CollideDone \/ Capture \/ CopyDone
    BY <2>1, <1>1 DEF Prepare, Equal, CollideDone, Capture, CopyDone, End
  <2>2. CASE Record \/ Check \/ Apply \/ MarkApplied \/ RestoreDone \/ Finish
    BY <2>2, <1>1 DEF Record, Check, Apply, MarkApplied, RestoreDone, Finish, Handle, End
  <2>3. ~Clone
    BY DEF Clone
  <2>4. CASE ResetHead
    <3>1. txn.target \in Commits
      BY <2>4 DEF ResetHead, TxnInv, PcInv, HeadInv, Terminal
    <3> QED
      BY <2>4, <3>1, ValuesAssumption DEF ResetHead
  <2>5. ASSUME NEW p \in Paths, MoveAside(p) \/ Copy(p) \/ ResetPath(p)
        PROVE  Kept
    BY <2>5, <1>1 DEF MoveAside, Copy, ResetPath
  <2>6. ASSUME NEW p \in Paths, RestorePath(p)
        PROVE  Kept
    <3>1. p \in touched
      BY <2>6 DEF RestorePath, UntouchedTodo
    <3>2. UNCHANGED <<head, pc, touched>> /\ unrestored' \subseteq unrestored \cup {p}
      BY <2>6 DEF RestorePath
    <3> QED
      BY <3>1, <3>2
  <2> QED
    BY <1>3, <2>1, <2>2, <2>3, <2>4, <2>5, <2>6 DEF Sync
<1>4. CASE Launch \/ Error \/ Crash \/ Push \/ \E r \in Runs : Prune(r)
  BY <1>4, <1>1 DEF Launch, Error, Crash, Push, Prune, Handle, End
<1>5. ASSUME NEW p \in Paths, Stage(p)
      PROVE  Kept
  <2>1. UNCHANGED <<head, pc, unrestored>> /\ touched' = touched \cup {p}
    BY <1>5 DEF Stage
  <2> QED
    BY <2>1
<1>6. ASSUME NEW p \in Paths, NEW new \in Object, Edit(p, new)
      PROVE  Kept
  <2>1. UNCHANGED <<head, pc, unrestored>> /\ touched' = touched \cup {p}
    BY <1>6 DEF Edit
  <2> QED
    BY <2>1
<1> QED
  BY <1>2, <1>3, <1>4, <1>5, <1>6 DEF Next, Environment

\* An untouched path is not in the way of a target and not a change.
LEMMA UntouchedIsClean ==
  ASSUME UntouchedFiles, RepositoryType, txn.state \notin InDoubt
  PROVE  Changes \subseteq touched /\ \A target : Collisions(head, target) \subseteq touched
<1>1. ASSUME NEW p \in Paths \ touched
      PROVE  /\ work[p] = TreeOf(head)[p] /\ index[p] = work[p]
             /\ head = Unborn => work[p] = Absent
  BY <1>1, ValuesAssumption DEF UntouchedFiles, TreeOf
<1> QED
  BY <1>1 DEF Changes, StagedPaths, Collisions

LEMMA UntouchedTodoStep ==
  ASSUME TxnInv, UntouchedInv, touched \subseteq touched', Next
  PROVE  UntouchedTodo'
<1> USE DEF UntouchedInv, UntouchedTodo, Goto, loop
<1>1. ASSUME pc' \notin {"collide", "copy", "restore", "replay"}
      PROVE  UntouchedTodo'
  BY <1>1
<1>2. ASSUME UNCHANGED pc, todo' \subseteq todo
      PROVE  UntouchedTodo'
  BY <1>2
<1>3. CASE Recovery
  <2>1. CASE StayBlocked \/ RecoverDone \/ Block \/ AbortBeforeApply
    BY <2>1, <1>1 DEF StayBlocked, RecoverDone, Block, AbortBeforeApply, Recovered, Handle, End
  <2>2. CASE Resume \/ RetainCapture \/ \E r \in Runs : CloseAside(r) \/ \E p \in Paths : PutBack(r, p)
    BY <2>2, <1>2 DEF Resume, RetainCapture, CloseAside, PutBack
  <2>3. ASSUME NEW r \in Runs, Replay(r)
        PROVE  UntouchedTodo'
    BY <2>3 DEF Replay, UntouchedBackup
  <2> QED
    BY <1>3, <2>1, <2>2, <2>3 DEF Recovery
<1>4. CASE Sync
  <2>1. CASE Prepare
    <3>1. pc = "sync" /\ txn.state \notin InDoubt
      BY <2>1 DEF Prepare, TxnInv, PcInv, Terminal, InDoubt
    <3>2. pc' = "equal" \/ todo' = Collisions(head, upstream)
      BY <2>1, <3>1 DEF Prepare
    <3> QED
      BY <3>1, <3>2, <1>1, UntouchedIsClean DEF TxnInv, TypeOK
  <2>2. CASE Capture
    <3>1. txn.state \notin InDoubt /\ todo' = Changes
      BY <2>2 DEF Capture, TxnInv, PcInv, InDoubt
    <3> QED
      BY <3>1, UntouchedIsClean DEF TxnInv, TypeOK
  <2>3. CASE MarkApplied
    <3>1. txn.local \in Runs \cup {0}
      BY DEF TxnInv, TypeOK, BackupType, TxnRecord
    <3> QED
      BY <2>3, <3>1 DEF MarkApplied, UntouchedBackup
  <2>4. CASE Clone \/ Equal \/ CollideDone \/ CopyDone \/ Record \/ Check
    BY <2>4, <1>1 DEF Clone, Equal, CollideDone, CopyDone, Record, Check, Handle, End
  <2>5. CASE Apply \/ ResetHead \/ RestoreDone \/ Finish
    BY <2>5, <1>1 DEF Apply, ResetHead, RestoreDone, Finish, End
  <2>6. ASSUME NEW p \in Paths, MoveAside(p) \/ Copy(p) \/ ResetPath(p) \/ RestorePath(p)
        PROVE  UntouchedTodo'
    BY <2>6, <1>2 DEF MoveAside, Copy, ResetPath, RestorePath
  <2> QED
    BY <1>4, <2>1, <2>2, <2>3, <2>4, <2>5, <2>6 DEF Sync
<1>5. CASE Launch \/ Error \/ Crash
  BY <1>5, <1>1 DEF Launch, Error, Crash, Handle, End
<1>6. CASE Push \/ (\E r \in Runs : Prune(r)) \/ \E p \in Paths : Stage(p) \/ \E new \in Object : Edit(p, new)
  BY <1>6, <1>2 DEF Push, Prune, Stage, Edit
<1> QED
  BY <1>3, <1>4, <1>5, <1>6 DEF Next, Environment

LEMMA UntouchedBackupStep ==
  ASSUME TxnInv, UntouchedInv, touched \subseteq touched', Next
  PROVE  UntouchedBackup'
<1>1. UntouchedBackup /\ UntouchedTodo /\ capture \in [Runs -> CaptureRecord] /\ aside \in [Runs -> AsideRecord]
  BY DEF UntouchedInv, TxnInv, TypeOK, BackupType
<1> USE DEF UntouchedBackup, backups
<1>2. ASSUME UNCHANGED <<capture, aside>>
      PROVE  UntouchedBackup'
  BY <1>1, <1>2
<1>3. ASSUME UNCHANGED aside,
             \A r \in Runs : capture'[r].files \in {capture[r].files, NoFiles}
      PROVE  UntouchedBackup'
  BY <1>1, <1>3 DEF NoFiles
<1>4. CASE Recovery
  <2>1. ASSUME NEW r \in Runs, NEW p \in Paths, PutBack(r, p)
        PROVE  UntouchedBackup'
    <3>1. UNCHANGED capture /\ aside' = [aside EXCEPT ![r].files[p] = None]
      BY <2>1 DEF PutBack
    <3> QED
      BY <1>1, <3>1 DEF AsideRecord
  <2>2. ASSUME NEW r \in Runs, CloseAside(r)
        PROVE  UntouchedBackup'
    BY <1>1, <2>2 DEF CloseAside, AsideRecord
  <2>3. CASE RetainCapture
    BY <1>1, <1>3, <2>3 DEF RetainCapture, CaptureRecord
  <2>4. CASE StayBlocked \/ RecoverDone \/ Block \/ AbortBeforeApply \/ Resume
    BY <2>4, <1>2 DEF StayBlocked, RecoverDone, Block, AbortBeforeApply, Resume
  <2>5. ASSUME NEW r \in Runs, Replay(r)
        PROVE  UntouchedBackup'
    BY <2>5, <1>2 DEF Replay
  <2> QED
    BY <1>4, <2>1, <2>2, <2>3, <2>4, <2>5 DEF Recovery
<1>5. CASE Sync
  <2>1. ASSUME NEW p \in Paths, MoveAside(p)
        PROVE  UntouchedBackup'
    <3>1. p \in touched /\ UNCHANGED capture
      BY <1>1, <2>1 DEF MoveAside, UntouchedTodo
    <3>2. \A r \in Runs, q \in Paths : q # p => aside'[r].files[q] = aside[r].files[q]
      BY <1>1, <2>1 DEF MoveAside, AsideRecord
    <3> QED
      BY <1>1, <3>1, <3>2
  <2>2. ASSUME NEW p \in Paths, Copy(p)
        PROVE  UntouchedBackup'
    <3>1. p \in touched /\ UNCHANGED aside
      BY <1>1, <2>2 DEF Copy, UntouchedTodo
    <3>2. \A r \in Runs, q \in Paths : q # p => capture'[r].files[q] = capture[r].files[q]
      BY <1>1, <2>2 DEF Copy, CaptureRecord
    <3> QED
      BY <1>1, <3>1, <3>2
  <2>3. CASE Capture
    BY <1>1, <1>3, <2>3 DEF Capture, NoCapture
  <2>4. CASE RestoreDone
    BY <1>1, <1>3, <2>4 DEF RestoreDone, CaptureRecord
  <2>5. CASE Clone \/ Prepare \/ Equal \/ CollideDone \/ CopyDone \/ Record \/ Check
    BY <2>5, <1>2 DEF Clone, Prepare, Equal, CollideDone, CopyDone, Record, Check
  <2>6. CASE Apply \/ ResetHead \/ MarkApplied \/ Finish
    BY <2>6, <1>2 DEF Apply, ResetHead, MarkApplied, Finish
  <2>7. ASSUME NEW p \in Paths, ResetPath(p) \/ RestorePath(p)
        PROVE  UntouchedBackup'
    BY <2>7, <1>2 DEF ResetPath, RestorePath
  <2> QED
    BY <1>5, <2>1, <2>2, <2>3, <2>4, <2>5, <2>6, <2>7 DEF Sync
<1>6. CASE Launch \/ Error \/ Crash \/ Push
  BY <1>6, <1>2 DEF Launch, Error, Crash, Push
<1>7. ASSUME NEW r \in Runs, Prune(r)
      PROVE  UntouchedBackup'
  BY <1>1, <1>3, <1>7 DEF Prune, NoCapture
<1>8. CASE \E p \in Paths : Stage(p) \/ \E new \in Object : Edit(p, new)
  BY <1>8, <1>2 DEF Stage, Edit
<1> QED
  BY <1>4, <1>5, <1>6, <1>7, <1>8 DEF Next, Environment

LEMMA UntouchedFilesStep ==
  ASSUME TxnInv, UntouchedInv, touched \subseteq touched', Next
  PROVE  UntouchedFiles'
<1>1. /\ UntouchedFiles /\ UntouchedBackup /\ UntouchedTodo /\ RepositoryType /\ PcInv
      /\ txn \in TxnRecord
  BY DEF UntouchedInv, TxnInv, TypeOK, BackupType
<1> USE DEF repo, backups, loop, Goto
\* The transaction may change its state, but not to one in doubt.
<1>2. ASSUME UNCHANGED <<tree, head, index, work>>, pc' # "reset",
             txn'.state \in InDoubt \/ txn.state \notin InDoubt
      PROVE  UntouchedFiles'
  BY <1>1, <1>2 DEF UntouchedFiles, TreeOf
\* Only a file the user has changed is written.
<1>3. ASSUME UNCHANGED <<tree, head, index, txn>>, pc' # "reset", NEW p \in touched,
             \A q \in Paths : q # p => work'[q] = work[q]
      PROVE  UntouchedFiles'
  BY <1>1, <1>3 DEF UntouchedFiles, TreeOf
<1>4. CASE Recovery
  <2>1. CASE StayBlocked \/ RecoverDone \/ RetainCapture
    BY <2>1, <1>2 DEF StayBlocked, RecoverDone, RetainCapture, Recovered, End, Resolving, Recovering
  <2>2. CASE Block
    <3>1. txn'.state \in InDoubt
      BY <1>1, <2>2 DEF Block, Write, TxnRecord, InDoubt
    <3> QED
      BY <2>2, <3>1, <1>2 DEF Block, Handle, End
  <2>3. CASE AbortBeforeApply \/ Resume
    <3>1. txn.state \notin InDoubt
      BY <2>3 DEF AbortBeforeApply, Resume, Resumable, InDoubt, PreApply
    <3> QED
      BY <2>3, <3>1, <1>2 DEF AbortBeforeApply, Resume, Recovered, End, Resolving, Recovering
  <2>4. ASSUME NEW r \in Runs, Replay(r) \/ CloseAside(r)
        PROVE  UntouchedFiles'
    BY <2>4, <1>2 DEF Replay, CloseAside, Recovering
  <2>5. ASSUME NEW r \in Runs, NEW p \in Paths, PutBack(r, p)
        PROVE  UntouchedFiles'
    <3>1. p \in touched
      BY <1>1, <2>5 DEF PutBack, UntouchedBackup
    <3>2. \A q \in Paths : q # p => work'[q] = work[q]
      BY <1>1, <2>5 DEF PutBack, RepositoryType
    <3> QED
      BY <2>5, <3>1, <3>2, <1>3 DEF PutBack, Recovering
  <2> QED
    BY <1>4, <2>1, <2>2, <2>3, <2>4, <2>5 DEF Recovery
<1>5. CASE Sync
  <2>1. CASE Prepare \/ Equal \/ Finish \/ CollideDone \/ Record \/ Capture \/ CopyDone
    <3>1. txn.state \notin InDoubt
      BY <1>1, <2>1 DEF Prepare, Equal, Finish, CollideDone, Record, Capture, CopyDone, PcInv,
         InDoubt, Terminal
    <3> QED
      BY <2>1, <3>1, <1>2 DEF Prepare, Equal, Finish, CollideDone, Record, Capture, CopyDone, End
  <2>2. CASE Check \/ RestoreDone
    BY <2>2, <1>2 DEF Check, RestoreDone, Handle, End
  <2>3. CASE Apply
    <3>1. txn.state \notin InDoubt /\ txn'.state = "applying" /\ todo' = Paths
      BY <1>1, <2>3 DEF Apply, Write, TxnRecord, PcInv, InDoubt
    <3> QED
      BY <1>1, <2>3, <3>1 DEF Apply, UntouchedFiles, InDoubt
  <2>4. ASSUME NEW q \in Paths, ResetPath(q)
        PROVE  UntouchedFiles'
    <3>1. txn.state \in InDoubt
      BY <1>1, <2>4 DEF ResetPath, PcInv, InDoubt
    <3> DEFINE new == TreeOf(txn.target)[q]
    <3>2. /\ index' = [index EXCEPT ![q] = new] /\ todo' = todo \ {q}
          /\ work' = [work EXCEPT ![q] = IF new = Absent /\ index[q] = Absent THEN @ ELSE new]
          /\ UNCHANGED <<tree, txn, pc, touched>> /\ pc = "reset"
      BY <2>4 DEF ResetPath, user
    <3>3. index'[q] = new /\ (q \notin touched => work'[q] = new)
      BY <1>1, <3>2 DEF UntouchedFiles, RepositoryType
    <3>4. \A p \in Paths : p # q => index'[p] = index[p] /\ work'[p] = work[p]
      BY <1>1, <3>2 DEF RepositoryType
    <3>5. TreeOf(txn.target)' = TreeOf(txn.target)
      BY <3>2 DEF TreeOf
    <3> HIDE DEF new
    <3>6. ASSUME NEW p \in Paths \ touched
          PROVE  index'[p] = work'[p] /\ (p \in todo' \/ work'[p] = TreeOf(txn.target)[p])
      BY <1>1, <3>2, <3>3, <3>4 DEF UntouchedFiles, new
    <3> QED
      BY <3>1, <3>2, <3>5, <3>6 DEF UntouchedFiles
  <2>5. CASE ResetHead
    <3>1. txn.state \in InDoubt
      BY <1>1, <2>5 DEF ResetHead, PcInv, InDoubt
    <3> QED
      BY <1>1, <2>5, <3>1 DEF ResetHead, UntouchedFiles, TreeOf
  <2>6. CASE MarkApplied
    <3>1. pc' # "reset" /\ UNCHANGED <<tree, head, index, work>>
      BY <2>6 DEF MarkApplied
    <3>2. \A p \in Paths \ touched : work[p] = TreeOf(head)[p] /\ index[p] = work[p]
      BY <1>1, <2>6 DEF MarkApplied, UntouchedFiles
    <3> QED
      BY <3>1, <3>2 DEF UntouchedFiles, TreeOf
  <2>7. ASSUME NEW p \in Paths, MoveAside(p) \/ RestorePath(p)
        PROVE  UntouchedFiles'
    <3>1. p \in touched
      BY <1>1, <2>7 DEF MoveAside, RestorePath, UntouchedTodo
    <3>2. \A q \in Paths : q # p => work'[q] = work[q]
      BY <1>1, <2>7 DEF MoveAside, RestorePath, RepositoryType
    <3> QED
      BY <2>7, <3>1, <3>2, <1>3 DEF MoveAside, RestorePath
  <2>8. ASSUME NEW p \in Paths, Copy(p)
        PROVE  UntouchedFiles'
    BY <2>8, <1>2 DEF Copy
  <2>9. ~Clone
    BY DEF Clone, UntouchedInv
  <2> QED
    BY <1>5, <2>1, <2>2, <2>3, <2>4, <2>5, <2>6, <2>7, <2>8, <2>9 DEF Sync
<1>6. CASE Launch \/ Error \/ Crash
  BY <1>6, <1>2 DEF Launch, Error, Crash, Handle, End
<1>7. CASE Push \/ \E r \in Runs : Prune(r)
  <2>1. UNCHANGED <<tree, head, index, work, txn, pc, todo>>
    BY <1>7 DEF Push, Prune
  <2> QED
    BY <1>1, <2>1 DEF UntouchedFiles, TreeOf
<1>8. ASSUME NEW p \in Paths, Stage(p) \/ \E new \in Object : Edit(p, new)
      PROVE  UntouchedFiles'
  <2>1. UNCHANGED <<tree, head, txn, pc, todo>> /\ touched' = touched \cup {p}
    BY <1>8 DEF Stage, Edit
  <2>2. \A q \in Paths : q # p => work'[q] = work[q] /\ index'[q] = index[q]
    BY <1>1, <1>8 DEF Stage, Edit, RepositoryType
  <2> QED
    BY <1>1, <2>1, <2>2 DEF UntouchedFiles, TreeOf
<1> QED
  BY <1>4, <1>5, <1>6, <1>7, <1>8 DEF Next, Environment

\* Where there is a repository to begin with.
THEOREM UntouchedInvariance ==
  ASSUME NoRepo \notin Starts
  PROVE  Spec => [](TxnInv /\ UntouchedInv)
<1>1. Init => UntouchedInv
  <2> SUFFICES ASSUME Init PROVE UntouchedInv
    OBVIOUS
  <2>1. head # NoRepo /\ pc = "off" /\ unrestored = {}
    BY DEF Init
  <2>2. \A r \in Runs : capture[r].files = NoFiles /\ aside[r].files = NoFiles
    BY DEF Init, NoCapture, NoAside
  <2>3. UntouchedFiles
    BY DEF Init, UntouchedFiles
  <2> QED
    BY <2>1, <2>2, <2>3 DEF UntouchedInv, UntouchedTodo, UntouchedBackup, NoFiles
<1>2. TxnInv /\ UntouchedInv /\ [Next]_vars => UntouchedInv'
  <2>1. ASSUME TxnInv, UntouchedInv, Next
        PROVE  UntouchedInv'
    BY <2>1, UntouchedRepoStep, UntouchedTodoStep, UntouchedBackupStep, UntouchedFilesStep
    DEF UntouchedInv
  <2>2. ASSUME UntouchedInv, UNCHANGED vars
        PROVE  UntouchedInv'
    BY <2>2 DEF vars, repo, backups, loop, user, history, UntouchedInv, UntouchedTodo,
       UntouchedBackup, UntouchedFiles, TreeOf
  <2> QED
    BY <2>1, <2>2
<1> QED
  BY <1>1, <1>2, TxnInvariance, PTL DEF Spec

\* An update of an existing repository, or a first checkout, ends with the
\* developer's version of every file the user never changed.
THEOREM UntouchedInstalled ==
  ASSUME NoRepo \notin Starts
  PROVE  Spec => UntouchedIsInstalled
<1>1. TxnInv /\ UntouchedInv /\ [Next]_vars =>
        [txn.state # "completed" /\ txn'.state = "completed" =>
           \A p \in Paths \ (touched \cup unrestored) : work[p] = TreeOf(head)[p]]_vars
  <2>1. ASSUME TxnInv, UntouchedInv, Next, txn.state # "completed", txn'.state = "completed"
        PROVE  txn.state \notin InDoubt
    <3>1. ASSUME NEW state, Write(state), state # "completed"
          PROVE  FALSE
      BY <2>1, <3>1 DEF Write, TxnInv, TypeOK, BackupType, TxnRecord
    <3>2. ASSUME UNCHANGED txn
          PROVE  FALSE
      BY <2>1, <3>2
    <3> USE DEF backups
    <3>3. CASE Recovery
      <4>1. ~(AbortBeforeApply \/ Block)
        BY <3>1 DEF AbortBeforeApply, Block
      <4>2. ~(StayBlocked \/ RetainCapture \/ RecoverDone)
        BY <3>2 DEF StayBlocked, RetainCapture, RecoverDone
      <4>3. \A r \in Runs : ~(CloseAside(r) \/ Replay(r) \/ \E p \in Paths : PutBack(r, p))
        BY <3>2 DEF CloseAside, Replay, PutBack
      <4>4. Resume
        BY <3>3, <4>1, <4>2, <4>3 DEF Recovery
      <4> QED
        BY <4>4 DEF Resume, Resumable, InDoubt
    <3>4. CASE Sync
      <4>1. ~(CollideDone \/ Apply \/ MarkApplied)
        BY <3>1 DEF CollideDone, Apply, MarkApplied
      <4>2. ~(Clone \/ Capture \/ CopyDone \/ Check \/ ResetHead \/ RestoreDone)
        BY <3>2 DEF Clone, Capture, CopyDone, Check, ResetHead, RestoreDone
      <4>3. \A p \in Paths : ~(MoveAside(p) \/ Copy(p) \/ ResetPath(p) \/ RestorePath(p))
        BY <3>2 DEF MoveAside, Copy, ResetPath, RestorePath
      <4>4. Prepare \/ Record \/ Equal \/ Finish
        BY <3>4, <4>1, <4>2, <4>3 DEF Sync
      <4> QED
        BY <2>1, <4>4 DEF Prepare, Record, Equal, Finish, TxnInv, PcInv, Terminal, InDoubt
    <3>5. ~(Launch \/ Error \/ Crash \/ Push \/ \E r \in Runs : Prune(r))
      BY <3>2 DEF Launch, Error, Crash, Push, Prune
    <3>6. \A p \in Paths : ~(Stage(p) \/ \E new \in Object : Edit(p, new))
      BY <3>2 DEF Stage, Edit
    <3> QED
      BY <2>1, <3>3, <3>4, <3>5, <3>6 DEF Next, Environment
  <2> QED
    BY <2>1 DEF UntouchedInv, UntouchedFiles
<1> QED
  BY <1>1, UntouchedInvariance, PTL DEF Spec, UntouchedIsInstalled
=============================================================================
