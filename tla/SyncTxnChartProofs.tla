------------------------- MODULE SyncTxnChartProofs -------------------------
(* Proof of the conflict chart: what a synchronisation leaves at each path,    *)
(* if there was a repository to begin with and the user has no unusual habits. *)
EXTENDS SyncTxnLossProofs

\* What the developer had and what the sync is to install.
Old(p) == TreeOf(txn.old)[p]
New(p) == TreeOf(txn.target)[p]

\* The user's version is in the capture, and the restore will put it back.
Held(p) == txn.local # 0 /\ capture[txn.local].files[p] = before[p]
Due(p) == Held(p) /\ Old(p) = New(p) /\ work[p] = New(p)

\* The files the restore of a capture writes.
SafeIn(r, p) ==
  /\ capture[r].files[p] # None /\ TreeOf(head)[p] = TreeOf(capture[r].old)[p]
  /\ {capture[r].files[p], TreeOf(capture[r].old)[p]} # {Absent}

\* Without a clone HEAD is the old commit until the reset, and then the target;
\* and a run that is over has forgotten which captures it restored.
PlaceInv ==
  /\ txn.state \in PreApply => head = txn.old
  /\ txn.state = "reset-applied" => head = txn.target
  /\ pc = "off" => replayed = {}

\* Only files in the way of new ones are moved aside, so that after the reset
\* nothing is put back.
Added(p) == Old(p) = Absent /\ New(p) # Absent
AwayInv ==
  /\ txn.state \notin Terminal =>
       \A s \in PendingAsides, p \in Paths : aside[s].files[p] # None => Added(p)
  /\ pc = "collide" => \A p \in todo : Added(p)
  /\ txn.state \in Terminal \cup {"reset-applied"} =>
       \A s \in PendingAsides, p \in Paths : aside[s].files[p] # None => work[p] # Absent

\* A file whose deletion is staged is not there.
GoneInv ==
  txn.state \notin InDoubt /\ head \in Commits =>
    \A p \in Paths : index[p] = Absent /\ TreeOf(head)[p] # Absent => work[p] = Absent

\* Where the developer changed nothing, nothing has changed before the reset, and
\* what the reset overwrites is in the capture.
BeforeInv ==
  /\ before \in [Paths -> Object]
  /\ pc \in {"collide", "capture", "copy", "record", "check", "apply"} =>
       \A p \in Paths : Old(p) = New(p) => work[p] = before[p]
  /\ pc = "reset" =>
       /\ \A p \in todo :
            IF Old(p) = New(p)
            THEN /\ work[p] = before[p]
                 /\ Held(p) \/ work[p] = New(p) \/ (index[p] = Absent /\ New(p) = Absent)
            ELSE New(p) = Absent /\ index[p] = Absent => work[p] = Absent
       /\ \A p \in Paths \ todo : Ruled(p) \/ Due(p)
  /\ pc = "reset" \/ txn.state = "reset-applied" =>
       \A r \in Pending : capture[r].target = txn.target =>
         /\ capture[r].old = txn.old
         /\ \A p \in Paths : capture[r].files[p] # None /\ Old(p) = New(p) =>
              capture[r].files[p] = before[p]

\* After the reset each path is as it should be, or the restore is yet to come.
Restored ==
  \/ txn.local = 0 \/ capture[txn.local].status \notin Restorable
  \/ pc = "finish" \/ (pc = "recover" /\ txn.local \in replayed)
AppliedInv ==
  txn.state = "reset-applied" =>
    /\ \A p \in Paths : Ruled(p) \/ Due(p)
    /\ Restored => \A p \in Paths : Ruled(p) \/ p \in unrestored
    /\ txn.local # 0 /\ capture[txn.local].status \in {"completed", "none"} =>
         \A p \in Paths : Ruled(p)
    /\ pc \in {"restore", "replay"} =>
         /\ cur = txn.local
         /\ \A p \in Paths \ todo : Ruled(p) \/ (p \in unrestored /\ outcome # "restored")

\* A later restore of the same capture finds its files in place, once what is
\* aside has been put back.
Parked(p) == work[p] = Absent /\ \E s \in PendingAsides : aside[s].files[p] # None
LeftInv ==
  txn.state \in PreApply \cup Terminal =>
    \A r \in Pending, p \in Paths : capture[r].target = head /\ SafeIn(r, p) =>
      \/ work[p] = capture[r].files[p] \/ p \in unrestored
      \/ txn.state \in PreApply /\ Parked(p)

\* A launch with nothing unfinished changes nothing before it knows its target.
CalmInv ==
  calm # None /\ ~failing /\ pc \in {"recover", "replay", "sync", "equal"} =>
    /\ <<work, index>> = calm /\ (pc = "equal" \/ txn.state \in Terminal)
    /\ pc \in {"recover", "replay"} =>
         \A r \in Pending, p \in Paths : capture[r].target = head /\ SafeIn(r, p) =>
           work[p] = capture[r].files[p]

ChartInv ==
  /\ PlaceInv /\ AwayInv /\ GoneInv /\ BeforeInv /\ AppliedInv /\ LeftInv /\ CalmInv

-----------------------------------------------------------------------------
(* What the steps do to the journal, the files and the history.              *)

\* The states of a transaction follow one another.
LEMMA TxnEffect ==
  ASSUME TxnInv, Next, ~Prepare
  PROVE  /\ txn'.old = txn.old /\ txn'.target = txn.target
         /\ txn'.local = txn.local \/ Record
         /\ \/ txn' = txn
            \/ (CollideDone \/ Record) /\ txn.state \in PreApply /\ txn'.state \in PreApply
            \/ AbortBeforeApply /\ txn.state \in PreApply /\ txn'.state = "aborted-before-apply"
            \/ Apply /\ txn.state \in PreApply /\ txn'.state = "applying"
            \/ MarkApplied /\ txn.state = "applying" /\ txn'.state = "reset-applied"
            \/ Block /\ txn'.state = "recovery-blocked"
            \/ Equal /\ txn.state = "prepared" /\ txn'.state = "completed"
            \/ (Finish \/ Resume) /\ txn.state = "reset-applied" /\ txn'.state = "completed"
<1>1. txn \in TxnRecord /\ PcInv
  BY DEF TxnInv, TypeOK, BackupType
<1> USE DEF backups
<1>2. CASE Recovery
  <2>1. CASE StayBlocked \/ RetainCapture \/ RecoverDone
             \/ \E r \in Runs : CloseAside(r) \/ Replay(r) \/ \E p \in Paths : PutBack(r, p)
    BY <2>1 DEF StayBlocked, RetainCapture, RecoverDone, CloseAside, Replay, PutBack
  <2>2. CASE AbortBeforeApply \/ Block \/ Resume
    BY <1>1, <2>2 DEF AbortBeforeApply, Block, Resume, Resumable, Write, TxnRecord
  <2> QED
    BY <1>2, <2>1, <2>2 DEF Recovery
<1>3. CASE Sync
  <2>1. CASE Clone \/ Capture \/ CopyDone \/ Check \/ ResetHead \/ RestoreDone
             \/ \E p \in Paths : MoveAside(p) \/ Copy(p) \/ ResetPath(p) \/ RestorePath(p)
    BY <2>1 DEF Clone, Capture, CopyDone, Check, ResetHead, RestoreDone, MoveAside, Copy, ResetPath,
       RestorePath
  <2>2. CASE Equal \/ CollideDone \/ Record \/ Apply \/ MarkApplied \/ Finish
    BY <1>1, <2>2 DEF Equal, CollideDone, Record, Apply, MarkApplied, Finish, Write, TxnRecord, PcInv,
       PreApply
  <2> QED
    BY <1>3, <2>1, <2>2 DEF Sync
<1>4. CASE Launch \/ Environment
  BY <1>4 DEF Launch, Environment, Error, Crash, Push, Prune, Stage, Edit
<1> QED
  BY <1>2, <1>3, <1>4 DEF Next

\* Who changes the history variables; the commits never change.
LEMMA HistoryEffect ==
  ASSUME Next
  PROVE  /\ UNCHANGED tree
         /\ UNCHANGED before \/ Prepare \/ \E p \in Paths, new \in Object : Edit(p, new)
         /\ \/ UNCHANGED unrestored
            \/ \E p \in Paths : RestorePath(p)
            \/ \E r \in Runs : CloseAside(r)
         /\ UNCHANGED calm \/ Launch
<1> USE DEF history
<1>1. CASE Recovery
  <2>1. CASE \E r \in Runs : CloseAside(r)
    BY <2>1 DEF CloseAside
  <2>2. CASE ~\E r \in Runs : CloseAside(r)
    BY <1>1, <2>2 DEF Recovery, StayBlocked, RetainCapture, AbortBeforeApply, Block, Resume,
       RecoverDone, Replay, PutBack
  <2> QED
    BY <2>1, <2>2
<1>2. CASE Sync
  <2>1. CASE Clone \/ Equal \/ CollideDone \/ Capture \/ CopyDone \/ Record \/ Check
    BY <2>1 DEF Clone, Equal, CollideDone, Capture, CopyDone, Record, Check
  <2>2. CASE Apply \/ ResetHead \/ MarkApplied \/ RestoreDone \/ Finish \/ Prepare
    BY <2>2 DEF Apply, ResetHead, MarkApplied, RestoreDone, Finish, Prepare
  <2>3. CASE \E p \in Paths : MoveAside(p) \/ Copy(p) \/ ResetPath(p) \/ RestorePath(p)
    BY <2>3 DEF MoveAside, Copy, ResetPath, RestorePath
  <2> QED
    BY <1>2, <2>1, <2>2, <2>3 DEF Sync
<1>3. CASE Launch \/ Environment
  BY <1>3 DEF Launch, Environment, Error, Crash, Push, Prune, Stage, Edit
<1> QED
  BY <1>1, <1>2, <1>3 DEF Next

\* Who changes the files, the index and HEAD.
LEMMA FilesEffect ==
  ASSUME UntouchedInv, Next
  PROVE  \/ UNCHANGED <<head, index, work>>
         \/ ResetHead /\ UNCHANGED <<index, work>>
         \/ UNCHANGED head /\ \E p \in Paths :
              \/ (\E r \in Runs : PutBack(r, p)) \/ MoveAside(p) \/ ResetPath(p) \/ RestorePath(p)
              \/ Stage(p) \/ \E new \in Object : Edit(p, new)
<1> USE DEF repo
<1>1. CASE Quiet \/ MarkApplied
  BY <1>1, QuietEffect
<1>2. ~Clone
  BY DEF Clone, UntouchedInv
<1>3. CASE RetainCapture \/ RestoreDone \/ Capture \/ ResetHead
           \/ \E r \in Runs : CloseAside(r) \/ Prune(r) \/ \E p \in Paths : PutBack(r, p)
  BY <1>3 DEF RetainCapture, RestoreDone, Capture, ResetHead, CloseAside, Prune, PutBack
<1>4. CASE \E p \in Paths : MoveAside(p) \/ Copy(p) \/ ResetPath(p) \/ RestorePath(p)
  BY <1>4 DEF MoveAside, Copy, ResetPath, RestorePath
<1>5. CASE \E p \in Paths : Stage(p) \/ \E new \in Object : Edit(p, new)
  BY <1>5 DEF Stage, Edit
<1> QED
  BY <1>1, <1>2, <1>3, <1>4, <1>5, StepCases

\* The files of a commit are the same, and so are those of the transaction.
LEMMA SameChart ==
  ASSUME TxnInv, Next
  PROVE  /\ \A c, p : TreeOf(c)'[p] = TreeOf(c)[p]
         /\ ~Prepare => \A p : Old(p)' = Old(p) /\ New(p)' = New(p)
BY TxnEffect, HistoryEffect DEF Old, New, TreeOf

\* After its capture a run adds nothing to what recovery may restore.
LEMMA PendingEffect ==
  ASSUME TxnInv, RestoreInv, Next, pc \notin {"capture", "copy"}
  PROVE  Pending' \subseteq Pending /\ \A r \in Runs : SameFiles(r) \/ r \notin Pending \cup Pending'
<1>1. capture \in [Runs -> CaptureRecord] /\ Pending \subseteq Runs
  BY DEF TxnInv, TypeOK, BackupType, Pending
<1> USE DEF backups
<1>2. ASSUME UNCHANGED capture
      PROVE  Pending' \subseteq Pending /\ \A r \in Runs : SameFiles(r)
  BY <1>1, <1>2 DEF Pending, SameFiles
<1>3. CASE Quiet \/ MarkApplied
  BY <1>2, <1>3, QuietEffect
<1>4. CASE RetainCapture
  BY <1>1, <1>4, RetainEffect DEF Pending, Restorable
<1>5. CASE RestoreDone
  <2>1. cur \in Pending
    BY <1>5 DEF RestoreDone, RestoreInv
  <2> QED
    BY <1>1, <1>5, <2>1, RestoreDoneEffect DEF Pending
<1>6. ASSUME NEW c \in Runs, Prune(c)
      PROVE  Pending' \subseteq Pending /\ \A r \in Runs : SameFiles(r) \/ r \notin Pending \cup Pending'
  BY <1>1, <1>6 DEF Prune, Pending, Restorable, NoCapture, SameFiles
<1>7. CASE Clone \/ ResetHead \/ \E r \in Runs : CloseAside(r) \/ \E p \in Paths : PutBack(r, p)
  BY <1>2, <1>7 DEF Clone, ResetHead, CloseAside, PutBack
<1>8. CASE \E p \in Paths : MoveAside(p) \/ ResetPath(p) \/ RestorePath(p) \/ Stage(p)
                            \/ \E new \in Object : Edit(p, new)
  BY <1>2, <1>8 DEF MoveAside, ResetPath, RestorePath, Stage, Edit
<1>9. ~Capture /\ \A p \in Paths : ~Copy(p)
  BY DEF Capture, Copy
<1> QED
  BY <1>3, <1>4, <1>5, <1>6, <1>7, <1>8, <1>9, StepCases

\* A run ends with its local variables.
LEMMA OffEffect ==
  ASSUME Next, pc' = "off"
  PROVE  replayed' = {} \/ (pc = "off" /\ UNCHANGED replayed)
<1> USE DEF Goto, loop
<1>1. CASE Recovery
  BY <1>1 DEF Recovery, StayBlocked, RetainCapture, AbortBeforeApply, Block, Resume, RecoverDone,
     CloseAside, Replay, PutBack, Resolving, Recovering, Recovered, Handle, End
<1>2. CASE Sync
  <2>1. CASE Clone \/ Prepare \/ Equal \/ CollideDone \/ Capture \/ CopyDone \/ Record \/ Check
    BY <2>1 DEF Clone, Prepare, Equal, CollideDone, Capture, CopyDone, Record, Check, Handle, End
  <2>2. CASE Apply \/ ResetHead \/ MarkApplied \/ RestoreDone \/ Finish
    BY <2>2 DEF Apply, ResetHead, MarkApplied, RestoreDone, Finish, End
  <2>3. CASE \E p \in Paths : MoveAside(p) \/ Copy(p) \/ ResetPath(p) \/ RestorePath(p)
    BY <2>3 DEF MoveAside, Copy, ResetPath, RestorePath
  <2> QED
    BY <1>2, <2>1, <2>2, <2>3 DEF Sync
<1>3. CASE Launch \/ Environment
  BY <1>3 DEF Launch, Environment, Error, Crash, Push, Prune, Stage, Edit, Handle, End
<1> QED
  BY <1>1, <1>2, <1>3 DEF Next

-----------------------------------------------------------------------------
(* The steps, for each part of the invariant.                                *)

LEMMA PlaceStep ==
  ASSUME TxnInv, UntouchedInv, PlaceInv, Next
  PROVE  PlaceInv'
<1>1. PcInv /\ HeadInv /\ head # NoRepo /\ pc # "cloned"
  BY DEF TxnInv, UntouchedInv
<1>2. pc' = "off" => replayed' = {}
  BY OffEffect DEF PlaceInv
<1>3. CASE Prepare
  <2>1. txn'.state = "prepared" /\ txn'.old = head /\ UNCHANGED head
    BY <1>1, <1>3 DEF Prepare, repo
  <2> QED
    BY <1>2, <2>1 DEF PlaceInv
<1>4. CASE ResetHead
  <2>1. txn.state = "applying" /\ UNCHANGED txn
    BY <1>1, <1>4 DEF ResetHead, PcInv, backups
  <2> QED
    BY <1>2, <2>1 DEF PlaceInv, PreApply
<1>5. CASE ~Prepare /\ ~ResetHead
  <2>1. UNCHANGED head
    BY <1>5, FilesEffect
  <2>2. MarkApplied => head = txn.target
    BY DEF MarkApplied
  <2> QED
    BY <1>2, <1>5, <2>1, <2>2, TxnEffect DEF PlaceInv, PreApply
<1> QED
  BY <1>3, <1>4, <1>5

\* Who changes what is aside.
LEMMA AsideEffect ==
  ASSUME Next
  PROVE  \/ UNCHANGED aside
         \/ \E s \in Runs : CloseAside(s) \/ \E p \in Paths : PutBack(s, p)
         \/ \E p \in Paths : MoveAside(p)
<1> USE DEF backups
<1>1. CASE Quiet \/ MarkApplied
  BY <1>1, QuietEffect
<1>2. CASE RetainCapture \/ RestoreDone \/ Clone \/ Capture \/ ResetHead \/ \E r \in Runs : Prune(r)
  BY <1>2 DEF RetainCapture, RestoreDone, Clone, Capture, ResetHead, Prune
<1>3. CASE \E p \in Paths : Copy(p) \/ ResetPath(p) \/ RestorePath(p) \/ Stage(p)
                            \/ \E new \in Object : Edit(p, new)
  BY <1>3 DEF Copy, ResetPath, RestorePath, Stage, Edit
<1> QED
  BY <1>1, <1>2, <1>3, StepCases

\* How the run comes to a place, and what it has to do there.
LEMMA PcEffect ==
  ASSUME Next
  PROVE  /\ pc' = "collide" =>
              Prepare \/ (pc = "collide" /\ (UNCHANGED todo \/ \E p \in Paths : MoveAside(p)))
         /\ pc' \in {"capture", "copy", "record", "check", "apply"} =>
              CollideDone \/ pc \in {"capture", "copy", "record", "check", "apply"}
         /\ pc' = "reset" =>
              Apply \/ (pc = "reset" /\ (UNCHANGED todo \/ \E p \in Paths : ResetPath(p)))
         /\ pc' \in {"restore", "replay"} =>
              \/ MarkApplied \/ \E r \in Runs : Replay(r)
              \/ /\ UNCHANGED <<pc, cur>>
                 /\ UNCHANGED <<todo, outcome>> \/ \E p \in Paths : RestorePath(p)
         /\ pc' = "finish" => pc = "finish" \/ MarkApplied \/ RestoreDone
         /\ pc' = "recover" =>
              RestoreDone \/ replayed' = {} \/ (pc \in {"off", "recover"} /\ UNCHANGED replayed)
<1> USE DEF Goto, loop
<1>1. CASE Recovery
  BY <1>1 DEF Recovery, StayBlocked, RetainCapture, AbortBeforeApply, Block, Resume, RecoverDone,
     CloseAside, PutBack, Resolving, Recovering, Recovered, Handle, End, Replay
<1>2. CASE Sync
  <2>1. CASE Clone \/ Prepare \/ Equal \/ CollideDone \/ Capture \/ CopyDone \/ Record \/ Check
    BY <2>1 DEF Clone, Prepare, Equal, CollideDone, Capture, CopyDone, Record, Check, Handle, End
  <2>2. CASE Apply \/ ResetHead \/ MarkApplied \/ RestoreDone \/ Finish
    BY <2>2 DEF Apply, ResetHead, MarkApplied, RestoreDone, Finish, End
  <2>3. CASE \E p \in Paths : MoveAside(p) \/ Copy(p) \/ ResetPath(p) \/ RestorePath(p)
    BY <2>3 DEF MoveAside, Copy, ResetPath, RestorePath
  <2> QED
    BY <1>2, <2>1, <2>2, <2>3 DEF Sync
<1>3. CASE Launch \/ Environment
  BY <1>3 DEF Launch, Environment, Error, Crash, Push, Prune, Stage, Edit, Handle, End
<1> QED
  BY <1>1, <1>2, <1>3 DEF Next

\* What a restore does to one file.
LEMMA RestorePathEffect ==
  ASSUME TxnInv, NEW p \in Paths, RestorePath(p)
  PROVE  /\ cur \in Runs /\ pc \in {"restore", "replay"} /\ p \in todo /\ todo' = todo \ {p}
         /\ capture[cur].files[p] # None
         /\ \A q \in Paths : q # p => work'[q] = work[q]
         /\ \/ /\ Safe(p) /\ work'[p] = capture[cur].files[p] /\ unrestored' = unrestored \ {p}
            \/ ~Safe(p) /\ work'[p] = work[p] /\ unrestored' = unrestored \ {p}
            \/ /\ Safe(p) /\ UNCHANGED work /\ unrestored' = unrestored \cup {p}
               /\ outcome' # "restored"
         /\ outcome # "restored" => outcome' # "restored"
         /\ UNCHANGED <<tree, head, index, txn, capture, aside, pc, cur, failing, replayed, before, calm>>
<1>1. work \in [Paths -> Object] /\ PcInv /\ TodoInv
  BY DEF TxnInv, TypeOK, RepositoryType
<1>2. /\ pc \in {"restore", "replay"} /\ p \in todo /\ todo' = todo \ {p}
      /\ UNCHANGED <<tree, head, index, txn, capture, aside, pc, cur, failing, replayed, before, calm>>
  BY DEF RestorePath, repo, backups
<1>3. cur \in Runs /\ capture[cur].files[p] # None
  BY <1>1, <1>2 DEF PcInv, TodoInv
<1>4. \/ /\ work' = (IF Safe(p) THEN [work EXCEPT ![p] = capture[cur].files[p]] ELSE work)
         /\ unrestored' = unrestored \ {p}
      \/ /\ Safe(p) /\ UNCHANGED work /\ unrestored' = unrestored \cup {p} /\ outcome' # "restored"
  BY DEF RestorePath, Mine
<1>5. outcome # "restored" => outcome' # "restored"
  BY DEF RestorePath
<1> QED
  BY <1>1, <1>2, <1>3, <1>4, <1>5

\* Nobody moves anything aside but the scan for collisions, and what is put back or
\* closed is not aside any more.
LEMMA AsideShrinks ==
  ASSUME TxnInv, Next, \A p \in Paths : ~MoveAside(p)
  PROVE  /\ PendingAsides' \subseteq PendingAsides
         /\ \A s \in PendingAsides', p \in Paths :
              aside'[s].files[p] # None => aside'[s].files[p] = aside[s].files[p]
<1>1. PendingAsides \subseteq Runs /\ PendingAsides' \subseteq Runs
  BY DEF PendingAsides
<1>2. CASE UNCHANGED aside
  BY <1>2 DEF PendingAsides
<1>3. ASSUME NEW s \in Runs, CloseAside(s)
      PROVE  /\ PendingAsides' \subseteq PendingAsides
             /\ \A r \in Runs : aside'[r].files = aside[r].files
  BY <1>3, CloseAsideEffect
<1>4. ASSUME NEW s \in Runs, NEW p \in Paths, PutBack(s, p)
      PROVE  /\ PendingAsides' = PendingAsides
             /\ \A r \in Runs, q \in Paths :
                  aside'[r].files[q] # None => aside'[r].files[q] = aside[r].files[q]
  BY <1>4, PutBackEffect
<1> QED
  BY <1>1, <1>2, <1>3, <1>4, AsideEffect

LEMMA AwayStep ==
  ASSUME TxnInv, UntouchedInv, AsideInv, ReachedInv, RestoreInv, BeforeInv, AwayInv,
         Habits = {}, Next
  PROVE  AwayInv'
<1> DEFINE Settled == Terminal \cup {"reset-applied"}
<1>1. /\ PcInv /\ HeadInv /\ TodoInv /\ pc # "cloned" /\ todo \subseteq Paths
      /\ PendingAsides \subseteq Runs /\ PendingAsides' \subseteq Runs
      /\ aside \in [Runs -> AsideRecord] /\ work \in [Paths -> Object]
      /\ None \notin Object /\ Absent \notin Content
  BY ValuesAssumption
  DEF TxnInv, UntouchedInv, TypeOK, LoopType, BackupType, RepositoryType, PendingAsides
<1>2. CASE Prepare
  <2>1. /\ pc = "sync" /\ txn' = [state |-> "prepared", old |-> head, target |-> upstream, local |-> 0]
        /\ UNCHANGED <<tree, head, index, work, aside>> /\ pc' \in {"equal", "collide"}
        /\ pc' = "collide" => todo' = Collisions(head, upstream)
    BY <1>1, <1>2 DEF Prepare, repo, Goto
  <2>2. PendingAsides' = {}
    BY <2>1 DEF AsideInv, PendingAsides
  <2>3. \A p \in Collisions(head, upstream) :
          TreeOf(head)[p] = Absent /\ TreeOf(upstream)[p] # Absent
    BY ValuesAssumption DEF Collisions, TreeOf
  <2>4. \A p : Old(p)' = TreeOf(head)[p] /\ New(p)' = TreeOf(upstream)[p]
    BY <2>1 DEF Old, New, TreeOf
  <2> QED
    BY <2>1, <2>2, <2>3, <2>4 DEF AwayInv, Added, Terminal
<1>3. ASSUME ~Prepare
      PROVE  \A p : Added(p)' = Added(p)
  BY <1>3, SameChart DEF Added
\* What is moved aside.
<1>4. ASSUME NEW p \in Paths, MoveAside(p)
      PROVE  AwayInv'
  <2>1. /\ run \in Runs /\ pc = "collide" /\ p \in todo /\ todo' = todo \ {p} /\ UNCHANGED <<txn, pc>>
        /\ work[p] = Absent => UNCHANGED <<work, aside>>
        /\ work[p] # Absent => PendingAsides' = PendingAsides \cup {run}
        /\ \A r \in Runs, q \in Paths : r # run \/ q # p => aside'[r].files[q] = aside[r].files[q]
    BY <1>4, MoveAsideEffect DEF MoveAside
  <2>2. txn.state = "prepared" /\ ~Prepare
    BY <1>1, <2>1 DEF PcInv, Prepare
  <2>3. work[p] = Absent => UNCHANGED PendingAsides
    BY <2>1 DEF PendingAsides
  <2>4. ASSUME NEW s \in PendingAsides', NEW q \in Paths, aside'[s].files[q] # None
        PROVE  Added(q)
    <3>1. CASE q = p
      BY <2>1, <3>1 DEF AwayInv
    <3>2. CASE q # p
      <4>1. aside[s].files[q] # None /\ s \in Runs
        BY <1>1, <2>1, <2>4, <3>2
      <4>2. s \in PendingAsides
        BY <1>1, <2>1, <2>3, <4>1 DEF AsideInv, NoAside, NoFiles
      <4> QED
        BY <2>2, <4>1, <4>2 DEF AwayInv, Terminal
    <3> QED
      BY <3>1, <3>2
  <2> QED
    BY <1>3, <2>1, <2>2, <2>4 DEF AwayInv, Terminal
\* Every other step: what stays aside was aside.
<1>5. ASSUME ~Prepare, \A p \in Paths : ~MoveAside(p)
      PROVE  AwayInv'
  <2>1. /\ PendingAsides' \subseteq PendingAsides
        /\ \A s \in PendingAsides', p \in Paths : aside'[s].files[p] # None => aside[s].files[p] # None
    BY <1>5, AsideShrinks
  <2>2. txn'.state \notin Terminal => txn.state \notin Terminal
    BY <1>5, TxnEffect DEF PreApply, Terminal, Block, Resolving
  <2>3. pc' = "collide" => pc = "collide" /\ UNCHANGED todo
    BY <1>5, PcEffect
  <2>4. ASSUME txn'.state \in Settled, NEW s \in PendingAsides', NEW p \in Paths,
               aside'[s].files[p] # None
        PROVE  work'[p] # Absent
    <3>1. s \in PendingAsides /\ aside[s].files[p] # None /\ s \in Runs
      BY <1>1, <2>1, <2>4
    <3>2. CASE txn.state \in Settled
      <4>1. work[p] # Absent
        BY <3>1, <3>2 DEF AwayInv
      <4>2. CASE UNCHANGED work
        BY <4>1, <4>2
      <4>3. ASSUME NEW r \in Runs, NEW q \in Paths, PutBack(r, q)
            PROVE  work'[p] # Absent
        BY <4>1, <4>3, PutBackEffect
      <4>4. ASSUME NEW q \in Paths, RestorePath(q)
            PROVE  work'[p] # Absent
        <5>1. CASE q # p
          BY <4>1, <4>4, <5>1, RestorePathEffect
        <5>2. CASE q = p
          <6>1. /\ cur \in Pending /\ capture[cur].target = head /\ capture[cur].files[p] # None
                /\ work'[p] \in {work[p], capture[cur].files[p]} /\ txn.state \notin InDoubt
            BY <1>1, <4>4, <5>2, RestorePathEffect DEF RestoreInv, PcInv, Terminal, InDoubt
          <6>2. aside[s].files[p] = capture[cur].files[p]
            BY <3>1, <6>1 DEF ReachedInv
          <6>3. aside[s].files[p] \in Content
            BY <1>1, <3>1 DEF AsideRecord
          <6> QED
            BY <1>1, <4>1, <6>1, <6>2, <6>3
        <5> QED
          BY <5>1, <5>2
      <4>5. \A q \in Paths : ~ResetPath(q)
        BY <1>1, <3>2 DEF ResetPath, PcInv, Terminal
      <4>6. \A q \in Paths : Stage(q) \/ (\E new \in Object : Edit(q, new)) => PendingAsides = {}
        BY UserEffect
      <4> QED
        BY <1>5, <3>1, <4>2, <4>3, <4>4, <4>5, <4>6, FilesEffect
    <3>3. CASE MarkApplied
      <4>1. pc = "reset" /\ todo = {} /\ UNCHANGED work /\ txn.state \notin Terminal
        BY <1>1, <3>3 DEF MarkApplied, repo, PcInv, Terminal
      <4>2. Added(p)
        BY <3>1, <4>1 DEF AwayInv
      <4>3. work[p] = New(p)
        BY <4>1, <4>2 DEF BeforeInv, Added, Due, Ruled, Old, New
      <4> QED
        BY <4>1, <4>2, <4>3 DEF Added
    <3>4. CASE AbortBeforeApply
      BY <3>1, <3>4 DEF AbortBeforeApply, Resolving
    <3>5. CASE Equal
      BY <3>1, <3>5 DEF Equal, AsideInv
    <3> QED
      BY <1>5, <2>4, <3>2, <3>3, <3>4, <3>5, TxnEffect DEF PreApply, Terminal
  <2> QED
    BY <1>3, <1>5, <2>1, <2>2, <2>3, <2>4 DEF AwayInv
<1> QED
  BY <1>2, <1>4, <1>5

LEMMA GoneStep ==
  ASSUME TxnInv, UntouchedInv, AsideInv, ReachedInv, RestoreInv, ResetInv, PlaceInv, AwayInv, GoneInv,
         Habits = {}, Next
  PROVE  GoneInv'
<1> DEFINE Gone(p) == index[p] = Absent /\ TreeOf(head)[p] # Absent => work[p] = Absent
<1>1. /\ PcInv /\ txn \in TxnRecord /\ work \in [Paths -> Object] /\ index \in [Paths -> Object]
  BY DEF TxnInv, TypeOK, BackupType, RepositoryType
<1> SUFFICES ASSUME txn'.state \notin InDoubt, head' \in Commits, NEW p \in Paths
             PROVE  Gone(p)'
  BY DEF GoneInv
<1>2. UNCHANGED head => TreeOf(head)'[p] = TreeOf(head)[p]
  BY SameChart DEF TreeOf
<1>3. CASE MarkApplied
  <2>1. pc = "reset" /\ todo = {} /\ head = txn.target /\ UNCHANGED <<tree, head, index, work>>
    BY <1>3, QuietEffect DEF MarkApplied
  <2>2. index[p] = TreeOf(head)[p]
    BY <2>1 DEF ResetInv
  <2> QED
    BY <2>1, <2>2 DEF TreeOf
<1>4. CASE ~MarkApplied
  <2>1. txn.state \notin InDoubt
    BY <1>1, <1>4, TxnEffect DEF InDoubt, Prepare, PcInv, PreApply, Terminal
  <2>2. ~ResetHead /\ \A q \in Paths : ~ResetPath(q)
    BY <1>1, <2>1 DEF ResetHead, ResetPath, PcInv, InDoubt
  <2>3. UNCHANGED head /\ Gone(p) /\ TreeOf(head)'[p] = TreeOf(head)[p]
    BY <1>2, <2>1, <2>2, FilesEffect DEF GoneInv
  <2>4. CASE UNCHANGED <<index, work>>
    BY <2>3, <2>4
  <2>5. ASSUME NEW s \in Runs, NEW q \in Paths, PutBack(s, q)
        PROVE  Gone(p)'
    <3>1. /\ s \in PendingAsides /\ aside[s].files[q] # None /\ work[q] = Absent /\ UNCHANGED index
          /\ \A o \in Paths : o # q => work'[o] = work[o]
      BY <2>5, PutBackEffect DEF PutBack, repo
    <3>2. txn.state \in PreApply
      BY <1>1, <2>1, <3>1 DEF AwayInv, TxnRecord, TxnState, InDoubt
    <3>3. txn.old # Unborn /\ TreeOf(head)[q] = Absent
      BY <2>3, <3>1, <3>2, ValuesAssumption DEF PlaceInv, AsideInv, Unknown
    <3> QED
      BY <2>3, <3>1, <3>3
  <2>6. ASSUME NEW q \in Paths, MoveAside(q)
        PROVE  Gone(p)'
    <3>1. UNCHANGED index /\ (work'[q] = Absent \/ UNCHANGED work)
          /\ \A o \in Paths : o # q => work'[o] = work[o]
      BY <2>6, MoveAsideEffect DEF MoveAside, repo
    <3> QED
      BY <2>3, <3>1
  <2>7. ASSUME NEW q \in Paths, RestorePath(q)
        PROVE  Gone(p)'
    <3>1. /\ cur \in Pending /\ capture[cur].target = head /\ capture[cur].files[q] # None
          /\ UNCHANGED index /\ \A o \in Paths : o # q => work'[o] = work[o]
      BY <2>7, RestorePathEffect DEF RestoreInv
    <3>2. index[q] = TreeOf(head)[q]
      BY <2>1, <3>1 DEF ReachedInv
    <3> QED
      BY <2>3, <3>1, <3>2
  <2>8. ASSUME NEW q \in Paths, Stage(q)
        PROVE  Gone(p)'
    BY <1>1, <2>3, <2>8 DEF Stage
  <2>9. ASSUME NEW q \in Paths, NEW new \in Object, Edit(q, new)
        PROVE  Gone(p)'
    <3>1. /\ UNCHANGED index /\ work' = [work EXCEPT ![q] = new]
          /\ new = Absent \/ index[q] # Absent \/ TreeOf(head)[q] = Absent
      BY <2>9 DEF Edit, repo
    <3> QED
      BY <1>1, <2>3, <3>1
  <2> QED
    BY <2>2, <2>4, <2>5, <2>6, <2>7, <2>8, <2>9, FilesEffect
<1> QED
  BY <1>3, <1>4

\* When the reset starts, what it overwrites though the developer left it alone is
\* captured, and what it spares though the developer deleted it is not there.
LEMMA ChartBegins ==
  ASSUME TxnInv, OrderInv, UnbornInv, CopyInv, LocalInv, UnreachedInv, PlaceInv, GoneInv,
         BeforeInv, Apply
  PROVE  BeforeInv'
<1> DEFINE First == txn.old = Unborn
<1>1. /\ txn \in TxnRecord /\ capture \in [Runs -> CaptureRecord] /\ PcInv /\ HeadInv
      /\ 0 \notin Runs
  BY BoundsAssumption DEF TxnInv, TypeOK, BackupType, Runs
<1>2. /\ UNCHANGED <<tree, index, work, capture, run, before>> /\ pc = "apply" /\ pc' = "reset"
      /\ txn'.old = txn.old /\ txn'.target = txn.target /\ txn'.local = txn.local /\ todo' = Paths
  BY <1>1, QuietEffect DEF Apply, Quiet, history, Goto, Write, TxnRecord
<1>3. /\ txn.state \in PreApply /\ run \in Runs /\ head = txn.old /\ txn.target \in Commits
      /\ First \/ (head \in Commits /\ head < txn.target)
  BY <1>1, <1>2 DEF PcInv, HeadInv, PlaceInv, OrderInv, PreApply, Terminal
<1>4. /\ \A p : Old(p)' = Old(p) /\ New(p)' = New(p) /\ Held(p)' = Held(p) /\ Old(p) = TreeOf(head)[p]
      /\ Pending' = Pending
  BY <1>2, <1>3 DEF Old, New, Held, TreeOf, Pending
<1>5. ASSUME NEW p \in Paths, Old(p) = New(p)
      PROVE  /\ work[p] = before[p]
             /\ Held(p) \/ work[p] = New(p) \/ (index[p] = Absent /\ New(p) = Absent)
  <2>1. work[p] = before[p]
    BY <1>2, <1>5 DEF BeforeInv
  <2>2. CASE First
    <3>1. index[p] = Absent /\ Old(p) = Absent
      BY <1>2, <2>2, ValuesAssumption DEF UnbornInv, Old, TreeOf
    <3> QED
      BY <1>5, <2>1, <3>1
  <2>3. CASE ~First /\ p \in Changes
    <3>1. capture[run].status = "pending" /\ capture[run].files[p] = work[p]
      BY <1>2, <2>3 DEF CopyInv, Copied
    <3>2. txn.local = run
      BY <1>2, <3>1 DEF LocalInv
    <3> QED
      BY <1>1, <1>3, <2>1, <3>1, <3>2 DEF Held
  <2>4. CASE p \notin Changes
    BY <1>4, <1>5, <2>1, <2>4 DEF Changes, StagedPaths
  <2> QED
    BY <2>2, <2>3, <2>4
<1>6. ASSUME NEW p \in Paths, Old(p) # New(p), New(p) = Absent, index[p] = Absent
      PROVE  work[p] = Absent
  <2>1. head \in Commits
    BY <1>3, <1>6, ValuesAssumption DEF Old, TreeOf
  <2> QED
    BY <1>3, <1>4, <1>6, <2>1 DEF GoneInv, PreApply, InDoubt
<1>7. ASSUME NEW r \in Pending, capture[r].target = txn.target
      PROVE  /\ capture[r].old = txn.old
             /\ \A p \in Paths : capture[r].files[p] # None /\ Old(p) = New(p) =>
                  capture[r].files[p] = before[p]
  <2>1. r \in Runs /\ capture[r] # NoCapture
    BY DEF Pending, Restorable, NoCapture
  <2>2. ~First
    BY <1>2, <1>3, <2>1 DEF UnbornInv, FirstCheckout
  <2>3. /\ capture[r].old = head
        /\ \A p \in Paths : capture[r].files[p] # None => work[p] = capture[r].files[p]
    BY <1>3, <1>7, <2>2 DEF UnreachedInv, InDoubt, PreApply
  <2> QED
    BY <1>2, <1>3, <2>3 DEF BeforeInv
<1> QED
  BY <1>2, <1>4, <1>5, <1>6, <1>7 DEF BeforeInv

\* The reset changes nothing but the files, the index and HEAD.
LEMMA ResetEffect ==
  ASSUME Next, pc = "reset", pc' = "reset"
  PROVE  /\ UNCHANGED <<tree, txn, capture, before>>
         /\ UNCHANGED <<todo, index, work>> \/ \E p \in Paths : ResetPath(p)
<1> USE DEF Goto, loop, repo, backups, history
<1>1. ~Recovery
  BY DEF Recovery, StayBlocked, RetainCapture, AbortBeforeApply, Block, Resume, RecoverDone,
     CloseAside, PutBack, Resolving, Recovering, Replay
<1>2. CASE Sync
  <2>1. ~(Clone \/ Prepare \/ Equal \/ CollideDone \/ Capture \/ CopyDone \/ Record \/ Check)
    BY DEF Clone, Prepare, Equal, CollideDone, Capture, CopyDone, Record, Check
  <2>2. CASE Apply \/ ResetHead \/ MarkApplied \/ RestoreDone \/ Finish
    BY <2>2 DEF Apply, ResetHead, MarkApplied, RestoreDone, Finish, End
  <2>3. CASE \E p \in Paths : MoveAside(p) \/ Copy(p) \/ ResetPath(p) \/ RestorePath(p)
    BY <2>3 DEF MoveAside, Copy, ResetPath, RestorePath
  <2> QED
    BY <1>2, <2>1, <2>2, <2>3 DEF Sync
<1>3. CASE Launch \/ Environment
  BY <1>3 DEF Launch, Environment, Error, Crash, Push, Prune, Stage, Edit, Open, Handle, End
<1> QED
  BY <1>1, <1>2, <1>3 DEF Next

LEMMA BeforeStep ==
  ASSUME TxnInv, UntouchedInv, OrderInv, UnbornInv, CopyInv, LocalInv, UnreachedInv, RestoreInv,
         PlaceInv, AwayInv, GoneInv, BeforeInv, Habits = {}, Next
  PROVE  BeforeInv'
<1> DEFINE Early == {"collide", "capture", "copy", "record", "check", "apply"}
           Kept(p) == IF Old(p) = New(p)
                      THEN /\ work[p] = before[p]
                           /\ Held(p) \/ work[p] = New(p) \/ (index[p] = Absent /\ New(p) = Absent)
                      ELSE New(p) = Absent /\ index[p] = Absent => work[p] = Absent
<1>1. /\ PcInv /\ txn \in TxnRecord /\ work \in [Paths -> Object] /\ index \in [Paths -> Object]
      /\ before \in [Paths -> Object] /\ todo \subseteq Paths /\ Pending \subseteq Runs
      /\ Pending' \subseteq Runs
  BY DEF TxnInv, TypeOK, LoopType, BackupType, RepositoryType, BeforeInv, Pending
<1>2. CASE Prepare
  <2>1. /\ before' = work /\ UNCHANGED work /\ pc' \in {"equal", "collide"} /\ txn'.state = "prepared"
    BY <1>2 DEF Prepare, Goto
  <2> QED
    BY <1>1, <2>1 DEF BeforeInv
<1>3. ASSUME NEW p \in Paths, Stage(p) \/ \E new \in Object : Edit(p, new)
      PROVE  BeforeInv'
  <2>1. pc' = "off" /\ txn'.state \in Terminal
    BY <1>3, UserEffect
  <2>2. before' = before \/ \E new \in Object : before' = [before EXCEPT ![p] = new]
    BY <1>3 DEF Stage, Edit, history
  <2>3. before' \in [Paths -> Object]
    BY <1>1, <2>2
  <2> QED
    BY <2>1, <2>3 DEF BeforeInv, Terminal
<1>4. CASE Apply
  BY <1>4, ChartBegins
<1>5. ASSUME ~Prepare, ~Apply, \A p \in Paths : ~Stage(p) /\ \A new \in Object : ~Edit(p, new)
      PROVE  BeforeInv'
  <2>1. UNCHANGED before /\ \A p : Old(p)' = Old(p) /\ New(p)' = New(p)
    BY <1>5, HistoryEffect, SameChart
  <2>2. ASSUME pc' \in Early, NEW p \in Paths, Old(p) = New(p)
        PROVE  work'[p] = before[p]
    <3>1. pc \in Early
      BY <1>5, <2>2, PcEffect DEF CollideDone
    <3>2. work[p] = before[p]
      BY <2>2, <3>1 DEF BeforeInv
    <3>3. ~ResetHead /\ \A q \in Paths : ~ResetPath(q) /\ ~RestorePath(q) /\ \A r \in Runs : ~PutBack(r, q)
      BY <3>1 DEF ResetHead, ResetPath, RestorePath, PutBack, Recovering
    <3>4. ASSUME NEW q \in Paths, MoveAside(q)
          PROVE  work'[p] = work[p]
      <4>1. pc = "collide" /\ q \in todo /\ \A o \in Paths : o # q => work'[o] = work[o]
        BY <3>4, MoveAsideEffect
      <4> QED
        BY <2>2, <4>1 DEF AwayInv, Added
    <3> QED
      BY <1>5, <3>2, <3>3, <3>4, FilesEffect
  <2>3. ASSUME pc' = "reset"
        PROVE  /\ \A p \in todo' : Kept(p)'
               /\ \A p \in Paths \ todo' : (Ruled(p) \/ Due(p))'
    <3>1. pc = "reset"
      BY <1>5, <2>3, PcEffect
    <3>2. UNCHANGED <<tree, txn, capture, before>>
      BY <2>3, <3>1, ResetEffect
    <3>3. (\A p \in todo : Kept(p)) /\ \A p \in Paths \ todo : Ruled(p) \/ Due(p)
      BY <3>1 DEF BeforeInv
    <3>4. \A p : /\ Held(p)' = Held(p)
                 /\ Ruled(p) <=> work[p] = (IF Old(p) = New(p) THEN before[p] ELSE New(p))
                 /\ Ruled(p)' <=> work'[p] = (IF Old(p) = New(p) THEN before[p] ELSE New(p))
                 /\ Due(p)' <=> Held(p) /\ Old(p) = New(p) /\ work'[p] = New(p)
      BY <2>1, <3>2 DEF Held, Ruled, Due, Old, New, TreeOf
    <3>5. CASE UNCHANGED <<todo, index, work>>
      BY <2>1, <3>3, <3>4, <3>5 DEF Due
    <3>6. ASSUME NEW p \in Paths, ResetPath(p)
          PROVE  /\ \A q \in todo' : Kept(q)'
                 /\ \A q \in Paths \ todo' : (Ruled(q) \/ Due(q))'
      <4>1. /\ p \in todo /\ todo' = todo \ {p}
            /\ work'[p] = (IF New(p) = Absent /\ index[p] = Absent THEN work[p] ELSE New(p))
            /\ \A q \in Paths : q # p => work'[q] = work[q] /\ index'[q] = index[q]
        BY <1>1, <3>6 DEF ResetPath, New
      <4>2. (Ruled(p) \/ Due(p))'
        <5>1. Kept(p)
          BY <3>3, <4>1
        <5> QED
          BY <3>4, <4>1, <5>1
      <4>3. \A q \in Paths : q # p => (Kept(q)' <=> Kept(q))
        BY <2>1, <3>4, <4>1
      <4>4. \A q \in Paths : q # p => ((Ruled(q) \/ Due(q))' <=> Ruled(q) \/ Due(q))
        BY <3>4, <4>1 DEF Due
      <4> QED
        BY <1>1, <3>3, <4>1, <4>2, <4>3, <4>4
    <3> QED
      BY <2>3, <3>1, <3>5, <3>6, ResetEffect
  <2>4. ASSUME pc' = "reset" \/ txn'.state = "reset-applied", NEW r \in Pending',
               capture'[r].target = txn'.target
        PROVE  /\ capture'[r].old = txn'.old
               /\ \A p \in Paths : capture'[r].files[p] # None /\ Old(p) = New(p) =>
                    capture'[r].files[p] = before[p]
    <3>1. pc = "reset" \/ txn.state = "reset-applied"
      BY <1>1, <1>5, <2>4, PcEffect, TxnEffect DEF MarkApplied, PreApply
    <3>2. pc \notin {"capture", "copy"}
      BY <1>1, <3>1 DEF PcInv
    <3>3. r \in Pending /\ SameFiles(r)
      BY <1>1, <2>4, <3>2, PendingEffect
    <3>4. txn'.target = txn.target /\ txn'.old = txn.old
      BY <1>5, TxnEffect
    <3> QED
      BY <2>4, <3>1, <3>3, <3>4 DEF BeforeInv, SameFiles
  <2> QED
    BY <1>1, <2>1, <2>2, <2>3, <2>4 DEF BeforeInv
<1> QED
  BY <1>2, <1>3, <1>4, <1>5

\* When the reset is over each path is as it should be, or is captured.
LEMMA AppliedBegins ==
  ASSUME TxnInv, LocalInv, BeforeInv, MarkApplied, Next
  PROVE  AppliedInv'
<1>1. /\ txn \in TxnRecord /\ PcInv /\ before \in [Paths -> Object] /\ 0 \notin Runs /\ None \notin Object
  BY BoundsAssumption, ValuesAssumption DEF TxnInv, TypeOK, BackupType, Runs, BeforeInv
<1>2. /\ UNCHANGED <<tree, work, capture, before, unrestored>> /\ pc = "reset" /\ todo = {}
      /\ txn'.old = txn.old /\ txn'.target = txn.target /\ txn'.local = txn.local
      /\ txn.local = 0 => pc' = "finish"
      /\ txn.local # 0 => /\ pc' = "restore" /\ cur' = txn.local
                          /\ todo' = {p \in Paths : capture[txn.local].files[p] # None}
  BY <1>1, QuietEffect DEF MarkApplied, history, Goto, Write, TxnRecord
<1>3. \A p \in Paths : Ruled(p) \/ Due(p)
  BY <1>2 DEF BeforeInv
<1>4. /\ txn.local # 0 => capture[txn.local].status = "pending"
      /\ \A p \in Paths : Due(p) => txn.local # 0 /\ capture[txn.local].files[p] # None
  BY <1>1, <1>2 DEF LocalInv, Due, Held
<1>5. \A p : Ruled(p)' = Ruled(p) /\ Due(p)' = Due(p)
  BY <1>2 DEF Ruled, Due, Held, Old, New, TreeOf
<1>6. Restored' => txn.local = 0
  BY <1>2, <1>4 DEF Restored, Restorable
<1> QED
  BY <1>2, <1>3, <1>4, <1>5, <1>6 DEF AppliedInv

LEMMA AppliedStep ==
  ASSUME TxnInv, UntouchedInv, LocalInv, RestoreInv, PlaceInv, AwayInv, BeforeInv, AppliedInv,
         Habits = {}, Next
  PROVE  AppliedInv'
<1>1. /\ txn \in TxnRecord /\ PcInv /\ TodoInv /\ before \in [Paths -> Object] /\ 0 \notin Runs
      /\ None \notin Object /\ todo \subseteq Paths /\ Pending \subseteq Runs
      /\ capture \in [Runs -> CaptureRecord]
  BY BoundsAssumption, ValuesAssumption
  DEF TxnInv, TypeOK, BackupType, LoopType, Runs, BeforeInv, Pending
<1>2. CASE MarkApplied
  BY <1>2, AppliedBegins
<1>3. CASE txn'.state # "reset-applied"
  BY <1>3 DEF AppliedInv
<1>4. ASSUME ~MarkApplied, txn'.state = "reset-applied"
      PROVE  AppliedInv'
  <2>1. ~Prepare
    BY <1>4 DEF Prepare
  <2>2. txn' = txn /\ txn.state = "reset-applied"
    BY <1>4, <2>1, TxnEffect DEF PreApply
  <2>3. pc \in {"off", "recover", "restore", "replay", "finish"} /\ head = txn.target
    BY <1>1, <2>2 DEF PcInv, PlaceInv, Terminal, TxnInv, TypeOK, LoopType, PC
  <2>4. \A p \in Paths : ~Stage(p) /\ \A new \in Object : ~Edit(p, new)
    BY <2>2, UserEffect DEF Terminal
  <2>5. UNCHANGED <<tree, before>> /\ \A p : Old(p)' = Old(p) /\ New(p)' = New(p)
    BY <2>1, <2>4, HistoryEffect, SameChart
  <2>6. \A p : /\ Ruled(p) <=> work[p] = (IF Old(p) = New(p) THEN before[p] ELSE New(p))
               /\ Ruled(p)' <=> work'[p] = (IF Old(p) = New(p) THEN before[p] ELSE New(p))
    BY <2>5 DEF Ruled, Old, New
  <2>7. /\ \A p \in Paths : Ruled(p) \/ Due(p)
        /\ Restored => \A p \in Paths : Ruled(p) \/ p \in unrestored
        /\ txn.local # 0 /\ capture[txn.local].status \in {"completed", "none"} =>
             \A p \in Paths : Ruled(p)
        /\ pc \in {"restore", "replay"} =>
             /\ cur = txn.local
             /\ \A p \in Paths \ todo : Ruled(p) \/ (p \in unrestored /\ outcome # "restored")
    BY <2>2 DEF AppliedInv
  <2>8. pc \in {"restore", "replay"} =>
          /\ cur \in Pending /\ txn.local \in Pending /\ capture[cur].target = txn.target
          /\ capture[cur].old = txn.old
          /\ \A p \in Paths : capture[cur].files[p] # None /\ Old(p) = New(p) =>
               capture[cur].files[p] = before[p]
    BY <2>2, <2>3, <2>7 DEF RestoreInv, BeforeInv
  <2>9. ASSUME NEW p \in Paths, RestorePath(p)
        PROVE  AppliedInv'
    <3>1. /\ pc \in {"restore", "replay"} /\ p \in todo /\ todo' = todo \ {p}
          /\ capture[cur].files[p] # None
          /\ \A q \in Paths : q # p => work'[q] = work[q]
          /\ \/ /\ Safe(p) /\ work'[p] = capture[cur].files[p] /\ unrestored' = unrestored \ {p}
             \/ ~Safe(p) /\ work'[p] = work[p] /\ unrestored' = unrestored \ {p}
             \/ /\ Safe(p) /\ work'[p] = work[p] /\ unrestored' = unrestored \cup {p}
                /\ outcome' # "restored"
          /\ outcome # "restored" => outcome' # "restored"
          /\ UNCHANGED <<capture, pc, cur>>
      BY <2>9, RestorePathEffect
    <3>2. Safe(p) <=> Old(p) = New(p) /\ {capture[cur].files[p], Old(p)} # {Absent}
      BY <2>3, <2>8, <3>1 DEF Safe, Base, Incoming, Mine, Old, New
    <3>3. \A q : Due(q) <=> Held(q) /\ Old(q) = New(q) /\ work[q] = New(q)
      BY DEF Due
    <3>4. \A q : /\ Held(q)' = Held(q)
                 /\ Due(q)' <=> Held(q) /\ Old(q) = New(q) /\ work'[q] = New(q)
      BY <2>2, <2>5, <3>1 DEF Due, Held
    <3>5. Old(p) = New(p) => capture[cur].files[p] = before[p]
      BY <2>8, <3>1
    <3>6. Ruled(p)' \/ (p \in unrestored' /\ outcome' # "restored" /\ work'[p] = work[p])
      <4>1. CASE Safe(p)
        BY <2>6, <3>1, <3>2, <3>5, <4>1
      <4>2. CASE ~Safe(p)
        <5>1. Ruled(p) \/ Due(p)
          BY <2>7
        <5> QED
          BY <2>6, <3>1, <3>2, <3>3, <3>5, <4>2, <5>1
      <4> QED
        BY <4>1, <4>2
    <3>7. \A q \in Paths : (Ruled(q) \/ Due(q))'
      BY <2>6, <2>7, <3>1, <3>3, <3>4, <3>6
    <3>8. \A q \in Paths \ todo' : (Ruled(q) \/ (q \in unrestored /\ outcome # "restored"))'
      BY <1>1, <2>6, <2>7, <3>1, <3>6
    <3>9. txn.local # 0 /\ capture[txn.local].status \in Restorable /\ cur = txn.local
      BY <1>1, <2>7, <2>8, <3>1 DEF Pending
    <3>10. ~Restored'
      BY <2>2, <3>1, <3>9 DEF Restored
    <3> QED
      BY <2>2, <3>1, <3>7, <3>8, <3>9, <3>10 DEF AppliedInv, Restorable
  <2>10. CASE RestoreDone
    <3>1. /\ pc \in {"restore", "replay"} /\ todo = {} /\ pc' \in {"finish", "recover"}
          /\ UNCHANGED <<work, unrestored>>
      BY <2>10 DEF RestoreDone, Goto, history
    <3>2. /\ \A r \in Runs : SameFiles(r)
          /\ capture'[cur].status = RestoredStatus(capture[cur])
      BY <2>10, RestoreDoneEffect
    <3>3. /\ cur = txn.local /\ txn.local \in Runs /\ capture[cur].status \in Restorable
          /\ \A p \in Paths : Ruled(p) \/ (p \in unrestored /\ outcome # "restored")
      BY <1>1, <2>7, <2>8, <3>1 DEF Pending
    <3>4. capture'[cur].status \in {"completed", "none"} => outcome = "restored"
      BY <3>2, <3>3 DEF RestoredStatus, Restorable, TxnInv, TypeOK, LoopType
    <3>5. \A p \in Paths : Ruled(p)' = Ruled(p) /\ Due(p)' = Due(p)
      BY <2>2, <2>5, <3>1, <3>2, <3>3 DEF Ruled, Due, Held, SameFiles, Old, New, TreeOf
    <3> QED
      BY <2>2, <2>7, <3>1, <3>3, <3>4, <3>5 DEF AppliedInv
  <2>11. ASSUME NEW r \in Runs, Prune(r)
         PROVE  AppliedInv'
    <3>1. /\ pc = "off" /\ pc' = "off" /\ capture[r].status = "completed"
          /\ UNCHANGED <<work, unrestored>> /\ \A c \in Runs : c # r => capture'[c] = capture[c]
          /\ capture'[r].status = "none"
      BY <1>1, <2>11 DEF Prune, history, NoCapture
    <3>2. CASE r = txn.local
      <4>1. \A p \in Paths : Ruled(p)
        BY <1>1, <2>7, <3>1, <3>2
      <4> QED
        BY <2>2, <2>6, <3>1, <4>1 DEF AppliedInv
    <3>3. CASE r # txn.local
      <4>1. txn.local \in Runs => capture'[txn.local] = capture[txn.local]
        BY <3>1, <3>3
      <4>2. txn.local \in Runs \cup {0}
        BY <1>1 DEF TxnRecord
      <4>3. \A p : Ruled(p)' = Ruled(p) /\ Due(p)' = Due(p)
        BY <2>2, <2>5, <3>1, <4>1, <4>2 DEF Ruled, Due, Held, Old, New, TreeOf
      <4>4. Restored' => Restored
        BY <2>2, <3>1, <4>1, <4>2 DEF Restored
      <4> QED
        BY <2>2, <2>7, <3>1, <4>1, <4>2, <4>3, <4>4 DEF AppliedInv
    <3> QED
      BY <3>2, <3>3
  <2>12. ASSUME NEW r \in Runs, Replay(r)
         PROVE  AppliedInv'
    <3>1. /\ pc' = "replay" /\ cur' = r /\ UNCHANGED <<work, capture, unrestored>> /\ Replayable(r)
          /\ todo' = {p \in Paths : capture[r].files[p] # None}
      BY <2>12 DEF Replay, Goto, backups, history
    <3>2. r = txn.local /\ capture[r].status \in Restorable
      BY <2>2, <3>1 DEF Replayable, Terminal
    <3>3. \A p : Ruled(p)' = Ruled(p) /\ Due(p)' = Due(p)
      BY <2>2, <2>5, <3>1 DEF Ruled, Due, Held, Old, New, TreeOf
    <3>4. \A p \in Paths : Due(p) => capture[r].files[p] # None
      BY <1>1, <3>2 DEF Due, Held
    <3>5. \A p \in Paths \ todo' : Ruled(p)
      BY <2>7, <3>1, <3>4
    <3>6. ~Restored'
      BY <1>1, <2>2, <3>1, <3>2 DEF Restored
    <3> QED
      BY <1>1, <2>2, <2>7, <3>1, <3>2, <3>3, <3>5, <3>6 DEF AppliedInv, Restorable
  <2>13. CASE /\ ~RestoreDone /\ \A r \in Runs : ~Prune(r) /\ ~Replay(r)
              /\ \A p \in Paths : ~RestorePath(p)
    <3>1. UNCHANGED unrestored
      <4>1. ASSUME NEW r \in Runs, CloseAside(r)
            PROVE  UNCHANGED unrestored
        <5>1. \A p \in Paths : aside[r].files[p] = None \/ work[p] # Absent
          BY <2>2, <4>1 DEF CloseAside, AwayInv
        <5> QED
          BY <4>1, <5>1 DEF CloseAside
      <4> QED
        BY <2>13, <4>1, HistoryEffect
    <3>2. ~ResetHead /\ \A p \in Paths : ~MoveAside(p) /\ ~ResetPath(p)
      BY <2>3 DEF ResetHead, MoveAside, ResetPath
    <3>3. \A r \in Runs, p \in Paths : ~PutBack(r, p)
      BY <2>2, PutBackEffect DEF AwayInv
    <3>4. UNCHANGED work
      BY <2>4, <2>13, <3>2, <3>3, FilesEffect
    <3>5. UNCHANGED capture
      <4>1. ~RetainCapture /\ ~Clone /\ ~Capture /\ \A p \in Paths : ~Copy(p)
        BY <2>2, <2>3 DEF RetainCapture, Clone, Capture, Copy, PreApply
      <4>2. CASE Quiet
        BY <4>2, QuietEffect
      <4>3. CASE \E r \in Runs : CloseAside(r)
        BY <4>3 DEF CloseAside
      <4> QED
        BY <1>4, <2>4, <2>13, <3>2, <3>3, <4>1, <4>2, <4>3, StepCases
    <3>6. \A p : Ruled(p)' = Ruled(p) /\ Due(p)' = Due(p)
      BY <2>2, <2>5, <3>4, <3>5 DEF Ruled, Due, Held, Old, New, TreeOf
    <3>7. pc' \in {"restore", "replay"} => UNCHANGED <<pc, cur, todo, outcome>>
      BY <1>4, <2>13, PcEffect
    <3>8. Restored' => Restored
      BY <1>4, <2>2, <2>13, <3>5, PcEffect DEF Restored, PlaceInv
    <3> QED
      BY <2>2, <2>7, <3>1, <3>5, <3>6, <3>7, <3>8 DEF AppliedInv
  <2> QED
    BY <2>9, <2>10, <2>11, <2>12, <2>13
<1> QED
  BY <1>2, <1>3, <1>4

\* What a finished or resumed transaction leaves of its captures.
LEMMA LeftBegins ==
  ASSUME TxnInv, PlaceInv, BeforeInv, AppliedInv, Finish \/ Resume, txn.state = "reset-applied"
  PROVE  (\A p \in Paths : Ruled(p) \/ p \in unrestored) /\ LeftInv'
<1>1. txn \in TxnRecord /\ PcInv
  BY DEF TxnInv, TypeOK, BackupType
<1>2. /\ UNCHANGED <<tree, head, work, capture, unrestored>> /\ txn'.state = "completed"
      /\ head = txn.target
  BY <1>1, QuietEffect DEF Finish, Resume, Quiet, Write, TxnRecord, history, PlaceInv
<1>3. Restored
  <2>1. CASE Finish
    BY <2>1 DEF Finish, Restored
  <2>2. CASE Resume
    <3>1. pc = "recover" /\ Resumable /\ \A r \in Runs : ~Replayable(r)
      BY <2>2 DEF Resume, Resolving, Recovering
    <3>2. txn.local \in Runs \cup {0}
      BY <1>1 DEF TxnRecord
    <3> QED
      BY <3>1, <3>2 DEF Replayable, Restored
  <2> QED
    BY <2>1, <2>2
<1>4. \A p \in Paths : Ruled(p) \/ p \in unrestored
  BY <1>3 DEF AppliedInv
<1>5. ASSUME NEW r \in Pending, NEW p \in Paths, capture[r].target = head, SafeIn(r, p)
      PROVE  work[p] = capture[r].files[p] \/ p \in unrestored
  <2>1. /\ capture[r].old = txn.old
        /\ capture[r].files[p] # None /\ Old(p) = New(p) => capture[r].files[p] = before[p]
    BY <1>2, <1>5 DEF BeforeInv
  <2>2. capture[r].files[p] # None /\ Old(p) = New(p)
    BY <1>2, <1>5, <2>1 DEF SafeIn, Old, New
  <2>3. Ruled(p) => work[p] = before[p]
    BY <2>2 DEF Ruled, Old, New
  <2> QED
    BY <1>4, <2>1, <2>2, <2>3
<1>6. /\ Pending' = Pending /\ \A r, p : SafeIn(r, p)' = SafeIn(r, p)
  BY <1>2 DEF Pending, SafeIn, TreeOf
<1> QED
  BY <1>2, <1>4, <1>5, <1>6 DEF LeftInv, PreApply

\* The captures of the target HEAD is at are those there were.
LEMMA ReachedEffect ==
  ASSUME TxnInv, OrderInv, CopyInv, LocalInv, RestoreInv, Next,
         UNCHANGED head, NEW r \in Pending', capture'[r].target = head
  PROVE  r \in Pending /\ SameFiles(r) /\ \A p : SafeIn(r, p)' = SafeIn(r, p)
<1>1. r \in Runs /\ UNCHANGED tree /\ PcInv /\ HeadInv
  BY HistoryEffect DEF Pending, TxnInv
<1>2. r \in Pending /\ SameFiles(r)
  <2>1. CASE Capture
    <3>1. /\ head \in Commits /\ txn.old = head /\ txn.target \in Commits
          /\ r # run => capture'[r] = capture[r]
          /\ r = run /\ Changes # {} => capture'[r].target = txn.target
          /\ Changes = {} => capture' = capture
      BY <1>1, <2>1, CaptureEffect
    <3>2. head < txn.target
      BY <2>1, <3>1, ValuesAssumption DEF Capture, OrderInv
    <3>3. capture'[r] = capture[r]
      BY <3>1, <3>2, BoundsAssumption DEF Commits
    <3> QED
      BY <1>1, <3>3 DEF Pending, SameFiles
  <2>2. ASSUME NEW p \in Paths, Copy(p)
        PROVE  r \in Pending /\ SameFiles(r)
    <3>1. /\ run \in Runs /\ pc = "copy"
          /\ r # run => capture'[r] = capture[r]
          /\ capture'[run].target = capture[run].target
      BY <1>1, <2>2, CopyEffect
    <3>2. capture[run].target = txn.target
      BY <3>1 DEF CopyInv, LocalInv
    <3>3. head < txn.target /\ head \in Commits /\ txn.target \in Commits
      <4>1. txn.old \in Commits /\ txn.target \in Commits
        BY <1>1, <3>1 DEF HeadInv, PcInv, Terminal
      <4> QED
        BY <3>1, <4>1, ValuesAssumption DEF OrderInv
    <3>4. r # run
      BY <3>1, <3>2, <3>3, BoundsAssumption DEF Commits
    <3> QED
      BY <1>1, <3>1, <3>4 DEF Pending, SameFiles
  <2>3. CASE pc \notin {"capture", "copy"}
    BY <1>1, <2>3, PendingEffect
  <2>4. ASSUME pc \in {"capture", "copy"}, ~Capture, \A p \in Paths : ~Copy(p)
        PROVE  r \in Pending /\ SameFiles(r)
    <3>1. UNCHANGED capture
      <4>1. CASE Quiet \/ MarkApplied
        BY <4>1, QuietEffect
      <4>2. ~(RetainCapture \/ RestoreDone \/ Clone \/ ResetHead)
        BY <2>4 DEF RetainCapture, RestoreDone, Clone, ResetHead, Resolving, Recovering
      <4>3. \A c \in Runs : ~(CloseAside(c) \/ Prune(c) \/ \E p \in Paths : PutBack(c, p))
        BY <2>4 DEF CloseAside, Prune, PutBack, Recovering
      <4>4. \A p \in Paths : ~(MoveAside(p) \/ ResetPath(p) \/ RestorePath(p))
        BY <2>4 DEF MoveAside, ResetPath, RestorePath
      <4>5. CASE \E p \in Paths : Stage(p) \/ \E new \in Object : Edit(p, new)
        BY <4>5 DEF Stage, Edit, backups
      <4> QED
        BY <2>4, <4>1, <4>2, <4>3, <4>4, <4>5, StepCases
    <3> QED
      BY <1>1, <3>1 DEF Pending, SameFiles
  <2> QED
    BY <2>1, <2>2, <2>3, <2>4
<1> QED
  BY <1>1, <1>2 DEF SafeIn, SameFiles, TreeOf

LEMMA LeftStep ==
  ASSUME TxnInv, UntouchedInv, OrderInv, AsideInv, CopyInv, LocalInv, ReachedInv, AgreeInv,
         RestoreInv, PlaceInv, AwayInv, BeforeInv, AppliedInv, LeftInv, Habits = {}, Next
  PROVE  LeftInv'
<1>1. /\ txn \in TxnRecord /\ PcInv /\ work \in [Paths -> Object] /\ None \notin Object
      /\ Pending \subseteq Runs /\ PendingAsides \subseteq Runs
  BY ValuesAssumption DEF TxnInv, TypeOK, BackupType, RepositoryType, Pending, PendingAsides
<1>2. CASE (Finish \/ Resume) /\ txn.state = "reset-applied"
  BY <1>2, LeftBegins
<1>3. ASSUME NEW p \in Paths, Stage(p) \/ \E new \in Object : Edit(p, new)
      PROVE  LeftInv'
  BY <1>3, UserEffect DEF LeftInv, Pending
<1>4. ASSUME ~((Finish \/ Resume) /\ txn.state = "reset-applied"),
             \A p \in Paths : ~Stage(p) /\ \A new \in Object : ~Edit(p, new),
             txn'.state \in PreApply \cup Terminal,
             NEW r \in Pending', NEW p \in Paths, capture'[r].target = head', SafeIn(r, p)'
      PROVE  \/ work'[p] = capture'[r].files[p] \/ p \in unrestored'
             \/ txn'.state \in PreApply /\ Parked(p)'
  <2>1. txn.state \in PreApply \cup Terminal
    BY <1>1, <1>4, TxnEffect DEF PreApply, Terminal, Prepare, PcInv
  <2>2. ~ResetHead /\ \A q \in Paths : ~ResetPath(q)
    BY <1>1, <2>1 DEF ResetHead, ResetPath, PcInv, PreApply, Terminal
  <2>3. UNCHANGED head
    BY <2>2, FilesEffect
  <2>4. /\ r \in Pending /\ capture[r].target = head /\ SafeIn(r, p)
        /\ capture'[r].files = capture[r].files
    BY <1>4, <2>3, ReachedEffect DEF SameFiles
  <2>5. /\ capture[r].files[p] # None
        /\ \A s \in PendingAsides : aside[s].files[p] \in {None, capture[r].files[p]}
    BY <2>1, <2>4 DEF SafeIn, ReachedInv, InDoubt, PreApply, Terminal
  <2>6. \/ work[p] = capture[r].files[p] \/ p \in unrestored
        \/ txn.state \in PreApply /\ Parked(p)
    BY <2>1, <2>4 DEF LeftInv
  <2>7. ASSUME NEW q \in Paths, RestorePath(q)
        PROVE  work'[p] = capture'[r].files[p] \/ p \in unrestored'
    <3>1. txn.state \notin PreApply /\ cur \in Pending /\ capture[cur].target = head
      BY <1>1, <2>7, RestorePathEffect DEF PcInv, RestoreInv, PreApply, Terminal
    <3>2. CASE q # p
      BY <2>4, <2>6, <2>7, <3>1, <3>2, RestorePathEffect
    <3>3. CASE q = p
      <4>1. /\ capture[cur].files[p] = capture[r].files[p] /\ capture[cur].old = capture[r].old
        BY <2>4, <2>5, <2>7, <3>1, <3>3, RestorePathEffect DEF AgreeInv
      <4>2. Safe(p)
        BY <2>4, <4>1 DEF Safe, SafeIn, Base, Incoming, Mine
      <4> QED
        BY <2>4, <2>7, <3>3, <4>1, <4>2, RestorePathEffect
    <3> QED
      BY <3>2, <3>3
  <2>8. ASSUME NEW s \in Runs, NEW q \in Paths, PutBack(s, q)
        PROVE  \/ work'[p] = capture'[r].files[p] \/ p \in unrestored'
               \/ txn'.state \in PreApply /\ Parked(p)'
    <3>1. UNCHANGED <<txn, unrestored>>
      BY <2>8 DEF PutBack, history
    <3>2. CASE q = p
      BY <2>4, <2>5, <2>8, <3>2, PutBackEffect
    <3>3. CASE q # p
      BY <2>4, <2>6, <2>8, <3>1, <3>3, PutBackEffect DEF Parked, PendingAsides
    <3> QED
      BY <3>2, <3>3
  <2>9. ASSUME NEW q \in Paths, MoveAside(q)
        PROVE  \/ work'[p] = capture'[r].files[p] \/ p \in unrestored'
               \/ txn'.state \in PreApply /\ Parked(p)'
    <3>1. UNCHANGED <<txn, unrestored>> /\ txn.state \in PreApply
      BY <1>1, <2>9 DEF MoveAside, history, PcInv, PreApply
    <3>2. CASE work[q] = Absent
      BY <2>4, <2>6, <2>9, <3>1, <3>2, MoveAsideEffect DEF Parked, PendingAsides
    <3>3. CASE work[q] # Absent /\ q = p
      <4>1. run \in PendingAsides' /\ aside'[run].files[p] # None /\ work'[p] = Absent
        BY <1>1, <2>9, <3>3, MoveAsideEffect
      <4> QED
        BY <3>1, <4>1 DEF Parked
    <3>4. CASE work[q] # Absent /\ q # p
      <4>1. /\ PendingAsides \subseteq PendingAsides' /\ work'[p] = work[p]
            /\ \A s \in Runs : aside'[s].files[p] = aside[s].files[p]
        BY <2>9, <3>4, MoveAsideEffect
      <4> QED
        BY <1>1, <2>4, <2>6, <3>1, <4>1 DEF Parked
    <3> QED
      BY <3>2, <3>3, <3>4
  <2>10. ASSUME UNCHANGED work, UNCHANGED unrestored \/ \E s \in Runs : CloseAside(s),
                \A q \in Paths : ~MoveAside(q), \A s \in Runs, q \in Paths : ~PutBack(s, q)
         PROVE  \/ work'[p] = capture'[r].files[p] \/ p \in unrestored'
                \/ txn'.state \in PreApply /\ Parked(p)'
    <3>1. ASSUME txn.state \in PreApply, Parked(p)
          PROVE  p \in unrestored' \/ (txn'.state \in PreApply /\ Parked(p)')
      <4>1. PICK s \in PendingAsides : aside[s].files[p] # None /\ work[p] = Absent
        BY <3>1 DEF Parked
      <4>2. ~AbortBeforeApply /\ ~Equal /\ ~Prepare
        BY <1>1, <3>1, <4>1 DEF AbortBeforeApply, Resolving, Equal, AsideInv, Prepare, PcInv, PreApply,
           Terminal
      <4>3. txn'.state \in PreApply
        BY <1>4, <3>1, <4>2, TxnEffect DEF PreApply, Terminal
      <4>4. CASE UNCHANGED aside
        BY <2>10, <3>1, <4>3, <4>4 DEF Parked, PendingAsides
      <4>5. ASSUME NEW t \in Runs, CloseAside(t)
            PROVE  p \in unrestored' \/ Parked(p)'
        <5>1. CASE t = s
          BY <4>1, <4>5, <5>1 DEF CloseAside
        <5>2. CASE t # s
          <6>1. s \in PendingAsides' /\ aside'[s].files[p] # None
            BY <1>1, <4>1, <4>5, <5>2, CloseAsideEffect
          <6> QED
            BY <2>10, <4>1, <6>1 DEF Parked
        <5> QED
          BY <5>1, <5>2
      <4> QED
        BY <2>10, <4>3, <4>4, <4>5, AsideEffect
    <3>2. unrestored \subseteq unrestored'
      BY <2>10 DEF CloseAside
    <3> QED
      BY <2>4, <2>6, <2>10, <3>1, <3>2
  <2>11. CASE \E q \in Paths : RestorePath(q) \/ MoveAside(q) \/ \E s \in Runs : PutBack(s, q)
    BY <2>7, <2>8, <2>9, <2>11
  <2>12. CASE \A q \in Paths : ~RestorePath(q) /\ ~MoveAside(q) /\ \A s \in Runs : ~PutBack(s, q)
    BY <1>4, <2>2, <2>10, <2>12, FilesEffect, HistoryEffect
  <2> QED
    BY <2>11, <2>12
<1> QED
  BY <1>2, <1>3, <1>4 DEF LeftInv

\* How the run comes to the places before the first effect of a sync.
LEMMA CalmEffect ==
  ASSUME Next, ~failing', pc' \in {"recover", "replay", "sync", "equal"}
  PROVE  \/ Launch \/ pc = "cloned"
         \/ /\ ~failing /\ pc \in {"recover", "replay", "sync", "equal"}
            /\ pc = "equal" => pc' = "equal"
            /\ pc' \in {"recover", "replay"} => pc \in {"recover", "replay"}
<1> USE DEF Goto, loop
<1>1. CASE Recovery
  BY <1>1 DEF Recovery, StayBlocked, RetainCapture, AbortBeforeApply, Block, Resume, RecoverDone,
     CloseAside, PutBack, Resolving, Recovering, Recovered, Handle, End, Replay
<1>2. CASE Sync
  <2>1. CASE Clone \/ Prepare \/ Equal \/ CollideDone \/ Capture \/ CopyDone \/ Record \/ Check
    BY <2>1 DEF Clone, Prepare, Equal, CollideDone, Capture, CopyDone, Record, Check, Handle, End
  <2>2. CASE Apply \/ ResetHead \/ MarkApplied \/ RestoreDone \/ Finish
    BY <2>2 DEF Apply, ResetHead, MarkApplied, RestoreDone, Finish, End
  <2>3. CASE \E p \in Paths : MoveAside(p) \/ Copy(p) \/ ResetPath(p) \/ RestorePath(p)
    BY <2>3 DEF MoveAside, Copy, ResetPath, RestorePath
  <2> QED
    BY <1>2, <2>1, <2>2, <2>3 DEF Sync
<1>3. CASE Launch \/ Environment
  BY <1>3 DEF Launch, Environment, Error, Crash, Push, Prune, Stage, Edit, Open, Handle, End
<1> QED
  BY <1>1, <1>2, <1>3 DEF Next

LEMMA CalmStep ==
  ASSUME TxnInv, UntouchedInv, OrderInv, CopyInv, LocalInv, RestoreInv, AwayInv, LeftInv, CalmInv, Next
  PROVE  CalmInv'
<1> DEFINE InPlace == \A r \in Pending, p \in Paths :
             capture[r].target = head /\ SafeIn(r, p) => work[p] = capture[r].files[p]
<1>1. /\ txn \in TxnRecord /\ PcInv /\ work \in [Paths -> Object] /\ pc # "cloned"
      /\ Pending \subseteq Runs
  BY DEF TxnInv, TypeOK, BackupType, RepositoryType, UntouchedInv, Pending
<1>2. CASE Launch
  <2>1. /\ pc' = "recover" /\ UNCHANGED <<tree, head, index, work, txn, capture>>
        /\ calm' = IF txn.state \in Terminal /\ unrestored = {} THEN <<work, index>> ELSE None
    BY <1>2 DEF Launch, Goto, repo, backups
  <2>2. ASSUME txn.state \in Terminal, unrestored = {}
        PROVE  InPlace
    BY <2>2 DEF LeftInv, PreApply, Terminal
  <2>3. InPlace' = InPlace
    BY <2>1 DEF Pending, SafeIn, TreeOf
  <2> QED
    BY <2>1, <2>2, <2>3 DEF CalmInv
<1>3. ASSUME ~Launch, calm' # None, ~failing', pc' \in {"recover", "replay", "sync", "equal"}
      PROVE  /\ <<work, index>>' = calm' /\ (pc' = "equal" \/ txn'.state \in Terminal)
             /\ pc' \in {"recover", "replay"} => InPlace'
  <2>1. UNCHANGED calm
    BY <1>3, HistoryEffect
  <2>2. /\ ~failing /\ pc \in {"recover", "replay", "sync", "equal"}
        /\ pc = "equal" => pc' = "equal"
        /\ pc' \in {"recover", "replay"} => pc \in {"recover", "replay"}
    BY <1>1, <1>3, CalmEffect
  <2>3. /\ <<work, index>> = calm /\ (pc = "equal" \/ txn.state \in Terminal)
        /\ pc \in {"recover", "replay"} => InPlace
    BY <1>3, <2>1, <2>2 DEF CalmInv
  <2>4. UNCHANGED <<head, work, index>>
    <3>1. ~ResetHead /\ \A q \in Paths : ~MoveAside(q) /\ ~ResetPath(q) /\ ~Stage(q)
      BY <2>2 DEF ResetHead, MoveAside, ResetPath, Stage
    <3>2. \A q \in Paths, new \in Object : ~Edit(q, new)
      BY <2>2 DEF Edit, Open
    <3>3. \A s \in Runs, q \in Paths : ~PutBack(s, q)
      BY <1>1, <2>2, <2>3, PutBackEffect DEF AwayInv, PutBack, Recovering
    <3>4. ASSUME NEW q \in Paths, RestorePath(q)
          PROVE  UNCHANGED <<head, work, index>>
      <4>1. /\ UNCHANGED <<head, index>> /\ pc = "replay" /\ capture[cur].files[q] # None
            /\ cur \in Pending /\ capture[cur].target = head
        BY <2>2, <3>4, RestorePathEffect DEF RestoreInv
      <4>2. Safe(q) => work[q] = capture[cur].files[q]
        BY <2>3, <4>1 DEF Safe, SafeIn, Base, Incoming, Mine
      <4>3. work' = work \/ (Safe(q) /\ work' = [work EXCEPT ![q] = capture[cur].files[q]])
        BY <3>4 DEF RestorePath, Mine
      <4> QED
        BY <1>1, <4>1, <4>2, <4>3
    <3> QED
      BY <3>1, <3>2, <3>3, <3>4, FilesEffect
  <2>5. pc' = "equal" \/ txn'.state \in Terminal
    <3>1. CASE Prepare
      BY <1>3, <3>1 DEF Prepare, Goto
    <3>2. CASE ~Prepare /\ txn.state \in Terminal
      BY <3>2, TxnEffect DEF Block, Resolving, PreApply, Terminal
    <3> QED
      BY <2>2, <2>3, <3>1, <3>2
  <2>6. ASSUME pc' \in {"recover", "replay"}
        PROVE  InPlace'
    BY <2>2, <2>3, <2>4, <2>6, ReachedEffect DEF SameFiles
  <2> QED
    BY <2>1, <2>3, <2>4, <2>5, <2>6
<1> QED
  BY <1>2, <1>3 DEF CalmInv

-----------------------------------------------------------------------------
(* The theorem.                                                              *)

LEMMA ChartInit ==
  ASSUME Init
  PROVE  ChartInv
<1>1. /\ txn.state = "none" /\ pc = "off" /\ replayed = {} /\ calm = None
      /\ before = work /\ work = TreeOf(head) /\ index = TreeOf(head)
      /\ tree \in [Commits -> [Paths -> Dev \cup {Absent}]]
      /\ \A r \in Runs : capture[r] = NoCapture /\ aside[r] = NoAside
  BY DEF Init
<1>2. Pending = {} /\ PendingAsides = {}
  BY <1>1 DEF Pending, PendingAsides, Restorable, NoCapture, NoAside
<1>3. before \in [Paths -> Object]
  BY <1>1 DEF TreeOf, Object, Content
<1>4. PlaceInv /\ AwayInv
  BY <1>1, <1>2 DEF PlaceInv, AwayInv, PreApply, Terminal
<1>5. GoneInv
  BY <1>1 DEF GoneInv
<1>6. BeforeInv /\ AppliedInv /\ LeftInv /\ CalmInv
  BY <1>1, <1>2, <1>3 DEF BeforeInv, AppliedInv, LeftInv, CalmInv
<1> QED
  BY <1>4, <1>5, <1>6 DEF ChartInv

LEMMA ChartStutter ==
  ASSUME ChartInv, UNCHANGED vars
  PROVE  ChartInv'
<1> USE DEF vars, repo, backups, loop, user, history
<1>1. /\ Pending' = Pending /\ PendingAsides' = PendingAsides
      /\ \A p : Old(p)' = Old(p) /\ New(p)' = New(p) /\ Held(p)' = Held(p)
      /\ \A p : Ruled(p)' = Ruled(p) /\ Parked(p)' = Parked(p) /\ Restored' = Restored
      /\ \A r, p : SafeIn(r, p)' = SafeIn(r, p)
      /\ \A p : TreeOf(head)'[p] = TreeOf(head)[p]
  BY DEF Pending, PendingAsides, Old, New, Held, Ruled, Parked, Restored, SafeIn, TreeOf
<1>2. \A p : Due(p)' = Due(p) /\ Added(p)' = Added(p)
  BY <1>1 DEF Due, Added
<1>3. (PlaceInv /\ AwayInv /\ GoneInv)'
  BY <1>1, <1>2 DEF ChartInv, PlaceInv, AwayInv, GoneInv
<1>4. (BeforeInv /\ AppliedInv)'
  BY <1>1, <1>2 DEF ChartInv, BeforeInv, AppliedInv
<1>5. (LeftInv /\ CalmInv)'
  BY <1>1 DEF ChartInv, LeftInv, CalmInv
<1> QED
  BY <1>3, <1>4, <1>5 DEF ChartInv

\* What each place of a run knows of the files, relative to what was there when the
\* sync was prepared.
THEOREM ChartInvariance ==
  ASSUME Habits = {}, NoRepo \notin Starts
  PROVE  Spec => []ChartInv
<1> DEFINE Known == TxnInv /\ LossInv /\ UntouchedInv
<1>1. Init => ChartInv
  BY ChartInit
<1>2. Known /\ ChartInv /\ [Next]_vars => ChartInv'
  <2> SUFFICES ASSUME Known, ChartInv, [Next]_vars
               PROVE  ChartInv'
    OBVIOUS
  <2>1. CASE Next
    <3>1. /\ OrderInv /\ UnbornInv /\ AsideInv /\ CopyInv /\ LocalInv /\ ResetInv
          /\ UnreachedInv /\ ReachedInv /\ AgreeInv /\ RestoreInv
      BY DEF LossInv
    <3>2. PlaceInv /\ AwayInv /\ GoneInv /\ BeforeInv /\ AppliedInv /\ LeftInv /\ CalmInv
      BY DEF ChartInv
    <3>3. PlaceInv' /\ AwayInv' /\ GoneInv' /\ BeforeInv'
      BY <2>1, <3>1, <3>2, PlaceStep, AwayStep, GoneStep, BeforeStep
    <3>4. AppliedInv' /\ LeftInv' /\ CalmInv'
      BY <2>1, <3>1, <3>2, AppliedStep, LeftStep, CalmStep
    <3> QED
      BY <3>3, <3>4 DEF ChartInv
  <2>2. CASE UNCHANGED vars
    BY <2>2, ChartStutter
  <2> QED
    BY <2>1, <2>2
<1> QED
  BY <1>1, <1>2, LossInvariance, UntouchedInvariance, PTL DEF Spec

\* The conflict chart: a sync whose reset was applied ends with the developer's
\* version where the developer changed a path and with the user's elsewhere, however
\* often it was interrupted and resumed; and a run that is at the target commit,
\* with no sync left pending, leaves files and staging as they were.
THEOREM ChartHolds ==
  ASSUME Habits = {}, NoRepo \notin Starts
  PROVE  Spec => ConflictChart
<1> DEFINE Charted ==
      txn'.state = "completed" =>
        /\ txn.state = "reset-applied" => \A p \in Paths \ unrestored : Ruled(p)
        /\ pc = "equal" /\ calm # None => <<work, index>> = calm
<1>1. TxnInv /\ ChartInv /\ [Next]_vars => [Charted]_vars
  <2> SUFFICES ASSUME TxnInv, ChartInv, Next, txn'.state = "completed"
               PROVE  /\ txn.state = "reset-applied" => \A p \in Paths \ unrestored : Ruled(p)
                      /\ pc = "equal" /\ calm # None => <<work, index>> = calm
    OBVIOUS
  <2>1. PlaceInv /\ BeforeInv /\ AppliedInv /\ CalmInv
    BY DEF ChartInv
  <2>2. ASSUME txn.state = "reset-applied"
        PROVE  \A p \in Paths \ unrestored : Ruled(p)
    <3>1. ~Prepare
      BY DEF Prepare
    <3>2. Finish \/ Resume
      BY <2>2, <3>1, TxnEffect DEF PreApply
    <3> QED
      BY <2>1, <2>2, <3>2, LeftBegins
  <2>3. pc = "equal" /\ calm # None => <<work, index>> = calm
    BY <2>1 DEF CalmInv, TxnInv, PcInv
  <2> QED
    BY <2>2, <2>3
<1> QED
  BY <1>1, ChartInvariance, TxnInvariance, PTL DEF Spec, ConflictChart
=============================================================================
