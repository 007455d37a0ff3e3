-------------------------- MODULE SyncTxnLossProofs --------------------------
(* Proof that the Git synchronisation loses nothing of a user who has no      *)
(* unusual habits, whatever is published and wherever runs are interrupted.   *)
EXTENDS SyncTxnProofs

\* The captures that recovery may still restore.
Pending == {r \in Runs : capture[r].status \in Restorable}

\* A path that neither the index nor HEAD knows.
Unknown(p) == index[p] = Absent /\ TreeOf(head)[p] = Absent

\* The backups of a run start empty, and a completed capture has nothing staged.
Unstarted(r) ==
  \/ r > run
  \/ r = run /\ pc \in {"sync", "cloned"}
  \/ r = run /\ pc \in {"recover", "replay"} /\ ~failing
Uncaptured(r) ==
  Unstarted(r) \/ (r = run /\ pc \in {"equal", "collide", "capture"})
FreshInv ==
  \A r \in Runs :
    /\ Uncaptured(r) => capture[r] = NoCapture
    /\ Unstarted(r) => aside[r] = NoAside
    /\ capture[r].status = "none" => capture[r] = NoCapture
    /\ capture[r].status # "none" =>
         capture[r].old \in Commits /\ capture[r].target \in Commits
    /\ capture[r].status = "completed" => capture[r].staged = NoFiles

\* HEAD only advances, and no capture is of a later target than the transaction.
Captured(r) == capture[r].target \in Commits
OrderInv ==
  /\ head \in Commits => head <= upstream
  /\ txn.target \in Commits => txn.target <= upstream
  /\ \A r \in Runs : Captured(r) =>
       /\ capture[r].target <= upstream
       /\ txn.state \notin Terminal => capture[r].target <= txn.target
       /\ txn.state \in Terminal \cup {"reset-applied"} /\ PendingAsides # {} =>
            head \in Commits /\ capture[r].target <= head
  /\ pc \in {"collide", "capture", "copy", "record", "check", "apply"} /\ txn.old # Unborn =>
       head \in Commits /\ head < txn.target

\* Before the first checkout nothing is captured or staged.
FirstCheckout ==
  \/ head \notin Commits \/ pc = "cloned"
  \/ txn.old = Unborn /\ txn.state \in PreApply \cup {"applying"}
UnbornInv ==
  /\ FirstCheckout => staged = NoFiles /\ \A r \in Runs : capture[r] = NoCapture
  /\ \/ txn.state \notin InDoubt /\ head \notin Commits
     \/ pc = "cloned" \/ (pc \in {"collide", "apply"} /\ txn.old = Unborn)
     => \A p \in Paths : index[p] = Absent

\* Only files in the way of the target are moved aside, and all of them.
AsideInv ==
  /\ pc \in {"sync", "cloned", "equal"} => PendingAsides = {}
  /\ txn.state \in PreApply /\ txn.old # Unborn =>
       \A r \in PendingAsides, p \in Paths : aside[r].files[p] # None => Unknown(p)
  /\ pc = "collide" =>
       /\ aside[run] = NoAside \/ run \in PendingAsides
       /\ Collisions(txn.old, txn.target) \subseteq todo
       /\ \A p \in todo :
            aside[run].files[p] = None /\ (txn.old = Unborn \/ Unknown(p))
  /\ pc \in {"capture", "copy", "record", "check", "apply"} =>
       Collisions(txn.old, txn.target) = {}

\* The capture of the run has every change but those still to be copied.
Copied(p) ==
  /\ capture[run].status = "pending" /\ capture[run].files[p] = work[p]
  /\ p \in StagedPaths => capture[run].staged[p] = index[p]
CopyInv ==
  /\ pc = "copy" =>
       /\ capture[run].status = "pending" /\ todo \subseteq Changes
       /\ \A p \in Changes \ todo : Copied(p)
       /\ \A p \in todo : capture[run].files[p] = None /\ capture[run].staged[p] = None
  /\ pc \in {"record", "check"} \/ (pc = "apply" /\ txn.old # Unborn) =>
       \A p \in Changes : Copied(p)

\* The journal names the capture of its own commits.
LocalInv ==
  /\ txn.state \in {"prepared", "collisions-durable"} => txn.local = 0
  /\ txn.state \in {"snapshot-durable", "applying", "reset-applied"} /\ txn.local # 0 =>
       \/ capture[txn.local].status = "none"
       \/ capture[txn.local].target = txn.target /\ capture[txn.local].old = txn.old
  /\ pc \in {"check", "apply", "reset"} /\ txn.local # 0 =>
       txn.local = run /\ capture[run].status = "pending"
  /\ pc \in {"copy", "record", "check", "apply", "reset"} /\ capture[run].status # "none" =>
       /\ capture[run].status = "pending" /\ capture[run].target = txn.target
       /\ capture[run].old = txn.old
       /\ pc \in {"check", "apply"} => txn.local = run

\* The reset destroys nothing that is not captured.
Spared(p) ==
  \/ capture[run].status = "pending" /\ capture[run].files[p] = work[p]
  \/ index[p] = Absent /\ TreeOf(txn.target)[p] = Absent
ResetInv ==
  pc = "reset" =>
    /\ \A p \in todo : work[p] \in User => Spared(p)
    /\ \A p \in Paths \ todo : index[p] = TreeOf(txn.target)[p]
    /\ \A p \in Paths : staged[p] # None =>
         \E r \in Runs : capture[r].staged[p] = staged[p]
    /\ \A r \in Pending, p \in Paths :
         capture[r].target = txn.target /\ capture[r].files[p] # None =>
           /\ \/ work[p] = capture[r].files[p]
              \/ p \notin todo /\ work[p] = TreeOf(txn.target)[p]
           /\ \A s \in PendingAsides : aside[s].files[p] = None

\* Nothing has changed since a capture whose target HEAD has not reached ...
UnreachedInv ==
  txn.state \notin InDoubt =>
    \A r \in Pending : head \in Commits /\ head < capture[r].target =>
      /\ capture[r].old = head
      /\ \A p \in Paths : capture[r].files[p] # None =>
           p \in Changes /\ work[p] = capture[r].files[p]

\* ... and of one whose target HEAD is, a path is as the developer has it or as
\* it was captured.
ReachedInv ==
  txn.state \notin InDoubt =>
    \A r \in Pending, p \in Paths :
      capture[r].target = head /\ capture[r].files[p] # None =>
        /\ index[p] = TreeOf(head)[p]
        /\ work[p] \in {TreeOf(head)[p], capture[r].files[p]}
        /\ \A s \in PendingAsides : aside[s].files[p] \in {None, capture[r].files[p]}

\* Two captures of one target agree.
AgreeInv ==
  \A r, s \in Pending : capture[r].target = capture[s].target =>
    /\ capture[r].old = capture[s].old
    /\ \A p \in Paths : \/ None \in {capture[r].files[p], capture[s].files[p]}
                        \/ capture[r].files[p] = capture[s].files[p]

\* While nothing is reported as left, every file handled is back.
RestoreInv ==
  pc \in {"restore", "replay"} =>
    /\ cur \in Pending /\ capture[cur].target = head
    /\ outcome = "restored" =>
         \A p \in Paths \ todo :
           capture[cur].files[p] \in User => work[p] = capture[cur].files[p]

\* What the user wrote is kept where no retention cleanup reaches it.
Backed(p, v) ==
  \E r \in Runs : \/ capture[r].status # "completed" /\ capture[r].files[p] = v
                  \/ aside[r].files[p] = v
KeptInv ==
  \A p \in Paths : authored[p] \in User =>
    work[p] = authored[p] \/ Backed(p, authored[p])
StagedInv ==
  \A p \in Paths : staged[p] # None =>
    \/ \E r \in Runs : capture[r].staged[p] = staged[p]
    \/ index[p] = staged[p] /\ staged[p] # TreeOf(head)[p]

LossInv ==
  /\ FreshInv /\ OrderInv /\ UnbornInv /\ AsideInv /\ CopyInv /\ LocalInv
  /\ ResetInv /\ UnreachedInv /\ ReachedInv /\ AgreeInv /\ RestoreInv
  /\ KeptInv /\ StagedInv

-----------------------------------------------------------------------------
(* What the actions do to the backups.                                       *)

\* A capture keeps all but its status.
SameFiles(r) ==
  /\ capture'[r].files = capture[r].files /\ capture'[r].staged = capture[r].staged
  /\ capture'[r].old = capture[r].old /\ capture'[r].target = capture[r].target

LEMMA CopyEffect ==
  ASSUME TxnInv, NEW p \in Paths, Copy(p)
  PROVE  /\ run \in Runs /\ pc = "copy" /\ p \in todo /\ todo' = todo \ {p}
         /\ \A r \in Runs : /\ r # run => capture'[r] = capture[r]
                            /\ capture'[r].status = capture[r].status
                            /\ capture'[r].old = capture[r].old
                            /\ capture'[r].target = capture[r].target
                            /\ \A q \in Paths : q # p =>
                                 /\ capture'[r].files[q] = capture[r].files[q]
                                 /\ capture'[r].staged[q] = capture[r].staged[q]
         /\ capture'[run].files[p] = work[p]
         /\ capture'[run].staged[p] = IF p \in StagedPaths THEN index[p] ELSE None
         /\ UNCHANGED <<tree, upstream, head, index, work, txn, aside, run, pc, failing, cur,
                        outcome, authored, staged>>
<1>1. run \in Runs /\ capture \in [Runs -> CaptureRecord]
  BY DEF Copy, TxnInv, PcInv, TypeOK, BackupType
<1> QED
  BY <1>1 DEF Copy, CaptureRecord, repo, user

\* Recovery retains a capture and a restore settles it: only its status changes.
LEMMA RetainEffect ==
  ASSUME TxnInv, RetainCapture
  PROVE  /\ txn.local \in Runs /\ capture[txn.local].status = "pending"
         /\ capture'[txn.local].status = "completed-capture-retained"
         /\ \A r \in Runs : SameFiles(r) /\ (r # txn.local => capture'[r] = capture[r])
<1>1. txn.local \in Runs /\ capture \in [Runs -> CaptureRecord]
  BY DEF RetainCapture, TxnInv, TypeOK, BackupType, TxnRecord
<1> QED
  BY <1>1 DEF RetainCapture, CaptureRecord, SameFiles

LEMMA RestoreDoneEffect ==
  ASSUME TxnInv, RestoreDone
  PROVE  /\ cur \in Runs /\ capture'[cur].status = RestoredStatus(capture[cur])
         /\ \A r \in Runs : SameFiles(r) /\ (r # cur => capture'[r] = capture[r])
<1>1. cur \in Runs /\ capture \in [Runs -> CaptureRecord]
  BY DEF RestoreDone, TxnInv, PcInv, TypeOK, BackupType
<1> QED
  BY <1>1 DEF RestoreDone, CaptureRecord, SameFiles

LEMMA CaptureEffect ==
  ASSUME TxnInv, Capture
  PROVE  /\ run \in Runs /\ head \in Commits /\ txn.old = head /\ txn.target \in Commits
         /\ todo' = Changes
         /\ \A r \in Runs : r # run => capture'[r] = capture[r]
         /\ Changes = {} => pc' = "record" /\ UNCHANGED capture
         /\ Changes # {} =>
              /\ pc' = "copy" /\ capture'[run].status = "pending"
              /\ capture'[run].old = head /\ capture'[run].target = txn.target
              /\ capture'[run].files = NoFiles /\ capture'[run].staged = NoFiles
<1>1. run \in Runs /\ head \in Commits /\ txn.old = head /\ txn.target \in Commits
  BY ValuesAssumption DEF Capture, TxnInv, PcInv, HeadInv, PreApply, Terminal
<1>2. capture \in [Runs -> CaptureRecord]
  BY DEF TxnInv, TypeOK, BackupType
<1> QED
  BY <1>1, <1>2 DEF Capture, NoCapture, Goto

LEMMA PutBackEffect ==
  ASSUME TxnInv, NEW s \in Runs, NEW p \in Paths, PutBack(s, p)
  PROVE  /\ s \in PendingAsides /\ aside[s].files[p] # None /\ work[p] = Absent
         /\ work'[p] = aside[s].files[p] /\ aside'[s].files[p] = None
         /\ \A q \in Paths : q # p => work'[q] = work[q]
         /\ \A r \in Runs, q \in Paths : r # s \/ q # p => aside'[r].files[q] = aside[r].files[q]
         /\ \A r \in Runs : aside'[r].status = aside[r].status
                            /\ (r # s => aside'[r] = aside[r])
         /\ PendingAsides' = PendingAsides
<1>1. aside \in [Runs -> AsideRecord] /\ work \in [Paths -> Object]
  BY DEF TxnInv, TypeOK, BackupType, RepositoryType
<1>2. aside' = [aside EXCEPT ![s].files[p] = None] /\ work' = [work EXCEPT ![p] = aside[s].files[p]]
  BY DEF PutBack
<1>3. \A r \in Runs : aside'[r].status = aside[r].status /\ (r # s => aside'[r] = aside[r])
  BY <1>1, <1>2 DEF AsideRecord
<1>4. s \in PendingAsides /\ aside[s].files[p] # None /\ work[p] = Absent
  BY DEF PutBack
<1> QED
  BY <1>1, <1>2, <1>3, <1>4 DEF AsideRecord, PendingAsides

LEMMA CloseAsideEffect ==
  ASSUME TxnInv, NEW s \in Runs, CloseAside(s)
  PROVE  /\ s \in PendingAsides /\ PendingAsides' = PendingAsides \ {s}
         /\ \A r \in Runs : aside'[r].files = aside[r].files /\ (r # s => aside'[r] = aside[r])
<1>1. aside \in [Runs -> AsideRecord]
  BY DEF TxnInv, TypeOK, BackupType
<1> QED
  BY <1>1 DEF CloseAside, AsideRecord, PendingAsides

LEMMA MoveAsideEffect ==
  ASSUME TxnInv, NEW p \in Paths, MoveAside(p)
  PROVE  /\ run \in Runs /\ pc = "collide" /\ p \in todo /\ todo' = todo \ {p}
         /\ work[p] = Absent => UNCHANGED <<work, aside>>
         /\ work[p] # Absent =>
              /\ aside'[run].files[p] = work[p] /\ work'[p] = Absent
              /\ PendingAsides' = PendingAsides \cup {run}
         /\ \A q \in Paths : q # p => work'[q] = work[q]
         /\ \A r \in Runs, q \in Paths : r # run \/ q # p => aside'[r].files[q] = aside[r].files[q]
         /\ \A r \in Runs : r # run => aside'[r] = aside[r]
<1>1. aside \in [Runs -> AsideRecord] /\ work \in [Paths -> Object]
  BY DEF TxnInv, TypeOK, BackupType, RepositoryType
<1>2. run \in Runs /\ pc = "collide" /\ p \in todo /\ todo' = todo \ {p}
  BY DEF MoveAside, TxnInv, PcInv
<1>3. CASE work[p] = Absent
  BY <1>2, <1>3 DEF MoveAside
<1>4. CASE work[p] # Absent
  <2>1. /\ aside' = [aside EXCEPT ![run] = [status |-> "pending-collision",
                                           files |-> [aside[run].files EXCEPT ![p] = work[p]]]]
        /\ work' = [work EXCEPT ![p] = Absent]
    BY <1>1, <1>2, <1>4 DEF MoveAside
  <2> QED
    BY <1>1, <1>2, <1>4, <2>1 DEF AsideRecord, PendingAsides
<1> QED
  BY <1>3, <1>4

\* A user without habits edits and stages between runs, once nothing is unresolved.
LEMMA UserEffect ==
  ASSUME Habits = {}, NEW p \in Paths, Stage(p) \/ \E new \in Object : Edit(p, new)
  PROVE  /\ pc = "off" /\ txn.state \in Terminal /\ PendingAsides = {} /\ Pending = {}
         /\ UNCHANGED <<tree, upstream, head, txn, capture, aside, run, pc, failing>>
         /\ UNCHANGED index \/ head \in Commits
<1>1. pc = "off" /\ ~Unresolved
  BY DEF Stage, Edit, Open, Heedful
<1> QED
  BY <1>1 DEF Stage, Edit, Unresolved, Pending, repo, backups

\* The operators of the repository are the same while it is.
LEMMA SameRepository ==
  ASSUME UNCHANGED <<tree, head, index, work>>
  PROVE  /\ Changes' = Changes /\ StagedPaths' = StagedPaths
         /\ \A c : TreeOf(c)' = TreeOf(c)
         /\ \A p : Unknown(p)' = Unknown(p)
         /\ \A old, target : Collisions(old, target)' = Collisions(old, target)
BY DEF Changes, StagedPaths, Unknown, Collisions, TreeOf

\* Nothing of a new run is restorable or put back.
LEMMA NewIsEmpty ==
  ASSUME FreshInv, NEW r \in Runs
  PROVE  /\ r \in PendingAsides => ~Unstarted(r)
         /\ capture[r].status # "none" => ~Uncaptured(r)
BY DEF FreshInv, PendingAsides, NoAside, NoCapture

-----------------------------------------------------------------------------
(* The steps, for each part of the invariant.                                *)

LEMMA FreshStep ==
  ASSUME TxnInv, FreshInv, CopyInv, RestoreInv, Next
  PROVE  FreshInv'
<1>1. run \in Nat /\ (pc # "off" => run \in Runs) /\ Runs \subseteq Nat
  BY BoundsAssumption DEF TxnInv, TypeOK, LoopType, PcInv, Runs
<1> USE DEF repo, backups, loop, Goto
\* The run gets on, and the backups stay.
<1>2. ASSUME \A r \in Runs : /\ Uncaptured(r)' => Uncaptured(r)
                             /\ Unstarted(r)' => Unstarted(r),
             UNCHANGED <<capture, aside>>
      PROVE  FreshInv'
  BY <1>2 DEF FreshInv, NoCapture, NoAside, NoFiles
<1>3. ASSUME UNCHANGED <<run, pc, failing, capture, aside>>
      PROVE  FreshInv'
  BY <1>2, <1>3 DEF Unstarted, Uncaptured
<1>4. ASSUME UNCHANGED <<run, capture, aside>>,
             \/ pc' \notin {"sync", "cloned", "equal", "collide", "capture", "recover", "replay"}
             \/ (failing' /\ pc' \in {"recover", "replay"})
             \/ pc' \in {"sync", "cloned", "recover", "replay"} /\ pc \in {"sync", "cloned", "recover", "replay"}
                /\ (pc \in {"sync", "cloned"} => pc' \in {"sync", "cloned"}) /\ ~failing
             \/ pc' \in {"equal", "collide", "capture"}
                /\ pc \in {"sync", "cloned", "equal", "collide", "capture"}
      PROVE  FreshInv'
  <2>1. \A r \in Runs : /\ Uncaptured(r)' => Uncaptured(r)
                        /\ Unstarted(r)' => Unstarted(r)
    BY <1>4 DEF Unstarted, Uncaptured
  <2> QED
    BY <2>1, <1>2, <1>4
\* The status of a capture of an earlier step changes.
<1>5. ASSUME NEW c \in Runs, capture[c].status # "none", capture'[c].status # "none",
             capture'[c].status = "completed" => capture[c].staged = NoFiles,
             \A r \in Runs : SameFiles(r) /\ (r # c => capture'[r] = capture[r]),
             UNCHANGED <<run, aside>>,
             \A r \in Runs : /\ Uncaptured(r)' => Uncaptured(r)
                             /\ Unstarted(r)' => Unstarted(r)
      PROVE  FreshInv'
  <2>1. ~Uncaptured(c)
    BY <1>5, NewIsEmpty
  <2> QED
    BY <1>5, <2>1 DEF FreshInv, SameFiles, NoCapture, NoAside, NoFiles
<1>6. CASE Recovery
  <2>1. CASE StayBlocked \/ Block
    BY <2>1, <1>4 DEF StayBlocked, Block, Handle, End
  <2>2. CASE AbortBeforeApply \/ RecoverDone
    <3>1. pc = "recover" /\ (failing => pc' = "off") /\ (~failing => pc' = "sync")
      BY <2>2 DEF AbortBeforeApply, RecoverDone, Recovered, End, Resolving, Recovering
    <3> QED
      BY <2>2, <3>1, <1>4 DEF AbortBeforeApply, RecoverDone
  <2>3. CASE Resume
    BY <2>3, <1>3 DEF Resume
  <2>4. CASE RetainCapture
    <3>1. UNCHANGED <<run, pc, failing, aside>>
      BY <2>4 DEF RetainCapture
    <3> QED
      BY <2>4, <3>1, <1>5, RetainEffect DEF Unstarted, Uncaptured
  <2>5. ASSUME NEW r \in Runs, Replay(r)
        PROVE  FreshInv'
    <3>1. pc = "recover" /\ pc' = "replay" /\ UNCHANGED <<run, failing, capture, aside>>
      BY <2>5 DEF Replay, Resolving, Recovering
    <3> QED
      BY <3>1, <1>4
  <2>6. ASSUME NEW s \in Runs, NEW p \in Paths, PutBack(s, p)
        PROVE  FreshInv'
    <3>1. UNCHANGED <<run, pc, failing, capture>>
      BY <2>6 DEF PutBack
    <3>2. ~Unstarted(s) /\ \A r \in Runs : r # s => aside'[r] = aside[r]
      BY <2>6, PutBackEffect, NewIsEmpty
    <3> QED
      BY <3>1, <3>2 DEF FreshInv, Unstarted, Uncaptured, NoCapture, NoAside, NoFiles
  <2>7. ASSUME NEW s \in Runs, CloseAside(s)
        PROVE  FreshInv'
    <3>1. UNCHANGED <<run, pc, failing, capture>>
      BY <2>7 DEF CloseAside
    <3>2. ~Unstarted(s) /\ \A r \in Runs : r # s => aside'[r] = aside[r]
      BY <2>7, CloseAsideEffect, NewIsEmpty
    <3> QED
      BY <3>1, <3>2 DEF FreshInv, Unstarted, Uncaptured, NoCapture, NoAside, NoFiles
  <2> QED
    BY <1>6, <2>1, <2>2, <2>3, <2>4, <2>5, <2>6, <2>7 DEF Recovery
<1>7. CASE Sync
  <2>1. CASE Clone \/ Prepare
    <3>1. ~failing
      BY <2>1 DEF Clone, Prepare, TxnInv, PcInv
    <3> QED
      BY <2>1, <3>1, <1>4 DEF Clone, Prepare
  <2>2. CASE Equal \/ CollideDone \/ CopyDone \/ Record \/ Check
    BY <2>2, <1>4 DEF Equal, CollideDone, CopyDone, Record, Check, End, Handle
  <2>3. CASE Apply \/ ResetHead \/ MarkApplied \/ Finish
    BY <2>3, <1>4 DEF Apply, ResetHead, MarkApplied, Finish, End
  <2>4. CASE Capture
    <3>1. CASE Changes = {}
      <4>1. UNCHANGED <<run, capture, aside>> /\ pc' = "record"
        BY <2>4, <3>1, CaptureEffect DEF Capture
      <4> QED
        BY <4>1, <1>4
    <3>2. CASE Changes # {}
      <4>1. /\ run \in Runs /\ head \in Commits /\ txn.target \in Commits /\ pc' = "copy"
            /\ capture'[run].status = "pending"
            /\ capture'[run].old \in Commits /\ capture'[run].target \in Commits
            /\ \A r \in Runs : r # run => capture'[r] = capture[r]
        BY <2>4, <3>2, CaptureEffect
      <4>2. UNCHANGED <<run, aside>> /\ pc = "capture"
        BY <2>4 DEF Capture
      <4>3. \A r \in Runs : /\ Uncaptured(r)' => r # run /\ Uncaptured(r)
                            /\ Unstarted(r)' => Unstarted(r)
        BY <1>1, <4>1, <4>2 DEF Unstarted, Uncaptured
      <4> QED
        BY <4>1, <4>2, <4>3 DEF FreshInv, NoCapture, NoAside, NoFiles
    <3> QED
      BY <3>1, <3>2
  <2>5. ASSUME NEW p \in Paths, Copy(p)
        PROVE  FreshInv'
    <3>1. /\ run \in Runs /\ pc = "copy" /\ UNCHANGED <<run, pc, failing, aside>>
          /\ capture'[run].status = capture[run].status
          /\ capture'[run].old = capture[run].old /\ capture'[run].target = capture[run].target
          /\ \A r \in Runs : r # run => capture'[r] = capture[r]
      BY <2>5, CopyEffect
    <3>2. ~Uncaptured(run) /\ capture[run].status = "pending"
      BY <1>1, <3>1 DEF CopyInv, Unstarted, Uncaptured
    <3> QED
      BY <3>1, <3>2 DEF FreshInv, Unstarted, Uncaptured, NoCapture, NoAside, NoFiles
  <2>6. CASE RestoreDone
    <3>1. capture[cur].status \in Restorable /\ cur \in Runs /\ outcome \in {"restored", "left", "overridden"}
      BY <2>6 DEF RestoreDone, RestoreInv, Pending, TxnInv, TypeOK, LoopType
    <3>2. /\ RestoredStatus(capture[cur]) # "none"
          /\ RestoredStatus(capture[cur]) = "completed" => capture[cur].staged = NoFiles
      BY <3>1 DEF RestoredStatus, Restorable
    <3>3. UNCHANGED <<run, failing, aside>> /\ pc \in {"restore", "replay"}
          /\ pc' = IF pc = "restore" THEN "finish" ELSE "recover"
      BY <2>6 DEF RestoreDone
    <3>4. \A r \in Runs : /\ Uncaptured(r)' => Uncaptured(r)
                          /\ Unstarted(r)' => Unstarted(r)
      BY <3>3 DEF Unstarted, Uncaptured
    <3> QED
      BY <2>6, <3>1, <3>2, <3>3, <3>4, <1>5, RestoreDoneEffect DEF Restorable
  <2>7. ASSUME NEW p \in Paths, MoveAside(p)
        PROVE  FreshInv'
    <3>1. UNCHANGED <<run, pc, failing, capture>> /\ pc = "collide" /\ run \in Runs
      BY <2>7, MoveAsideEffect DEF MoveAside
    <3>2. ~Unstarted(run) /\ \A r \in Runs : r # run => aside'[r] = aside[r]
      BY <1>1, <3>1, <2>7, MoveAsideEffect DEF Unstarted, Uncaptured
    <3> QED
      BY <3>1, <3>2 DEF FreshInv, Unstarted, Uncaptured, NoCapture, NoAside, NoFiles
  <2>8. ASSUME NEW p \in Paths, ResetPath(p) \/ RestorePath(p)
        PROVE  FreshInv'
    BY <2>8, <1>3 DEF ResetPath, RestorePath
  <2> QED
    BY <1>7, <2>1, <2>2, <2>3, <2>4, <2>5, <2>6, <2>7, <2>8 DEF Sync
<1>8. CASE Launch
  <2>1. run' = run + 1 /\ pc = "off" /\ pc' = "recover" /\ UNCHANGED <<capture, aside>>
    BY <1>8 DEF Launch
  <2>2. \A r \in Runs : r >= run' => r > run
    BY <1>1, <2>1
  <2> QED
    BY <2>1, <2>2, <1>1, <1>2 DEF Unstarted, Uncaptured
<1>9. CASE Error \/ Crash
  BY <1>9, <1>4 DEF Error, Crash, Handle, End
<1>10. ASSUME NEW c \in Runs, Prune(c)
       PROVE  FreshInv'
  <2>1. /\ capture'[c] = NoCapture /\ \A r \in Runs : r # c => capture'[r] = capture[r]
        /\ UNCHANGED <<run, pc, failing, aside>>
    BY <1>10 DEF Prune, TxnInv, TypeOK, BackupType
  <2> QED
    BY <2>1 DEF FreshInv, Unstarted, Uncaptured, NoCapture
<1>11. CASE Push \/ \E p \in Paths : Stage(p) \/ \E new \in Object : Edit(p, new)
  BY <1>11, <1>3 DEF Push, Stage, Edit
<1> QED
  BY <1>6, <1>7, <1>8, <1>9, <1>10, <1>11 DEF Next, Environment

LEMMA OrderStep ==
  ASSUME TxnInv, FreshInv, OrderInv, UnbornInv, AsideInv, Next
  PROVE  OrderInv'
<1> DEFINE Done(t) == t \in Terminal \cup {"reset-applied"}
           Sure == {"collide", "capture", "copy", "record", "check", "apply"}
<1>1. /\ Commits \subseteq Nat /\ upstream \in Commits /\ head \in Heads
      /\ txn \in TxnRecord /\ None \notin Commits
      /\ capture \in [Runs -> CaptureRecord] /\ PcInv /\ HeadInv
  BY ValuesAssumption DEF TxnInv, TypeOK, RepositoryType, BackupType, Commits
<1> USE DEF repo, backups, loop, Goto
\* The run gets on, and the commits stay.
<1>2. ASSUME UNCHANGED <<upstream, head>>, txn'.target = txn.target, txn'.old = txn.old,
             txn'.state \notin Terminal => txn.state \notin Terminal,
             Done(txn'.state) /\ PendingAsides' # {} => Done(txn.state) /\ PendingAsides # {},
             \A r \in Runs : capture'[r].target \in {capture[r].target, None},
             pc' \in Sure => pc \in Sure
      PROVE  OrderInv'
  BY <1>1, <1>2 DEF OrderInv, Captured
<1>3. ASSUME UNCHANGED <<upstream, head, txn, capture, aside>>, pc' \in Sure => pc \in Sure
      PROVE  OrderInv'
  <2>1. PendingAsides' = PendingAsides
    BY <1>3 DEF PendingAsides
  <2> QED
    BY <2>1, <1>2, <1>3
<1>4. ASSUME NEW state, Write(state), UNCHANGED <<upstream, head, capture, aside>>,
             txn.state \notin Terminal \/ state \in Terminal,
             Done(state) => Done(txn.state) \/ PendingAsides = {},
             pc' \in Sure => pc \in Sure
      PROVE  OrderInv'
  <2>1. PendingAsides' = PendingAsides
    BY <1>4 DEF PendingAsides
  <2>2. txn'.state = state /\ txn'.target = txn.target /\ txn'.old = txn.old
    BY <1>1, <1>4 DEF Write, TxnRecord
  <2>3. UNCHANGED <<upstream, head>> /\ \A r \in Runs : capture'[r].target = capture[r].target
    BY <1>4
  <2> QED
    BY <2>1, <2>2, <2>3, <1>2, <1>4
<1>5. CASE Recovery
  <2>1. CASE StayBlocked \/ RecoverDone
    BY <2>1, <1>3 DEF StayBlocked, RecoverDone, Recovered, End
  <2>2. CASE Block
    BY <2>2, <1>4 DEF Block, Handle, End, Terminal
  <2>3. CASE AbortBeforeApply
    BY <2>3, <1>4 DEF AbortBeforeApply, Resolving, Recovered, End, Terminal
  <2>4. CASE Resume
    BY <2>4, <1>4 DEF Resume, Resolving, Terminal
  <2>5. CASE RetainCapture
    <3>1. UNCHANGED <<upstream, head, txn, aside, pc>> /\ PendingAsides' = PendingAsides
      BY <2>5 DEF RetainCapture, PendingAsides
    <3> QED
      BY <3>1, <1>2, <2>5, RetainEffect DEF SameFiles
  <2>6. ASSUME NEW r \in Runs, Replay(r)
        PROVE  OrderInv'
    BY <2>6, <1>3 DEF Replay
  <2>7. ASSUME NEW r \in Runs, CloseAside(r) \/ \E p \in Paths : PutBack(r, p)
        PROVE  OrderInv'
    <3>1. UNCHANGED <<upstream, head, txn, capture, pc>>
      BY <2>7 DEF CloseAside, PutBack
    <3>2. PendingAsides' \subseteq PendingAsides
      BY <2>7, CloseAsideEffect, PutBackEffect
    <3> QED
      BY <3>1, <3>2, <1>2
  <2> QED
    BY <1>5, <2>1, <2>2, <2>3, <2>4, <2>5, <2>6, <2>7 DEF Recovery
<1>6. CASE Sync
  <2>1. CASE Clone
    <3>1. UNCHANGED <<upstream, txn, capture, aside>> /\ pc = "sync" /\ pc' = "cloned" /\ head' = upstream
      BY <2>1 DEF Clone
    <3>2. PendingAsides' = {}
      BY <3>1 DEF AsideInv, PendingAsides
    <3> QED
      BY <1>1, <3>1, <3>2 DEF OrderInv, Captured
  <2>2. CASE Prepare
    <3>1. /\ UNCHANGED <<upstream, head, capture, aside>> /\ pc \in {"sync", "cloned"}
          /\ txn'.old = (IF pc = "cloned" THEN Unborn ELSE head)
          /\ txn'.target = (IF pc = "cloned" THEN head ELSE upstream)
          /\ txn'.state = "prepared" /\ head # NoRepo
          /\ pc' \in {"equal", "collide"} /\ (pc' = "collide" => txn'.old # txn'.target)
      BY <2>2 DEF Prepare
    <3>2. pc = "cloned" => head \in Commits /\ \A r \in Runs : ~Captured(r)
      BY <1>1, <3>1 DEF HeadInv, UnbornInv, FirstCheckout, NoCapture, Captured
    <3>3. txn'.target \in Commits /\ txn'.target <= upstream
      BY <1>1, <3>1, <3>2 DEF OrderInv
    <3>4. \A r \in Runs : capture'[r].target \in Commits =>
            capture'[r].target <= upstream /\ capture'[r].target <= txn'.target
      BY <1>1, <3>1, <3>2 DEF OrderInv, Captured
    <3>5. pc' = "collide" /\ txn'.old # Unborn => head' \in Commits /\ head' < txn'.target
      BY <1>1, <3>1, <3>3 DEF OrderInv, Heads
    <3> QED
      BY <1>1, <3>1, <3>3, <3>4, <3>5 DEF OrderInv, Captured, Terminal
  <2>3. CASE Equal
    BY <2>3, <1>4, <1>1 DEF Equal, AsideInv, PcInv, Terminal, End
  <2>4. CASE CollideDone
    BY <2>4, <1>4, <1>1 DEF CollideDone, PcInv, Terminal
  <2>5. CASE Capture
    <3>1. /\ UNCHANGED <<upstream, head, txn, aside>> /\ pc = "capture" /\ run \in Runs
          /\ txn.target \in Commits /\ txn.state = "collisions-durable"
      BY <1>1, <2>5, CaptureEffect DEF Capture, PcInv
    <3>2. \A r \in Runs : capture'[r].target \in {capture[r].target, txn.target}
      BY <2>5, <3>1, CaptureEffect
    <3>3. \A r \in Runs : capture'[r].target \in Commits =>
            capture'[r].target <= upstream /\ capture'[r].target <= txn.target
      <4>0. txn.target \in Nat
        BY <1>1, <3>1
      <4>1. txn.target <= upstream /\ txn.target <= txn.target
        BY <4>0, <3>1 DEF OrderInv
      <4>2. \A r \in Runs : capture[r].target \in Commits =>
              capture[r].target <= upstream /\ capture[r].target <= txn.target
        BY <3>1 DEF OrderInv, Captured, Terminal
      <4> QED
        BY <3>2, <4>1, <4>2
    <3>4. txn.old # Unborn => head \in Commits /\ head < txn.target
      BY <3>1 DEF OrderInv
    <3> QED
      BY <1>1, <3>1, <3>3, <3>4 DEF OrderInv, Captured, Terminal
  <2>6. ASSUME NEW p \in Paths, Copy(p)
        PROVE  OrderInv'
    <3>1. UNCHANGED <<upstream, head, txn, aside, pc>> /\ PendingAsides' = PendingAsides
      BY <2>6, CopyEffect DEF PendingAsides
    <3>2. \A r \in Runs : capture'[r].target = capture[r].target
      BY <2>6, CopyEffect
    <3> QED
      BY <3>1, <3>2, <1>2
  <2>7. CASE Record
    <3>1. /\ UNCHANGED <<upstream, head, capture, aside>> /\ pc' = "check" /\ pc = "record"
          /\ txn'.target = txn.target /\ txn'.old = txn.old /\ txn'.state = "snapshot-durable"
          /\ PendingAsides' = PendingAsides
      BY <1>1, <2>7 DEF Record, TxnRecord, PendingAsides
    <3> QED
      BY <1>1, <3>1, <1>2 DEF PcInv, Terminal
  <2>8. CASE CopyDone \/ Check
    BY <2>8, <1>3 DEF CopyDone, Check, Handle, End
  <2>9. CASE Apply
    BY <2>9, <1>4, <1>1 DEF Apply, PcInv, Terminal
  <2>10. CASE ResetHead
    <3>1. /\ UNCHANGED <<upstream, txn, capture, aside, pc>> /\ pc = "reset" /\ head' = txn.target
          /\ txn.state = "applying"
      BY <1>1, <2>10 DEF ResetHead, PcInv
    <3> QED
      BY <1>1, <3>1 DEF OrderInv, Captured, Terminal
  <2>11. CASE MarkApplied
    <3>1. /\ UNCHANGED <<upstream, head, capture, aside>> /\ pc' \in {"finish", "restore"} /\ head = txn.target
          /\ txn.state = "applying" /\ txn'.target = txn.target /\ txn'.state = "reset-applied"
      BY <1>1, <2>11 DEF MarkApplied, PcInv, Write, TxnRecord
    <3>2. txn.target \in Commits
      BY <1>1, <3>1 DEF HeadInv, Terminal
    <3> QED
      BY <1>1, <3>1, <3>2 DEF OrderInv, Captured, Terminal
  <2>12. CASE RestoreDone
    <3>1. UNCHANGED <<upstream, head, txn, aside>> /\ pc' \in {"finish", "recover"} /\ PendingAsides' = PendingAsides
      BY <2>12 DEF RestoreDone, PendingAsides
    <3> QED
      BY <3>1, <1>2, <2>12, RestoreDoneEffect DEF SameFiles
  <2>13. CASE Finish
    BY <2>13, <1>4, <1>1 DEF Finish, PcInv, Terminal, End
  <2>14. ASSUME NEW p \in Paths, MoveAside(p)
         PROVE  OrderInv'
    <3>1. UNCHANGED <<upstream, head, txn, capture, pc>> /\ txn.state = "prepared"
      BY <1>1, <2>14 DEF MoveAside, PcInv
    <3> QED
      BY <3>1, <1>2 DEF Terminal
  <2>15. ASSUME NEW p \in Paths, ResetPath(p) \/ RestorePath(p)
         PROVE  OrderInv'
    BY <2>15, <1>3 DEF ResetPath, RestorePath
  <2> QED
    BY <1>6, <2>1, <2>2, <2>3, <2>4, <2>5, <2>6, <2>7, <2>8, <2>9, <2>10, <2>11, <2>12, <2>13,
       <2>14, <2>15 DEF Sync
<1>7. CASE Launch \/ Error \/ Crash
  BY <1>7, <1>3 DEF Launch, Error, Crash, Handle, End
<1>8. CASE Push
  <2>1. /\ upstream' = upstream + 1 /\ UNCHANGED <<head, txn, capture, pc>>
        /\ PendingAsides' = PendingAsides
    BY <1>8 DEF Push, PendingAsides
  <2>2. \A n \in Nat : n <= upstream => n <= upstream'
    BY <1>1, <2>1
  <2>3. \A r \in Runs : Captured(r)' = Captured(r)
    BY <2>1 DEF Captured
  <2>4. \A r \in Runs : Captured(r) => capture[r].target \in Nat
    BY <1>1 DEF Captured
  <2> QED
    BY <1>1, <2>1, <2>2, <2>3, <2>4 DEF OrderInv
<1>9. ASSUME NEW c \in Runs, Prune(c)
      PROVE  OrderInv'
  <2>1. /\ \A r \in Runs : capture'[r].target \in {capture[r].target, None}
        /\ UNCHANGED <<upstream, head, txn, aside, pc>> /\ PendingAsides' = PendingAsides
    BY <1>1, <1>9 DEF Prune, NoCapture, PendingAsides
  <2> QED
    BY <2>1, <1>2
<1>10. CASE \E p \in Paths : Stage(p) \/ \E new \in Object : Edit(p, new)
  BY <1>10, <1>3 DEF Stage, Edit
<1> QED
  BY <1>5, <1>6, <1>7, <1>8, <1>9, <1>10 DEF Next, Environment

LEMMA UnbornStep ==
  ASSUME TxnInv, UnbornInv, RestoreInv, Habits = {}, Next
  PROVE  UnbornInv'
<1> DEFINE Empty == \/ txn.state \notin InDoubt /\ head \notin Commits
                    \/ pc = "cloned" \/ (pc \in {"collide", "apply"} /\ txn.old = Unborn)
<1>1. /\ upstream \in Commits /\ head \in Heads /\ txn \in TxnRecord
      /\ capture \in [Runs -> CaptureRecord] /\ PcInv /\ HeadInv /\ Unborn \notin Commits
  BY ValuesAssumption DEF TxnInv, TypeOK, RepositoryType, BackupType
<1> USE DEF repo, backups, loop, Goto
<1>2. ASSUME FirstCheckout' => FirstCheckout /\ UNCHANGED <<capture, staged>>,
             Empty' => Empty /\ UNCHANGED index
      PROVE  UnbornInv'
  BY <1>2 DEF UnbornInv, NoCapture, NoFiles
\* The run gets on without a checkout.
<1>3. ASSUME UNCHANGED <<head, index, capture, staged>>,
             \/ UNCHANGED txn
             \/ txn'.old = txn.old /\ txn'.state \notin PreApply \cup {"applying"} /\ (txn.state \in InDoubt => txn'.state \in InDoubt),
             pc' \in {pc, "off", "recover", "sync", "replay", "restore", "finish"}
      PROVE  UnbornInv'
  BY <1>2, <1>3 DEF FirstCheckout
<1>4. CASE Recovery
  <2>1. CASE StayBlocked \/ RecoverDone
    BY <2>1, <1>3 DEF StayBlocked, RecoverDone, Recovered, End, user
  <2>2. CASE Block \/ AbortBeforeApply \/ Resume
    <3>1. /\ txn'.old = txn.old /\ txn'.state \notin PreApply \cup {"applying"}
          /\ txn.state \in InDoubt => txn'.state \in InDoubt
      BY <1>1, <2>2 DEF Block, AbortBeforeApply, Resume, Resumable, Write, TxnRecord, InDoubt, PreApply
    <3>2. UNCHANGED <<head, index, capture, staged>> /\ pc' \in {pc, "off", "recover", "sync"}
      BY <2>2 DEF Block, AbortBeforeApply, Resume, Handle, Recovered, End, user
    <3> QED
      BY <3>1, <3>2, <1>3
  <2>3. CASE RetainCapture
    <3>1. UNCHANGED <<head, index, txn, staged, pc>>
      BY <2>3 DEF RetainCapture, user
    <3>2. ~FirstCheckout
      BY <2>3, RetainEffect DEF UnbornInv, NoCapture
    <3> QED
      BY <3>1, <3>2, <1>2 DEF FirstCheckout
  <2>4. CASE \E r \in Runs : Replay(r) \/ CloseAside(r) \/ \E p \in Paths : PutBack(r, p)
    BY <2>4, <1>3 DEF Replay, CloseAside, PutBack, user
  <2> QED
    BY <1>4, <2>1, <2>2, <2>3, <2>4 DEF Recovery
<1>5. CASE Sync
  <2>1. CASE Clone
    <3>1. /\ UNCHANGED <<index, txn, capture, staged>> /\ pc = "sync" /\ head = NoRepo
          /\ txn.state \in Terminal
      BY <1>1, <2>1 DEF Clone, PcInv, user
    <3> QED
      BY <3>1, <1>2, ValuesAssumption DEF FirstCheckout, InDoubt, Terminal
  <2>2. CASE Prepare
    <3>1. /\ UNCHANGED <<head, index, capture, staged>> /\ pc \in {"sync", "cloned"}
          /\ txn'.old = (IF pc = "cloned" THEN Unborn ELSE head)
          /\ txn'.state = "prepared" /\ pc' \in {"equal", "collide"} /\ txn.state \in Terminal
      BY <1>1, <2>2 DEF Prepare, PcInv, user
    <3> QED
      BY <1>1, <3>1, <1>2 DEF FirstCheckout, InDoubt, Terminal
  <2>3. CASE Equal \/ Finish
    <3>1. /\ txn'.old = txn.old /\ txn'.state = "completed" /\ txn.state \notin InDoubt
      BY <1>1, <2>3 DEF Equal, Finish, Write, TxnRecord, InDoubt, PcInv
    <3>2. UNCHANGED <<head, index, capture, staged>> /\ pc' = "off"
      BY <2>3 DEF Equal, Finish, End, user
    <3> QED
      BY <3>1, <3>2, <1>3 DEF PreApply
  <2>4. CASE CollideDone \/ Apply
    <3>1. /\ UNCHANGED <<head, index, capture, staged>> /\ txn'.old = txn.old /\ txn.state \in PreApply
          /\ pc' \in {"capture", "reset"} \/ (pc = "collide" /\ pc' = "apply")
      BY <1>1, <2>4 DEF CollideDone, Apply, Write, TxnRecord, PcInv, PreApply, user
    <3> QED
      BY <3>1, <1>2 DEF FirstCheckout, InDoubt, PreApply
  <2>5. CASE Record
    <3>1. /\ UNCHANGED <<head, index, capture, staged>> /\ txn'.old = txn.old /\ txn.state \in PreApply
          /\ pc' = "check"
      BY <1>1, <2>5 DEF Record, TxnRecord, PcInv, PreApply, user
    <3> QED
      BY <3>1, <1>2 DEF FirstCheckout, InDoubt, PreApply
  <2>6. ASSUME Capture \/ \E p \in Paths : Copy(p)
        PROVE  UnbornInv'
    <3>1. /\ UNCHANGED <<head, index, txn, staged>> /\ head \in Commits /\ txn.old \in Commits
          /\ pc' \in {"copy", "record"}
      BY <1>1, <2>6 DEF Capture, Copy, HeadInv, PcInv, PreApply, user
    <3> QED
      BY <1>1, <3>1, <1>2 DEF FirstCheckout
  <2>7. CASE CopyDone \/ Check
    <3>1. UNCHANGED <<head, index, txn, capture, staged>> /\ pc' \in {"record", "apply", "off", "recover"}
          /\ txn.old \in Commits
      BY <1>1, <2>7 DEF CopyDone, Check, Handle, End, HeadInv, user
    <3> QED
      BY <1>1, <3>1, <1>2 DEF FirstCheckout
  <2>8. CASE ResetHead
    <3>1. UNCHANGED <<index, txn, capture, staged, pc>> /\ pc = "reset" /\ txn.state = "applying"
          /\ head' \in Commits
      BY <1>1, <2>8 DEF ResetHead, PcInv, HeadInv, Terminal, user
    <3> QED
      BY <3>1, <1>2 DEF FirstCheckout, InDoubt
  <2>9. CASE MarkApplied
    <3>1. /\ UNCHANGED <<head, capture, staged>> /\ txn'.state = "reset-applied" /\ pc' \in {"finish", "restore"}
          /\ head \in Commits
      BY <1>1, <2>9 DEF MarkApplied, PcInv, HeadInv, Terminal, Write, TxnRecord, user
    <3> QED
      BY <3>1, <1>2 DEF FirstCheckout, PreApply
  <2>10. CASE RestoreDone
    <3>1. UNCHANGED <<head, index, txn, staged>> /\ pc' \in {"finish", "recover"}
      BY <2>10 DEF RestoreDone, user
    <3>2. ~FirstCheckout
      BY <2>10 DEF RestoreDone, RestoreInv, Pending, Restorable, UnbornInv, NoCapture
    <3> QED
      BY <3>1, <3>2, <1>2 DEF FirstCheckout
  <2>11. ASSUME NEW p \in Paths, ResetPath(p)
         PROVE  UnbornInv'
    <3>1. UNCHANGED <<head, txn, capture, staged, pc>> /\ pc = "reset" /\ txn.state = "applying"
      BY <1>1, <2>11 DEF ResetPath, PcInv, user
    <3> QED
      BY <3>1, <1>2 DEF FirstCheckout, InDoubt
  <2>12. CASE \E p \in Paths : MoveAside(p) \/ RestorePath(p)
    BY <2>12, <1>3 DEF MoveAside, RestorePath, user
  <2> QED
    BY <1>5, <2>1, <2>2, <2>3, <2>4, <2>5, <2>6, <2>7, <2>8, <2>9, <2>10, <2>11, <2>12 DEF Sync
<1>6. CASE Launch \/ Error \/ Crash \/ Push
  BY <1>6, <1>3 DEF Launch, Error, Crash, Push, Handle, End, user
<1>7. ASSUME NEW c \in Runs, Prune(c)
      PROVE  UnbornInv'
  <2>1. UNCHANGED <<head, index, txn, staged, pc>>
    BY <1>7 DEF Prune, user
  <2>2. \A r \in Runs : capture'[r] \in {capture[r], NoCapture}
    BY <1>1, <1>7 DEF Prune
  <2> QED
    BY <2>1, <2>2 DEF UnbornInv, FirstCheckout, NoCapture, NoFiles
<1>8. ASSUME NEW p \in Paths, Stage(p) \/ \E new \in Object : Edit(p, new)
      PROVE  UnbornInv'
  <2>1. pc = "off" /\ txn.state \in Terminal /\ UNCHANGED <<head, txn, capture, pc>>
    BY <1>8, UserEffect
  <2>2. head \in Commits \/ UNCHANGED <<index, staged>>
    BY <1>8 DEF Stage, Edit
  <2> QED
    BY <2>1, <2>2, <1>2 DEF FirstCheckout, Terminal, PreApply
<1> QED
  BY <1>4, <1>5, <1>6, <1>7, <1>8 DEF Next, Environment

\* The actions that change neither files, nor the index, nor a backup.
Quiet ==
  \/ Launch \/ StayBlocked \/ AbortBeforeApply \/ Block \/ Resume \/ RecoverDone
  \/ \E r \in Runs : Replay(r)
  \/ Prepare \/ Equal \/ CollideDone \/ CopyDone \/ Record \/ Check \/ Apply
  \/ Finish \/ Error \/ Crash \/ Push

LEMMA QuietEffect ==
  ASSUME Quiet \/ MarkApplied
  PROVE  UNCHANGED <<tree, head, index, work, capture, aside, authored, staged>>
<1>1. CASE Launch \/ StayBlocked \/ RecoverDone \/ (\E r \in Runs : Replay(r)) \/ CopyDone \/ Check
           \/ Error \/ Crash \/ Push
  BY <1>1 DEF Launch, StayBlocked, RecoverDone, Replay, CopyDone, Check, Error, Crash, Push,
              repo, backups, user
<1>2. CASE AbortBeforeApply \/ Block \/ Resume
  BY <1>2 DEF AbortBeforeApply, Block, Resume, repo, user
<1>3. CASE Prepare \/ Record \/ Equal \/ Finish \/ CollideDone \/ Apply \/ MarkApplied
  BY <1>3 DEF Prepare, Record, Equal, Finish, CollideDone, Apply, MarkApplied, repo, user
<1> QED
  BY <1>1, <1>2, <1>3 DEF Quiet

\* None of them settles a reset.
LEMMA QuietDoubt ==
  ASSUME TxnInv, Quiet
  PROVE  txn'.state \notin InDoubt => txn.state \notin InDoubt
<1>1. txn \in TxnRecord /\ PcInv
  BY DEF TxnInv, TypeOK, BackupType
<1>2. CASE Launch \/ StayBlocked \/ RecoverDone \/ (\E r \in Runs : Replay(r)) \/ CopyDone \/ Check
           \/ Error \/ Crash \/ Push
  BY <1>2 DEF Launch, StayBlocked, RecoverDone, Replay, CopyDone, Check, Error, Crash, Push, backups
<1>3. CASE AbortBeforeApply \/ Block \/ Resume
  BY <1>1, <1>3 DEF AbortBeforeApply, Block, Resume, Resumable, Write, TxnRecord, InDoubt, PreApply
<1>4. CASE Prepare \/ Record \/ Equal \/ Finish \/ CollideDone \/ Apply
  BY <1>1, <1>4 DEF Prepare, Record, Equal, Finish, CollideDone, Apply, PcInv, InDoubt, Terminal
<1> QED
  BY <1>2, <1>3, <1>4 DEF Quiet

\* Every other one.
LEMMA StepCases ==
  ASSUME Next
  PROVE  \/ Quiet \/ MarkApplied \/ RetainCapture \/ RestoreDone \/ Clone \/ Capture \/ ResetHead
         \/ \E r \in Runs : CloseAside(r) \/ Prune(r) \/ \E p \in Paths : PutBack(r, p)
         \/ \E p \in Paths : MoveAside(p) \/ Copy(p) \/ ResetPath(p) \/ RestorePath(p)
         \/ \E p \in Paths : Stage(p) \/ \E new \in Object : Edit(p, new)
BY DEF Next, Recovery, Sync, Environment, Quiet

LEMMA AsideStep ==
  ASSUME TxnInv, FreshInv, AsideInv, Habits = {}, Next
  PROVE  AsideInv'
<1> DEFINE Clear == {"sync", "cloned", "equal"}
           Past == {"capture", "copy", "record", "check", "apply"}
<1>1. /\ txn \in TxnRecord /\ aside \in [Runs -> AsideRecord] /\ work \in [Paths -> Object]
      /\ PcInv /\ HeadInv
  BY DEF TxnInv, TypeOK, BackupType, RepositoryType
<1> USE DEF repo, backups, loop, Goto
\* The run gets on, and the files stay.
<1>2. ASSUME UNCHANGED <<tree, head, index, work, aside>>,
             txn'.old = txn.old /\ txn'.target = txn.target,
             txn'.state \in PreApply => txn.state \in PreApply,
             pc' \in Clear => pc \in Clear \/ PendingAsides = {},
             pc' = "collide" => pc = "collide" /\ UNCHANGED <<run, todo>>,
             pc' \in Past => pc \in Past \/ (pc = "collide" /\ todo = {})
      PROVE  AsideInv'
  <2>1. PendingAsides' = PendingAsides
    BY <1>2 DEF PendingAsides
  <2>2. \A p : Unknown(p)' = Unknown(p)
    BY <1>2, SameRepository
  <2>3. Collisions(txn.old, txn.target)' = Collisions(txn.old, txn.target)
    BY <1>2, SameRepository
  <2> QED
    BY <1>2, <2>1, <2>2, <2>3 DEF AsideInv, NoAside, NoFiles
\* The run is elsewhere.
<1>3. ASSUME pc' \notin Clear \cup Past \cup {"collide"}, txn'.state \notin PreApply
      PROVE  AsideInv'
  BY <1>3 DEF AsideInv
<1>4. CASE Recovery
  <2>1. CASE StayBlocked \/ RecoverDone
    BY <2>1, <1>2 DEF StayBlocked, RecoverDone, Resolving, Recovered, End
  <2>2. CASE AbortBeforeApply
    <3>1. txn'.old = txn.old /\ txn'.target = txn.target /\ txn'.state = "aborted-before-apply"
      BY <1>1, <2>2 DEF AbortBeforeApply, Write, TxnRecord
    <3>2. UNCHANGED <<tree, head, index, work, aside>> /\ pc' \in {"off", "sync"} /\ PendingAsides = {}
      BY <2>2 DEF AbortBeforeApply, Resolving, Recovered, End
    <3> QED
      BY <3>1, <3>2, <1>2 DEF PreApply
  <2>3. CASE Block \/ Resume
    <3>1. txn'.state \in {"recovery-blocked", "completed"}
      BY <1>1, <2>3 DEF Block, Resume, Write, TxnRecord
    <3>2. pc' \in {"off", "recover"}
      BY <2>3 DEF Block, Resume, Handle, End, Resolving, Recovering
    <3> QED
      BY <3>1, <3>2, <1>3 DEF PreApply
  <2>4. CASE RetainCapture \/ \E r \in Runs : Replay(r)
    BY <2>4, <1>2 DEF RetainCapture, Replay, Resolving, Recovering
  <2>5. ASSUME NEW s \in Runs, CloseAside(s) \/ \E p \in Paths : PutBack(s, p)
        PROVE  AsideInv'
    <3>1. UNCHANGED <<tree, head, index, txn, pc>> /\ pc = "recover"
      BY <2>5 DEF CloseAside, PutBack, Recovering
    <3>2. PendingAsides' \subseteq PendingAsides /\ PendingAsides \subseteq Runs
      BY <2>5, CloseAsideEffect, PutBackEffect DEF PendingAsides
    <3>3. \A r \in Runs, p \in Paths : aside'[r].files[p] \in {aside[r].files[p], None}
      <4>1. CASE CloseAside(s)
        BY <4>1, CloseAsideEffect
      <4>2. ASSUME NEW p \in Paths, PutBack(s, p)
            PROVE  \A r \in Runs, q \in Paths : aside'[r].files[q] \in {aside[r].files[q], None}
        BY <4>2, PutBackEffect
      <4> QED
        BY <2>5, <4>1, <4>2
    <3>4. \A p : Unknown(p)' = Unknown(p)
      BY <3>1 DEF Unknown, TreeOf
    <3> QED
      BY <3>1, <3>2, <3>3, <3>4 DEF AsideInv
  <2> QED
    BY <1>4, <2>1, <2>2, <2>3, <2>4, <2>5 DEF Recovery
<1>5. CASE Sync
  <2>1. CASE Clone
    <3>1. UNCHANGED <<txn, aside>> /\ pc = "sync" /\ pc' = "cloned" /\ txn.state \in Terminal
      BY <1>1, <2>1 DEF Clone, PcInv
    <3> QED
      BY <3>1 DEF AsideInv, PendingAsides, Terminal, PreApply
  <2>2. CASE Prepare
    <3> DEFINE old == IF pc = "cloned" THEN Unborn ELSE head
               target == IF pc = "cloned" THEN head ELSE upstream
    <3>1. /\ UNCHANGED <<tree, head, index, work, aside, run>> /\ pc \in {"sync", "cloned"}
          /\ txn'.old = old /\ txn'.target = target /\ pc' \in {"equal", "collide"}
          /\ pc' = "collide" => todo' = Collisions(old, target)
      BY <2>2 DEF Prepare
    <3>2. PendingAsides' = {}
      BY <3>1 DEF AsideInv, PendingAsides
    <3>3. run \in Runs /\ aside[run] = NoAside
      BY <1>1, <3>1 DEF PcInv, FreshInv, Unstarted
    <3>4. \A p : Unknown(p)' = Unknown(p)
      BY <3>1, SameRepository
    <3>5. \A p \in Collisions(old, target) : old = Unborn \/ Unknown(p)
      BY DEF Collisions, Unknown
    <3>6. Collisions(old, target) \subseteq Paths
      BY DEF Collisions
    <3>7. pc' = "collide" => /\ Collisions(txn.old, txn.target)' \subseteq todo'
                             /\ \A p \in todo' : txn'.old = Unborn \/ Unknown(p)'
      <4>1. Collisions(txn.old, txn.target)' = Collisions(old, target)
        BY <3>1 DEF Collisions, TreeOf
      <4> QED
        BY <3>1, <3>4, <3>5, <4>1
    <3>8. aside'[run'] = NoAside' /\ \A p \in todo' : pc' = "collide" => aside'[run'].files[p] = None
      BY <3>1, <3>3, <3>6 DEF NoAside, NoFiles
    <3> QED
      BY <3>1, <3>2, <3>7, <3>8 DEF AsideInv
  <2>3. CASE Equal
    <3>1. txn'.state = "completed" /\ pc' = "off"
      BY <1>1, <2>3 DEF Equal, Write, TxnRecord, End
    <3> QED
      BY <3>1, <1>3 DEF PreApply
  <2>4. CASE Finish \/ MarkApplied \/ Apply
    <3>1. txn'.state \notin PreApply /\ pc' \in {"off", "finish", "restore", "reset"}
      BY <1>1, <2>4 DEF Finish, MarkApplied, Apply, Write, TxnRecord, End, PreApply
    <3> QED
      BY <3>1, <1>3
  <2>5. CASE CollideDone
    <3>1. txn'.old = txn.old /\ txn'.target = txn.target /\ txn.state \in PreApply
      BY <1>1, <2>5 DEF CollideDone, Write, TxnRecord, PcInv, PreApply
    <3>2. UNCHANGED <<tree, head, index, work, aside>> /\ pc = "collide" /\ todo = {} /\ pc' \in Past
      BY <2>5 DEF CollideDone
    <3> QED
      BY <3>1, <3>2, <1>2
  <2>6. CASE Record
    <3>1. txn'.old = txn.old /\ txn'.target = txn.target /\ txn.state \in PreApply
      BY <1>1, <2>6 DEF Record, TxnRecord, PcInv, PreApply
    <3>2. UNCHANGED <<tree, head, index, work, aside>> /\ pc = "record" /\ pc' = "check"
      BY <2>6 DEF Record
    <3> QED
      BY <3>1, <3>2, <1>2
  <2>7. CASE Capture \/ CopyDone \/ Check
    BY <2>7, <1>2 DEF Capture, CopyDone, Check, Handle, End
  <2>8. CASE \E p \in Paths : Copy(p)
    BY <2>8, <1>2 DEF Copy
  <2>9. ASSUME NEW p \in Paths, MoveAside(p)
        PROVE  AsideInv'
    <3>1. UNCHANGED <<tree, head, index, txn, pc, run>> /\ pc = "collide"
      BY <2>9 DEF MoveAside
    <3>2. /\ run \in Runs /\ p \in todo /\ todo' = todo \ {p}
          /\ work[p] = Absent => UNCHANGED <<work, aside>>
          /\ work[p] # Absent => /\ aside'[run].files[p] = work[p] /\ work'[p] = Absent
                                 /\ PendingAsides' = PendingAsides \cup {run}
          /\ \A q \in Paths : q # p => work'[q] = work[q]
          /\ \A r \in Runs, q \in Paths : r # run \/ q # p => aside'[r].files[q] = aside[r].files[q]
      BY <2>9, MoveAsideEffect
    <3>3. \A q : Unknown(q)' = Unknown(q)
      BY <3>1 DEF Unknown, TreeOf
    <3>4. work[p] = Absent => UNCHANGED PendingAsides
      BY <3>2 DEF PendingAsides
    <3>5. \A q \in todo : aside[run].files[q] = None /\ (txn.old = Unborn \/ Unknown(q))
      BY <3>1 DEF AsideInv
    <3>6. run \notin PendingAsides => \A q \in Paths : aside[run].files[q] = None
      BY <3>1 DEF AsideInv, NoAside, NoFiles
    <3>7. txn.old # Unborn => \A r \in PendingAsides', q \in Paths : aside'[r].files[q] # None => Unknown(q)
      <4> SUFFICES ASSUME txn.old # Unborn, NEW r \in PendingAsides', NEW q \in Paths,
                          aside'[r].files[q] # None
                   PROVE  Unknown(q)
        OBVIOUS
      <4>1. r \in Runs
        BY DEF PendingAsides
      <4>2. CASE r = run /\ q = p
        BY <3>2, <3>5, <4>2
      <4>3. CASE r # run \/ q # p
        <5>1. aside[r].files[q] # None
          BY <3>2, <4>1, <4>3
        <5>2. r \in PendingAsides
          BY <3>2, <3>4, <3>6, <5>1
        <5>3. txn.state \in PreApply
          BY <1>1, <3>1 DEF PcInv, PreApply
        <5> QED
          BY <5>1, <5>2, <5>3 DEF AsideInv
      <4> QED
        BY <4>2, <4>3
    <3>8. aside'[run] = NoAside' \/ run \in PendingAsides'
      BY <3>1, <3>2, <3>4 DEF AsideInv, NoAside, NoFiles
    <3>9. Collisions(txn.old, txn.target)' \subseteq todo'
      <4>1. Collisions(txn.old, txn.target)' \subseteq Collisions(txn.old, txn.target) \ {p}
        BY <3>1, <3>2 DEF Collisions, TreeOf
      <4> QED
        BY <3>1, <3>2, <4>1 DEF AsideInv
    <3>10. todo \subseteq Paths
      BY DEF TxnInv, TypeOK, LoopType
    <3> QED
      BY <3>1, <3>2, <3>3, <3>5, <3>7, <3>8, <3>9, <3>10 DEF AsideInv
  <2>10. CASE ResetHead \/ RestoreDone \/ \E p \in Paths : ResetPath(p) \/ RestorePath(p)
    <3>1. UNCHANGED txn /\ pc \in {"reset", "restore", "replay"} /\ pc' \in {"reset", "restore", "replay", "recover", "finish"}
      BY <2>10 DEF ResetHead, RestoreDone, ResetPath, RestorePath
    <3> QED
      BY <1>1, <3>1, <1>3 DEF PcInv, PreApply, Terminal
  <2> QED
    BY <1>5, <2>1, <2>2, <2>3, <2>4, <2>5, <2>6, <2>7, <2>8, <2>9, <2>10 DEF Sync
<1>6. CASE Launch \/ Error \/ Crash \/ Push
  BY <1>6, <1>2 DEF Launch, Error, Crash, Push, Handle, End
<1>7. CASE \E r \in Runs : Prune(r)
  BY <1>7, <1>2 DEF Prune
<1>8. ASSUME NEW p \in Paths, Stage(p) \/ \E new \in Object : Edit(p, new)
      PROVE  AsideInv'
  <2>1. pc = "off" /\ txn.state \in Terminal /\ UNCHANGED <<txn, pc>>
    BY <1>8, UserEffect
  <2> QED
    BY <2>1, <1>3 DEF Terminal, PreApply
<1> QED
  BY <1>4, <1>5, <1>6, <1>7, <1>8 DEF Next, Environment

LEMMA CopyStep ==
  ASSUME TxnInv, FreshInv, CopyInv, Habits = {}, Next
  PROVE  CopyInv'
<1> DEFINE Whole == pc \in {"record", "check"} \/ (pc = "apply" /\ txn.old # Unborn)
<1>1. /\ txn \in TxnRecord /\ capture \in [Runs -> CaptureRecord] /\ PcInv
  BY DEF TxnInv, TypeOK, BackupType
<1> USE DEF repo, backups, loop, Goto
\* The run gets on, and the files stay.
<1>2. ASSUME UNCHANGED <<tree, head, index, work, run, capture>>, txn'.old = txn.old,
             pc' = "copy" => pc = "copy" /\ UNCHANGED todo,
             Whole' => Whole \/ (pc = "copy" /\ todo = {})
      PROVE  CopyInv'
  <2>1. Changes' = Changes /\ StagedPaths' = StagedPaths
    BY <1>2, SameRepository
  <2>2. \A p : Copied(p)' = Copied(p)
    BY <1>2, <2>1 DEF Copied
  <2> QED
    BY <1>2, <2>1, <2>2 DEF CopyInv
\* The run is elsewhere.
<1>3. ASSUME pc' \notin {"copy", "record", "check", "apply"}
      PROVE  CopyInv'
  BY <1>3 DEF CopyInv
<1>4. CASE Recovery
  BY <1>4, <1>3 DEF Recovery, StayBlocked, RetainCapture, AbortBeforeApply, Block, Resume, RecoverDone,
     CloseAside, Replay, PutBack, Resolving, Recovering, Recovered, Handle, End
<1>5. CASE Sync
  <2>1. CASE Clone \/ Prepare \/ Equal \/ Apply \/ ResetHead \/ MarkApplied \/ RestoreDone \/ Finish
    BY <2>1, <1>3 DEF Clone, Prepare, Equal, Apply, ResetHead, MarkApplied, RestoreDone, Finish, End
  <2>2. CASE \E p \in Paths : MoveAside(p) \/ ResetPath(p) \/ RestorePath(p)
    BY <2>2, <1>3 DEF MoveAside, ResetPath, RestorePath
  <2>3. CASE CollideDone
    <3>1. pc' \in {"capture", "apply"} /\ txn'.old = txn.old /\ (pc' = "apply" => txn.old = Unborn)
      BY <1>1, <2>3 DEF CollideDone, Write, TxnRecord
    <3> QED
      BY <3>1 DEF CopyInv
  <2>4. CASE Capture
    <3>1. UNCHANGED <<tree, head, index, work, txn, run>> /\ pc' \in {"copy", "record"}
      BY <2>4 DEF Capture
    <3>2. Changes' = Changes
      BY <3>1, SameRepository
    <3>3. /\ todo' = Changes /\ (Changes = {} => pc' = "record")
          /\ Changes # {} => /\ pc' = "copy" /\ capture'[run].status = "pending"
                             /\ capture'[run].files = NoFiles /\ capture'[run].staged = NoFiles
      BY <2>4, CaptureEffect
    <3>4. Changes \subseteq Paths
      BY DEF Changes, StagedPaths
    <3> QED
      BY <3>1, <3>2, <3>3, <3>4 DEF CopyInv, NoFiles
  <2>5. ASSUME NEW p \in Paths, Copy(p)
        PROVE  CopyInv'
    <3>1. /\ UNCHANGED <<tree, head, index, work, run, pc>> /\ pc = "copy" /\ run \in Runs
          /\ p \in todo /\ todo' = todo \ {p} /\ todo \subseteq Paths
          /\ capture'[run].status = capture[run].status
          /\ \A q \in Paths : q # p => /\ capture'[run].files[q] = capture[run].files[q]
                                       /\ capture'[run].staged[q] = capture[run].staged[q]
          /\ capture'[run].files[p] = work[p]
          /\ p \in StagedPaths => capture'[run].staged[p] = index[p]
      BY <2>5, CopyEffect DEF TxnInv, TypeOK, LoopType
    <3>2. Changes' = Changes /\ StagedPaths' = StagedPaths /\ Changes \subseteq Paths
      BY <3>1, SameRepository DEF Changes, StagedPaths
    <3>3. /\ capture[run].status = "pending" /\ todo \subseteq Changes
          /\ \A q \in Changes \ todo : Copied(q)
          /\ \A q \in todo : capture[run].files[q] = None /\ capture[run].staged[q] = None
      BY <3>1 DEF CopyInv
    <3>4. \A q \in Changes \ todo' : Copied(q)'
      BY <3>1, <3>2, <3>3 DEF Copied
    <3> QED
      BY <3>1, <3>2, <3>3, <3>4 DEF CopyInv
  <2>6. CASE Record
    <3>1. txn'.old = txn.old
      BY <1>1, <2>6 DEF Record, TxnRecord
    <3> QED
      BY <2>6, <3>1, <1>2 DEF Record
  <2>7. CASE CopyDone \/ Check
    BY <2>7, <1>2, <1>3 DEF CopyDone, Check, Handle, End
  <2> QED
    BY <1>5, <2>1, <2>2, <2>3, <2>4, <2>5, <2>6, <2>7 DEF Sync
<1>6. CASE Launch \/ Error \/ Crash
  BY <1>6, <1>3 DEF Launch, Error, Crash, Handle, End
<1>7. CASE Push
  BY <1>7, <1>2 DEF Push
<1>8. CASE \E r \in Runs : Prune(r)
  BY <1>8, <1>3 DEF Prune
<1>9. ASSUME NEW p \in Paths, Stage(p) \/ \E new \in Object : Edit(p, new)
      PROVE  CopyInv'
  BY <1>9, <1>3, UserEffect
<1> QED
  BY <1>4, <1>5, <1>6, <1>7, <1>8, <1>9 DEF Next, Environment

LEMMA LocalStep ==
  ASSUME TxnInv, FreshInv, LocalInv, RestoreInv, Habits = {}, Next
  PROVE  LocalInv'
<1> DEFINE Fresh == {"prepared", "collisions-durable"}
           Named == {"snapshot-durable", "applying", "reset-applied"}
           Journaled == {"check", "apply", "reset"}
           Taken == {"copy", "record", "check", "apply", "reset"}
<1>1. /\ txn \in TxnRecord /\ capture \in [Runs -> CaptureRecord] /\ PcInv
      /\ LoopType /\ None \notin Commits /\ 0 \notin Runs
  BY ValuesAssumption, BoundsAssumption DEF TxnInv, TypeOK, BackupType, Runs
<1> USE DEF repo, backups, loop, Goto
\* The run gets on, and the captures stay or are given up.
<1>2. ASSUME txn'.local = txn.local, txn'.target = txn.target, txn'.old = txn.old,
             txn'.state \in Fresh => txn.state \in Fresh,
             txn'.state \in Named => txn.state \in Named \/ txn.local = 0,
             \A r \in Runs : \/ capture'[r] = NoCapture
                             \/ capture'[r].target = capture[r].target /\ capture'[r].old = capture[r].old
                                /\ (capture[r].status = "none" => capture'[r].status = "none"),
             pc' \in Taken => UNCHANGED <<run, capture>> /\ (pc \in Taken \/ capture[run].status = "none"),
             pc' \in Journaled => pc \in Journaled \/ txn.local = 0,
             pc' \in {"check", "apply"} => pc \in {"check", "apply"} \/ capture[run].status = "none"
      PROVE  LocalInv'
  <2>1. txn'.state \in Fresh => txn'.local = 0
    BY <1>2 DEF LocalInv
  <2>2. txn'.state \in Named /\ txn'.local # 0 =>
          \/ capture'[txn'.local].status = "none"
          \/ capture'[txn'.local].target = txn'.target /\ capture'[txn'.local].old = txn'.old
    <3>1. txn.local # 0 => txn.local \in Runs
      BY <1>1 DEF TxnRecord
    <3> QED
      BY <1>2, <3>1 DEF LocalInv, NoCapture
  <2>3. pc' \in Journaled /\ txn'.local # 0 => txn'.local = run' /\ capture'[run'].status = "pending"
    BY <1>2 DEF LocalInv
  <2>4. pc' \in Taken /\ capture'[run'].status # "none" =>
          /\ capture'[run'].status = "pending" /\ capture'[run'].target = txn'.target
          /\ capture'[run'].old = txn'.old
          /\ pc' \in {"check", "apply"} => txn'.local = run'
    BY <1>2 DEF LocalInv
  <2> QED
    BY <2>1, <2>2, <2>3, <2>4 DEF LocalInv
<1>3. ASSUME UNCHANGED <<txn, capture>>, pc' \notin Taken \/ (UNCHANGED run /\ pc' = pc)
      PROVE  LocalInv'
  BY <1>2, <1>3
<1>4. CASE Recovery
  <2>1. CASE StayBlocked \/ RecoverDone
    BY <2>1, <1>3 DEF StayBlocked, RecoverDone, Recovered, End
  <2>2. CASE AbortBeforeApply \/ Block \/ Resume
    <3>1. /\ txn'.local = txn.local /\ txn'.target = txn.target /\ txn'.old = txn.old
          /\ txn'.state \in {"aborted-before-apply", "recovery-blocked", "completed"}
      BY <1>1, <2>2 DEF AbortBeforeApply, Block, Resume, Write, TxnRecord
    <3>2. UNCHANGED capture /\ pc' \in {"off", "recover", "sync"}
      BY <2>2 DEF AbortBeforeApply, Block, Resume, Resolving, Recovering, Recovered, Handle, End
    <3> QED
      BY <3>1, <3>2, <1>2
  <2>3. CASE RetainCapture
    <3>1. UNCHANGED txn /\ pc' = "recover"
      BY <2>3 DEF RetainCapture, Resolving, Recovering
    <3> QED
      BY <3>1, <2>3, <1>2, RetainEffect DEF SameFiles
  <2>4. CASE \E r \in Runs : Replay(r) \/ CloseAside(r) \/ \E p \in Paths : PutBack(r, p)
    BY <2>4, <1>3 DEF Replay, CloseAside, PutBack, Recovering
  <2> QED
    BY <1>4, <2>1, <2>2, <2>3, <2>4 DEF Recovery
<1>5. CASE Sync
  <2>1. CASE Clone
    BY <2>1, <1>3 DEF Clone
  <2>2. CASE Prepare
    <3>1. txn'.local = 0 /\ pc' \in {"equal", "collide"}
      BY <2>2 DEF Prepare
    <3> QED
      BY <3>1 DEF LocalInv
  <2>3. CASE Equal \/ Finish
    <3>1. txn'.local = txn.local /\ txn'.target = txn.target /\ txn'.old = txn.old /\ txn'.state = "completed"
      BY <1>1, <2>3 DEF Equal, Finish, Write, TxnRecord
    <3> QED
      BY <2>3, <3>1, <1>2 DEF Equal, Finish, End
  <2>4. CASE CollideDone
    <3>1. /\ txn'.local = txn.local /\ txn'.target = txn.target /\ txn'.old = txn.old /\ txn'.state = "collisions-durable"
          /\ txn.state = "prepared"
      BY <1>1, <2>4 DEF CollideDone, Write, TxnRecord, PcInv
    <3>2. run \in Runs /\ capture[run].status = "none"
      BY <1>1, <2>4 DEF CollideDone, PcInv, FreshInv, Uncaptured, NoCapture
    <3>3. UNCHANGED <<capture, run>> /\ pc' \in {"apply", "capture"}
      BY <2>4 DEF CollideDone
    <3> QED
      BY <3>1, <3>2, <3>3, <1>2 DEF LocalInv
  <2>5. CASE Capture
    <3>1. UNCHANGED <<txn, run>> /\ pc' \in {"copy", "record"} /\ txn.local = 0
          /\ run \in Runs /\ capture[run].status = "none"
      BY <1>1, <2>5 DEF Capture, PcInv, LocalInv, FreshInv, Uncaptured, NoCapture
    <3>2. \/ UNCHANGED capture
          \/ capture'[run].status = "pending" /\ capture'[run].target = txn.target
             /\ capture'[run].old = txn.old
      BY <2>5, CaptureEffect
    <3> QED
      BY <3>1, <3>2 DEF LocalInv
  <2>6. ASSUME NEW p \in Paths, Copy(p)
        PROVE  LocalInv'
    <3>1. UNCHANGED <<txn, run, pc>> /\ pc = "copy" /\ txn.local = 0 /\ run \in Runs
          /\ capture'[run].status = capture[run].status /\ capture'[run].target = capture[run].target
          /\ capture'[run].old = capture[run].old
      BY <1>1, <2>6, CopyEffect DEF PcInv, LocalInv
    <3> QED
      BY <3>1 DEF LocalInv
  <2>7. CASE Record
    <3>1. /\ UNCHANGED <<capture, run>> /\ pc = "record" /\ pc' = "check" /\ txn'.target = txn.target
          /\ txn'.old = txn.old /\ txn'.state = "snapshot-durable"
          /\ txn'.local = IF capture[run].status = "none" THEN 0 ELSE run
      BY <1>1, <2>7 DEF Record, TxnRecord
    <3> QED
      BY <3>1 DEF LocalInv
  <2>8. CASE CopyDone \/ Check
    BY <2>8, <1>2 DEF CopyDone, Check, Handle, End
  <2>9. CASE Apply
    <3>1. /\ txn'.local = txn.local /\ txn'.target = txn.target /\ txn'.old = txn.old /\ txn'.state = "applying"
          /\ txn.state \in {"collisions-durable", "snapshot-durable"}
      BY <1>1, <2>9 DEF Apply, Write, TxnRecord, PcInv
    <3>2. txn.state \in Named \/ txn.local = 0
      BY <3>1 DEF LocalInv
    <3>3. UNCHANGED <<capture, run>> /\ pc = "apply" /\ pc' = "reset"
      BY <2>9 DEF Apply
    <3> QED
      BY <3>1, <3>2, <3>3, <1>2
  <2>10. CASE MarkApplied
    <3>1. /\ txn'.local = txn.local /\ txn'.target = txn.target /\ txn'.old = txn.old /\ txn'.state = "reset-applied"
          /\ txn.state = "applying"
      BY <1>1, <2>10 DEF MarkApplied, Write, TxnRecord, PcInv
    <3>2. UNCHANGED capture /\ pc' \in {"finish", "restore"}
      BY <2>10 DEF MarkApplied
    <3> QED
      BY <3>1, <3>2, <1>2
  <2>11. CASE RestoreDone
    <3>1. UNCHANGED txn /\ pc' \in {"finish", "recover"} /\ capture[cur].status # "none"
      BY <2>11 DEF RestoreDone, RestoreInv, Pending, Restorable
    <3> QED
      BY <3>1, <2>11, <1>2, RestoreDoneEffect DEF SameFiles
  <2>12. CASE ResetHead \/ \E p \in Paths : MoveAside(p) \/ ResetPath(p) \/ RestorePath(p)
    BY <2>12, <1>3 DEF ResetHead, MoveAside, ResetPath, RestorePath
  <2> QED
    BY <1>5, <2>1, <2>2, <2>3, <2>4, <2>5, <2>6, <2>7, <2>8, <2>9, <2>10, <2>11, <2>12 DEF Sync
<1>6. CASE Launch \/ Error \/ Crash \/ Push
  BY <1>6, <1>3 DEF Launch, Error, Crash, Push, Handle, End
<1>7. ASSUME NEW c \in Runs, Prune(c)
      PROVE  LocalInv'
  <2>1. UNCHANGED <<txn, run, pc>> /\ pc = "off" /\ \A r \in Runs : capture'[r] \in {capture[r], NoCapture}
    BY <1>1, <1>7 DEF Prune
  <2> QED
    BY <2>1, <1>2
<1>8. ASSUME NEW p \in Paths, Stage(p) \/ \E new \in Object : Edit(p, new)
      PROVE  LocalInv'
  BY <1>8, <1>3, UserEffect
<1> QED
  BY <1>4, <1>5, <1>6, <1>7, <1>8 DEF Next, Environment

\* When the reset starts, every file in its way is captured or aside, and so is
\* what is staged.
LEMMA ResetBegins ==
  ASSUME TxnInv, OrderInv, UnbornInv, AsideInv, CopyInv, UnreachedInv, StagedInv, Apply
  PROVE  ResetInv'
<1> DEFINE First == txn.old = Unborn
<1>1. /\ txn \in TxnRecord /\ capture \in [Runs -> CaptureRecord] /\ PcInv /\ HeadInv
      /\ work \in [Paths -> Object] /\ RepositoryType
  BY DEF TxnInv, TypeOK, BackupType, RepositoryType
<1>2. /\ UNCHANGED <<tree, index, work, capture, aside, run, staged>> /\ pc = "apply"
      /\ txn'.target = txn.target /\ todo' = Paths
  BY <1>1, QuietEffect DEF Apply, Quiet, repo, Write, TxnRecord
<1>3. /\ txn.state \in PreApply /\ run \in Runs /\ txn.target \in Commits
      /\ First \/ (head = txn.old /\ head \in Commits /\ head < txn.target)
  BY <1>1, <1>2 DEF PcInv, HeadInv, OrderInv, PreApply, Terminal
<1>4. First => /\ staged = NoFiles /\ \A r \in Runs : capture[r] = NoCapture
               /\ \A p \in Paths : index[p] = Absent
  BY <1>2, <1>3 DEF UnbornInv, FirstCheckout
<1>5. \A p \in Paths : ~First => p \notin Changes \/ Copied(p)
  BY <1>2 DEF CopyInv
<1>6. ASSUME NEW p \in Paths, work[p] \in User
      PROVE  Spared(p)
  <2>1. work[p] # Absent /\ work[p] \notin Dev \cup {Absent}
    BY <1>6, ValuesAssumption DEF Content
  <2>2. p \notin Collisions(txn.old, txn.target)
    BY <1>2 DEF AsideInv
  <2>3. CASE First
    BY <1>4, <2>1, <2>2, <2>3 DEF Collisions, Spared
  <2>4. CASE ~First /\ p \in Changes
    BY <1>5, <2>4 DEF Spared, Copied
  <2>5. CASE ~First /\ p \notin Changes
    <3>1. index[p] = TreeOf(head)[p] /\ (index[p] = Absent \/ work[p] = index[p])
      BY <2>5 DEF Changes, StagedPaths
    <3>2. TreeOf(head)[p] \in Dev \cup {Absent}
      BY <1>1, TreeType
    <3> QED
      BY <1>3, <2>1, <2>2, <2>5, <3>1, <3>2 DEF Collisions, Spared
  <2> QED
    BY <2>3, <2>4, <2>5
<1>7. ASSUME NEW p \in Paths, staged[p] # None
      PROVE  \E r \in Runs : capture[r].staged[p] = staged[p]
  <2>1. ~First
    BY <1>4, <1>7 DEF NoFiles
  <2>2. CASE index[p] = staged[p] /\ staged[p] # TreeOf(head)[p]
    BY <1>3, <1>5, <2>1, <2>2 DEF Changes, StagedPaths, Copied
  <2> QED
    BY <1>7, <2>2 DEF StagedInv
<1>8. ASSUME NEW r \in Pending, NEW p \in Paths,
             capture[r].target = txn.target, capture[r].files[p] # None
      PROVE  work[p] = capture[r].files[p] /\ \A s \in PendingAsides : aside[s].files[p] = None
  <2>1. r \in Runs /\ capture[r] # NoCapture
    BY DEF Pending, Restorable, NoCapture
  <2>2. ~First
    BY <1>4, <2>1
  <2>3. p \in Changes /\ work[p] = capture[r].files[p]
    BY <1>3, <1>8, <2>2 DEF UnreachedInv, InDoubt, PreApply
  <2>4. ~Unknown(p)
    BY <2>3 DEF Changes, StagedPaths, Unknown
  <2> QED
    BY <1>3, <2>2, <2>3, <2>4 DEF AsideInv
<1>9. \A p \in Paths : Spared(p)' = Spared(p)
  BY <1>2 DEF Spared, TreeOf
<1>10. Pending' = Pending /\ PendingAsides' = PendingAsides
  BY <1>2 DEF Pending, PendingAsides
<1> QED
  BY <1>2, <1>6, <1>7, <1>8, <1>9, <1>10 DEF ResetInv

LEMMA ResetStep ==
  ASSUME TxnInv, OrderInv, UnbornInv, AsideInv, CopyInv, ResetInv, UnreachedInv, StagedInv,
         Habits = {}, Next
  PROVE  ResetInv'
<1>1. PcInv /\ todo \subseteq Paths /\ index \in [Paths -> Object] /\ work \in [Paths -> Object]
  BY DEF TxnInv, TypeOK, LoopType, RepositoryType
<1> USE DEF repo, backups, loop, Goto
<1>2. ASSUME pc' # "reset"
      PROVE  ResetInv'
  BY <1>2 DEF ResetInv
<1>3. CASE Recovery
  BY <1>3, <1>2 DEF Recovery, StayBlocked, RetainCapture, AbortBeforeApply, Block, Resume, RecoverDone,
     CloseAside, Replay, PutBack, Resolving, Recovering, Recovered, Handle, End
<1>4. CASE ResetHead \/ Push
  <2>1. UNCHANGED <<tree, index, work, txn, capture, aside, run, pc, todo, staged>>
    BY <1>4 DEF ResetHead, Push, user
  <2>2. Pending' = Pending /\ PendingAsides' = PendingAsides /\ \A p : Spared(p)' = Spared(p)
    BY <2>1 DEF Pending, PendingAsides, Spared, TreeOf
  <2>3. \A p : TreeOf(txn.target)'[p] = TreeOf(txn.target)[p]
    BY <2>1 DEF TreeOf
  <2> QED
    BY <2>1, <2>2, <2>3 DEF ResetInv
<1>5. ASSUME NEW p \in Paths, ResetPath(p)
      PROVE  ResetInv'
  <2> DEFINE new == TreeOf(txn.target)[p]
  <2>1. /\ UNCHANGED <<tree, txn, capture, aside, run, pc, staged>> /\ pc = "reset"
        /\ p \in todo /\ todo' = todo \ {p}
        /\ work'[p] = (IF new = Absent /\ index[p] = Absent THEN work[p] ELSE new)
        /\ index'[p] = new
        /\ \A q \in Paths : q # p => work'[q] = work[q] /\ index'[q] = index[q]
    BY <1>1, <1>5 DEF ResetPath, user
  <2>2. Pending' = Pending /\ PendingAsides' = PendingAsides
    BY <2>1 DEF Pending, PendingAsides
  <2>3. \A q \in Paths : q # p => Spared(q)' = Spared(q)
    BY <2>1 DEF Spared, TreeOf
  <2>4. \A q : TreeOf(txn.target)'[q] = TreeOf(txn.target)[q]
    BY <2>1 DEF TreeOf
  <2>5. \A q \in todo' : work'[q] \in User => Spared(q)'
    BY <1>1, <2>1, <2>3 DEF ResetInv
  <2>6. \A q \in Paths \ todo' : index'[q] = TreeOf(txn.target)'[q]
    BY <2>1, <2>4 DEF ResetInv
  <2>7. \A r \in Pending, q \in Paths :
          capture[r].target = txn.target /\ capture[r].files[q] # None =>
            \/ work'[q] = capture[r].files[q]
            \/ q \notin todo' /\ work'[q] = TreeOf(txn.target)[q]
    BY <2>1 DEF ResetInv
  <2> QED
    BY <2>1, <2>2, <2>4, <2>5, <2>6, <2>7 DEF ResetInv
<1>6. CASE Apply
  BY <1>6, ResetBegins
<1>7. CASE Clone \/ Prepare \/ Equal \/ CollideDone \/ Capture \/ CopyDone \/ Record \/ Check \/ MarkApplied
           \/ RestoreDone \/ Finish \/ \E p \in Paths : MoveAside(p) \/ Copy(p) \/ RestorePath(p)
  BY <1>7, <1>2 DEF Clone, Prepare, Equal, CollideDone, Capture, CopyDone, Record, Check, MarkApplied,
     RestoreDone, Finish, MoveAside, Copy, RestorePath, Handle, End
<1>8. CASE Launch \/ Error \/ Crash \/ \E r \in Runs : Prune(r)
  BY <1>8, <1>2 DEF Launch, Error, Crash, Prune, Handle, End
<1>9. ASSUME NEW p \in Paths, Stage(p) \/ \E new \in Object : Edit(p, new)
      PROVE  ResetInv'
  BY <1>9, <1>2, UserEffect
<1> QED
  BY <1>3, <1>4, <1>5, <1>6, <1>7, <1>8, <1>9 DEF Next, Sync, Environment

LEMMA UnreachedStep ==
  ASSUME TxnInv, FreshInv, OrderInv, UnbornInv, AsideInv, CopyInv, UnreachedInv, ReachedInv,
         RestoreInv, Habits = {}, Next
  PROVE  UnreachedInv'
<1> DEFINE Ahead(r, p) == head \in Commits /\ head < capture[r].target /\ capture[r].files[p] # None
<1>1. /\ txn \in TxnRecord /\ capture \in [Runs -> CaptureRecord] /\ PcInv /\ HeadInv
      /\ work \in [Paths -> Object] /\ Pending \subseteq Runs /\ Pending' \subseteq Runs
      /\ Unborn \notin Commits /\ NoRepo \notin Commits /\ head \in Heads
      /\ \A r \in Pending : Captured(r)
  BY ValuesAssumption DEF TxnInv, TypeOK, BackupType, RepositoryType, Pending, FreshInv, Restorable, Captured
<1> USE DEF repo, backups, loop, Goto
\* No capture is added, and the files stay.
<1>2. ASSUME UNCHANGED <<tree, head, index, work>>,
             txn'.state \notin InDoubt => txn.state \notin InDoubt,
             \A r \in Runs : r \in Pending' => r \in Pending /\ SameFiles(r)
      PROVE  UnreachedInv'
  <2>1. Changes' = Changes
    BY <1>2, SameRepository
  <2> QED
    BY <1>1, <1>2, <2>1 DEF UnreachedInv, SameFiles
<1>3. ASSUME Pending' = {} \/ txn'.state \in InDoubt
      PROVE  UnreachedInv'
  BY <1>3 DEF UnreachedInv
\* One file changes that no capture ahead has, or to what each of them has.
<1>4. ASSUME NEW p \in Paths, UNCHANGED <<tree, head, index, txn, capture>>,
             \A q \in Paths : q # p => work'[q] = work[q],
             \A r \in Pending : Ahead(r, p) => work'[p] = work[p]
      PROVE  UnreachedInv'
  <2>1. Pending' = Pending
    BY <1>4 DEF Pending
  <2>2. \A q \in Paths : work'[q] = work[q] => (q \in Changes <=> q \in Changes')
    BY <1>4 DEF Changes, StagedPaths, TreeOf
  <2> QED
    BY <1>1, <1>4, <2>1, <2>2 DEF UnreachedInv
<1>5. CASE Quiet
  <2>1. UNCHANGED <<tree, head, index, work, capture>> /\ (txn'.state \notin InDoubt => txn.state \notin InDoubt)
    BY <1>5, QuietEffect, QuietDoubt
  <2> QED
    BY <2>1, <1>2 DEF Pending, SameFiles
<1>6. CASE MarkApplied
  <2>1. /\ UNCHANGED <<tree, head, capture>> /\ head = txn.target /\ txn.target \in Commits
        /\ txn.state = "applying"
    BY <1>1, <1>6, QuietEffect DEF MarkApplied, PcInv, HeadInv, Terminal
  <2>2. \A r \in Runs : Captured(r) => capture[r].target <= head
    BY <2>1 DEF OrderInv, Terminal
  <2>3. \A r \in Pending : ~(head < capture[r].target)
    BY <1>1, <2>1, <2>2 DEF Captured, Commits
  <2> QED
    BY <2>1, <2>3 DEF UnreachedInv, Pending
<1>7. CASE RetainCapture
  <2>1. UNCHANGED <<tree, head, index, work, txn>>
    BY <1>7 DEF RetainCapture
  <2>2. \A r \in Runs : r \in Pending' => r \in Pending /\ SameFiles(r)
    BY <1>7, RetainEffect DEF Pending, Restorable
  <2> QED
    BY <2>1, <2>2, <1>2
<1>8. CASE RestoreDone
  <2>1. UNCHANGED <<tree, head, index, work, txn>> /\ cur \in Pending
    BY <1>8 DEF RestoreDone, RestoreInv
  <2>2. \A r \in Runs : r \in Pending' => r \in Pending /\ SameFiles(r)
    BY <1>8, <2>1, RestoreDoneEffect DEF Pending
  <2> QED
    BY <2>1, <2>2, <1>2
<1>9. CASE Clone
  <2>1. UNCHANGED capture /\ head = NoRepo
    BY <1>9 DEF Clone
  <2>2. \A r \in Runs : capture[r] = NoCapture
    BY <1>1, <2>1 DEF UnbornInv, FirstCheckout
  <2> QED
    BY <2>1, <2>2, <1>3 DEF Pending, Restorable, NoCapture
<1>10. CASE Capture
  <2>1. UNCHANGED <<tree, head, index, work, txn>>
    BY <1>10 DEF Capture
  <2>2. Changes' = Changes
    BY <2>1, SameRepository
  <2>3. \A r \in Pending' :
          \/ r \in Pending /\ capture'[r] = capture[r]
          \/ capture'[r].old = head /\ \A p \in Paths : capture'[r].files[p] = None
    BY <1>10, CaptureEffect DEF Pending, NoFiles
  <2> QED
    BY <1>1, <2>1, <2>2, <2>3 DEF UnreachedInv
<1>11. ASSUME NEW p \in Paths, Copy(p)
       PROVE  UnreachedInv'
  <2>1. /\ UNCHANGED <<tree, head, index, work, txn>> /\ p \in Changes
        /\ \A r \in Runs : /\ capture'[r].status = capture[r].status /\ capture'[r].target = capture[r].target
                           /\ capture'[r].old = capture[r].old
                           /\ \A q \in Paths : r # run \/ q # p => capture'[r].files[q] = capture[r].files[q]
        /\ capture'[run].files[p] = work[p]
    BY <1>11, CopyEffect DEF CopyInv
  <2>2. Changes' = Changes /\ Pending' = Pending
    BY <2>1, SameRepository DEF Pending
  <2> QED
    BY <1>1, <2>1, <2>2 DEF UnreachedInv
<1>12. CASE ResetHead \/ \E p \in Paths : ResetPath(p)
  <2>1. UNCHANGED txn /\ txn.state = "applying"
    BY <1>1, <1>12 DEF ResetHead, ResetPath, PcInv
  <2> QED
    BY <2>1, <1>3 DEF InDoubt
<1>13. ASSUME NEW s \in Runs, NEW p \in Paths, PutBack(s, p)
       PROVE  UnreachedInv'
  <2>1. UNCHANGED <<tree, head, index, txn, capture>>
    BY <1>13 DEF PutBack
  <2>2. /\ s \in PendingAsides /\ aside[s].files[p] # None
        /\ \A q \in Paths : q # p => work'[q] = work[q]
    BY <1>13, PutBackEffect
  <2>3. ASSUME txn.state \notin InDoubt, NEW r \in Pending, Ahead(r, p)
        PROVE  FALSE
    <3>1. p \in Changes /\ ~FirstCheckout
      <4>1. capture[r] # NoCapture
        BY DEF Pending, Restorable, NoCapture
      <4> QED
        BY <1>1, <2>3, <4>1 DEF UnreachedInv, UnbornInv
    <3>2. ~Unknown(p)
      BY <3>1 DEF Changes, StagedPaths, Unknown
    <3>3. CASE txn.state \in PreApply
      BY <2>2, <3>1, <3>2, <3>3 DEF AsideInv, FirstCheckout
    <3>4. CASE txn.state \in Terminal \cup {"reset-applied"}
      <4>1. r \in Runs /\ Captured(r)
        BY <1>1
      <4>2. capture[r].target <= head
        BY <2>2, <3>4, <4>1 DEF OrderInv
      <4> QED
        BY <2>3, <4>1, <4>2 DEF Captured, Commits
    <3> QED
      BY <1>1, <2>3, <3>3, <3>4 DEF TxnRecord, TxnState, InDoubt
  <2> QED
    BY <2>1, <2>2, <2>3, <1>3, <1>4
<1>14. ASSUME NEW p \in Paths, MoveAside(p)
       PROVE  UnreachedInv'
  <2>1. UNCHANGED <<tree, head, index, txn, capture>> /\ pc = "collide" /\ txn.state = "prepared" /\ p \in todo
    BY <1>1, <1>14 DEF MoveAside, PcInv
  <2>2. \A q \in Paths : q # p => work'[q] = work[q]
    BY <1>14, MoveAsideEffect
  <2>3. ASSUME NEW r \in Pending, Ahead(r, p)
        PROVE  FALSE
    <3>1. capture[r] # NoCapture
      BY DEF Pending, Restorable, NoCapture
    <3>2. Unknown(p)
      BY <1>1, <2>1, <3>1 DEF AsideInv, UnbornInv, FirstCheckout, PreApply
    <3>3. p \in Changes
      BY <2>1, <2>3 DEF UnreachedInv, InDoubt
    <3> QED
      BY <3>2, <3>3 DEF Changes, StagedPaths, Unknown
  <2> QED
    BY <2>1, <2>2, <2>3, <1>4
<1>15. ASSUME NEW p \in Paths, RestorePath(p)
       PROVE  UnreachedInv'
  <2>1. /\ UNCHANGED <<tree, head, index, txn, capture>> /\ pc \in {"restore", "replay"} /\ p \in todo
        /\ work' = work \/ work' = [work EXCEPT ![p] = capture[cur].files[p]]
    BY <1>15 DEF RestorePath, Mine
  <2>2. /\ txn.state \notin InDoubt /\ cur \in Pending /\ capture[cur].target = head
        /\ capture[cur].files[p] # None
    BY <1>1, <2>1 DEF PcInv, RestoreInv, TxnInv, TodoInv, InDoubt, Terminal
  <2>3. index[p] = TreeOf(head)[p] /\ work[p] \in {TreeOf(head)[p], capture[cur].files[p]}
    BY <2>2 DEF ReachedInv
  <2>4. ASSUME NEW r \in Pending, Ahead(r, p)
        PROVE  work'[p] = work[p]
    <3>1. p \in Changes
      BY <2>2, <2>4 DEF UnreachedInv
    <3>2. work[p] = capture[cur].files[p]
      BY <2>3, <3>1 DEF Changes, StagedPaths
    <3> QED
      BY <1>1, <2>1, <3>2
  <2>5. \A q \in Paths : q # p => work'[q] = work[q]
    BY <1>1, <2>1
  <2> QED
    BY <2>1, <2>4, <2>5, <1>4
<1>16. CASE \E r \in Runs : CloseAside(r)
  BY <1>16, <1>2 DEF CloseAside, Pending, SameFiles
<1>17. ASSUME NEW c \in Runs, Prune(c)
       PROVE  UnreachedInv'
  <2>1. UNCHANGED <<tree, head, index, work, txn>> /\ \A r \in Runs : capture'[r] \in {capture[r], NoCapture}
    BY <1>1, <1>17 DEF Prune
  <2> QED
    BY <2>1, <1>2 DEF Pending, Restorable, NoCapture, SameFiles
<1>18. ASSUME NEW p \in Paths, Stage(p) \/ \E new \in Object : Edit(p, new)
       PROVE  UnreachedInv'
  <2>1. Pending = {} /\ UNCHANGED capture
    BY <1>18, UserEffect
  <2> QED
    BY <2>1, <1>3 DEF Pending
<1> QED
  BY StepCases, <1>5, <1>6, <1>7, <1>8, <1>9, <1>10, <1>11, <1>12, <1>13, <1>14, <1>15, <1>16, <1>17, <1>18

LEMMA ReachedStep ==
  ASSUME TxnInv, FreshInv, OrderInv, UnbornInv, AsideInv, LocalInv, ResetInv, ReachedInv, AgreeInv,
         RestoreInv, Habits = {}, Next
  PROVE  ReachedInv'
<1> DEFINE There(r, p) == capture[r].target = head /\ capture[r].files[p] # None
<1>1. /\ txn \in TxnRecord /\ capture \in [Runs -> CaptureRecord] /\ PcInv /\ HeadInv
      /\ work \in [Paths -> Object] /\ Pending \subseteq Runs /\ Pending' \subseteq Runs
      /\ PendingAsides \subseteq Runs /\ PendingAsides' \subseteq Runs
      /\ Unborn \notin Commits /\ NoRepo \notin Commits /\ head \in Heads
      /\ \A r \in Pending : Captured(r) /\ capture[r] # NoCapture
  BY ValuesAssumption DEF TxnInv, TypeOK, BackupType, RepositoryType, Pending, PendingAsides, FreshInv,
     Restorable, Captured, NoCapture
<1> USE DEF repo, backups, loop, Goto
\* No capture is added, nothing is moved aside, and the files stay.
<1>2. ASSUME UNCHANGED <<tree, head, index, work>>,
             txn'.state \notin InDoubt => txn.state \notin InDoubt,
             \A r \in Runs : r \in Pending' => r \in Pending /\ SameFiles(r),
             \A s \in Runs : /\ s \in PendingAsides' => s \in PendingAsides
                             /\ aside'[s].files = aside[s].files
      PROVE  ReachedInv'
  <2>1. \A p : TreeOf(head)'[p] = TreeOf(head)[p]
    BY <1>2 DEF TreeOf
  <2> QED
    BY <1>1, <1>2, <2>1 DEF ReachedInv, SameFiles
<1>3. ASSUME Pending' = {} \/ txn'.state \in InDoubt
      PROVE  ReachedInv'
  BY <1>3 DEF ReachedInv
\* One file changes, to HEAD's version or the captured one.
<1>4. ASSUME NEW p \in Paths, UNCHANGED <<tree, head, index, txn, capture>>,
             \A q \in Paths : q # p => work'[q] = work[q],
             \A s \in Runs, q \in Paths : s \in PendingAsides' /\ q # p =>
               aside'[s].files[q] = None
               \/ (s \in PendingAsides /\ aside'[s].files[q] = aside[s].files[q]),
             txn.state \notin InDoubt =>
               \A r \in Pending : There(r, p) =>
                 /\ work'[p] \in {TreeOf(head)[p], capture[r].files[p]}
                 /\ \A s \in PendingAsides' : aside'[s].files[p] \in {None, capture[r].files[p]}
      PROVE  ReachedInv'
  <2>1. Pending' = Pending
    BY <1>4 DEF Pending
  <2>2. \A q : TreeOf(head)'[q] = TreeOf(head)[q]
    BY <1>4 DEF TreeOf
  <2> QED
    BY <1>1, <1>4, <2>1, <2>2 DEF ReachedInv
<1>5. CASE Quiet
  <2>1. /\ UNCHANGED <<tree, head, index, work, capture, aside>>
        /\ txn'.state \notin InDoubt => txn.state \notin InDoubt
    BY <1>5, QuietEffect, QuietDoubt
  <2> QED
    BY <2>1, <1>2 DEF Pending, PendingAsides, SameFiles
<1>6. CASE MarkApplied
  <2>1. UNCHANGED <<tree, head, index, work, capture, aside>> /\ head = txn.target /\ pc = "reset" /\ todo = {}
    BY <1>6, QuietEffect DEF MarkApplied
  <2>2. Pending' = Pending /\ PendingAsides' = PendingAsides /\ \A p : TreeOf(head)'[p] = TreeOf(head)[p]
    BY <2>1 DEF Pending, PendingAsides, TreeOf
  <2> QED
    BY <2>1, <2>2 DEF ReachedInv, ResetInv
<1>7. CASE RetainCapture
  <2>1. UNCHANGED <<tree, head, index, work, txn, aside>>
    BY <1>7 DEF RetainCapture
  <2>2. \A r \in Runs : r \in Pending' => r \in Pending /\ SameFiles(r)
    BY <1>7, RetainEffect DEF Pending, Restorable
  <2> QED
    BY <2>1, <2>2, <1>2 DEF PendingAsides
<1>8. CASE RestoreDone
  <2>1. UNCHANGED <<tree, head, index, work, txn, aside>> /\ cur \in Pending
    BY <1>8 DEF RestoreDone, RestoreInv
  <2>2. \A r \in Runs : r \in Pending' => r \in Pending /\ SameFiles(r)
    BY <1>8, <2>1, RestoreDoneEffect DEF Pending
  <2> QED
    BY <2>1, <2>2, <1>2 DEF PendingAsides
<1>9. CASE Clone
  <2>1. UNCHANGED capture /\ head = NoRepo
    BY <1>9 DEF Clone
  <2>2. Pending = {}
    BY <1>1, <2>1 DEF UnbornInv, FirstCheckout
  <2> QED
    BY <2>1, <2>2, <1>3 DEF Pending
<1>10. CASE Capture
  <2>1. UNCHANGED <<tree, head, index, work, txn, aside>>
    BY <1>10 DEF Capture
  <2>2. \A r \in Pending', p \in Paths : capture'[r].files[p] # None => r \in Pending /\ capture'[r] = capture[r]
    BY <1>10, CaptureEffect DEF Pending, NoFiles
  <2>3. PendingAsides' = PendingAsides /\ \A p : TreeOf(head)'[p] = TreeOf(head)[p]
    BY <2>1 DEF PendingAsides, TreeOf
  <2> QED
    BY <1>1, <2>1, <2>2, <2>3 DEF ReachedInv
<1>11. ASSUME NEW p \in Paths, Copy(p)
       PROVE  ReachedInv'
  <2>1. /\ UNCHANGED <<tree, head, index, work, txn, aside>> /\ run \in Runs
        /\ \A r \in Runs : /\ capture'[r].status = capture[r].status /\ capture'[r].target = capture[r].target
                           /\ \A q \in Paths : r # run \/ q # p => capture'[r].files[q] = capture[r].files[q]
    BY <1>11, CopyEffect
  <2>2. Pending' = Pending /\ PendingAsides' = PendingAsides /\ \A q : TreeOf(head)'[q] = TreeOf(head)[q]
    BY <2>1 DEF Pending, PendingAsides, TreeOf
  <2>3. run \in Pending => capture[run].target = txn.target
    BY <1>11 DEF Copy, LocalInv, Pending, Restorable
  <2>4. head < txn.target /\ head \in Commits
    BY <1>1, <1>11 DEF Copy, OrderInv, HeadInv
  <2>5. run \in Pending => capture[run].target # head
    BY <2>3, <2>4 DEF Commits
  <2> QED
    BY <1>1, <2>1, <2>2, <2>5 DEF ReachedInv
<1>12. CASE ResetHead \/ \E p \in Paths : ResetPath(p)
  <2>1. UNCHANGED txn /\ txn.state = "applying"
    BY <1>1, <1>12 DEF ResetHead, ResetPath, PcInv
  <2> QED
    BY <2>1, <1>3 DEF InDoubt
<1>13. ASSUME NEW s \in Runs, NEW p \in Paths, PutBack(s, p)
       PROVE  ReachedInv'
  <2>1. UNCHANGED <<tree, head, index, txn, capture>>
    BY <1>13 DEF PutBack
  <2>2. /\ s \in PendingAsides /\ aside[s].files[p] # None /\ PendingAsides' = PendingAsides
        /\ work'[p] = aside[s].files[p] /\ aside'[s].files[p] = None
        /\ \A q \in Paths : q # p => work'[q] = work[q]
        /\ \A r \in Runs, q \in Paths : r # s \/ q # p => aside'[r].files[q] = aside[r].files[q]
    BY <1>13, PutBackEffect
  <2>3. ASSUME txn.state \notin InDoubt, NEW r \in Pending, There(r, p)
        PROVE  /\ work'[p] \in {TreeOf(head)[p], capture[r].files[p]}
               /\ \A t \in PendingAsides' : aside'[t].files[p] \in {None, capture[r].files[p]}
    <3>1. \A t \in PendingAsides : aside[t].files[p] \in {None, capture[r].files[p]}
      BY <2>3 DEF ReachedInv
    <3> QED
      BY <1>1, <2>2, <3>1
  <2> QED
    BY <1>1, <2>1, <2>2, <2>3, <1>4
<1>14. ASSUME NEW p \in Paths, MoveAside(p)
       PROVE  ReachedInv'
  <2>1. UNCHANGED <<tree, head, index, txn, capture>> /\ pc = "collide" /\ txn.state = "prepared" /\ p \in todo
    BY <1>1, <1>14 DEF MoveAside, PcInv
  <2>2. /\ run \in Runs /\ \A q \in Paths : q # p => work'[q] = work[q]
        /\ work[p] = Absent => UNCHANGED <<work, aside>>
        /\ work[p] # Absent => /\ aside'[run].files[p] = work[p] /\ work'[p] = Absent
                               /\ PendingAsides' = PendingAsides \cup {run}
        /\ \A r \in Runs, q \in Paths : r # run \/ q # p => aside'[r].files[q] = aside[r].files[q]
    BY <1>14, MoveAsideEffect
  <2>3. work[p] = Absent => PendingAsides' = PendingAsides
    BY <2>2 DEF PendingAsides
  <2>4. run \notin PendingAsides => \A q \in Paths : aside[run].files[q] = None
    BY <2>1 DEF AsideInv, NoAside, NoFiles
  <2>5. \A s \in Runs, q \in Paths : s \in PendingAsides' /\ q # p =>
          aside'[s].files[q] = None \/ (s \in PendingAsides /\ aside'[s].files[q] = aside[s].files[q])
    BY <2>2, <2>3, <2>4
  <2>6. ASSUME txn.state \notin InDoubt, NEW r \in Pending, There(r, p)
        PROVE  /\ work'[p] \in {TreeOf(head)[p], capture[r].files[p]}
               /\ \A s \in PendingAsides' : aside'[s].files[p] \in {None, capture[r].files[p]}
    <3>1. TreeOf(head)[p] = Absent
      BY <1>1, <2>1 DEF AsideInv, UnbornInv, FirstCheckout, PreApply, Unknown
    <3>2. /\ work[p] \in {Absent, capture[r].files[p]}
          /\ \A s \in PendingAsides : aside[s].files[p] \in {None, capture[r].files[p]}
      BY <2>6, <3>1 DEF ReachedInv
    <3>3. CASE work[p] = Absent
      BY <2>2, <2>3, <3>1, <3>2, <3>3
    <3>4. CASE work[p] # Absent
      BY <1>1, <2>2, <3>1, <3>2, <3>4
    <3> QED
      BY <3>3, <3>4
  <2> QED
    BY <2>1, <2>2, <2>5, <2>6, <1>4
<1>15. ASSUME NEW p \in Paths, RestorePath(p)
       PROVE  ReachedInv'
  <2>1. /\ UNCHANGED <<tree, head, index, txn, capture, aside>> /\ pc \in {"restore", "replay"} /\ p \in todo
        /\ work' = work \/ work' = [work EXCEPT ![p] = capture[cur].files[p]]
    BY <1>15 DEF RestorePath, Mine
  <2>2. cur \in Pending /\ capture[cur].target = head /\ capture[cur].files[p] # None
    BY <2>1 DEF RestoreInv, TxnInv, TodoInv
  <2>3. work'[p] \in {work[p], capture[cur].files[p]} /\ \A q \in Paths : q # p => work'[q] = work[q]
    BY <1>1, <2>1
  <2>4. ASSUME txn.state \notin InDoubt, NEW r \in Pending, There(r, p)
        PROVE  /\ work'[p] \in {TreeOf(head)[p], capture[r].files[p]}
               /\ \A s \in PendingAsides : aside[s].files[p] \in {None, capture[r].files[p]}
    <3>1. capture[r].files[p] = capture[cur].files[p]
      BY <2>2, <2>4 DEF AgreeInv
    <3> QED
      BY <2>3, <2>4, <3>1 DEF ReachedInv
  <2>5. PendingAsides' = PendingAsides
    BY <2>1 DEF PendingAsides
  <2> QED
    BY <2>1, <2>3, <2>4, <2>5, <1>4
<1>16. ASSUME NEW s \in Runs, CloseAside(s)
       PROVE  ReachedInv'
  <2>1. UNCHANGED <<tree, head, index, work, txn, capture>>
    BY <1>16 DEF CloseAside
  <2> QED
    BY <2>1, <1>2, <1>16, CloseAsideEffect DEF Pending, SameFiles
<1>17. ASSUME NEW c \in Runs, Prune(c)
       PROVE  ReachedInv'
  <2>1. UNCHANGED <<tree, head, index, work, txn, aside>> /\ \A r \in Runs : capture'[r] \in {capture[r], NoCapture}
    BY <1>1, <1>17 DEF Prune
  <2> QED
    BY <2>1, <1>2 DEF Pending, PendingAsides, Restorable, NoCapture, SameFiles
<1>18. ASSUME NEW p \in Paths, Stage(p) \/ \E new \in Object : Edit(p, new)
       PROVE  ReachedInv'
  <2>1. Pending = {} /\ UNCHANGED capture
    BY <1>18, UserEffect
  <2> QED
    BY <2>1, <1>3 DEF Pending
<1> QED
  BY StepCases, <1>5, <1>6, <1>7, <1>8, <1>9, <1>10, <1>11, <1>12, <1>13, <1>14, <1>15, <1>16, <1>17, <1>18

LEMMA AgreeStep ==
  ASSUME TxnInv, FreshInv, OrderInv, UnreachedInv, AgreeInv, LocalInv, RestoreInv, Habits = {}, Next
  PROVE  AgreeInv'
<1>1. /\ PcInv /\ HeadInv /\ capture \in [Runs -> CaptureRecord]
      /\ Pending \subseteq Runs /\ Pending' \subseteq Runs /\ Unborn \notin Commits
  BY ValuesAssumption DEF TxnInv, TypeOK, BackupType, Pending
<1>2. ASSUME \A r \in Runs : r \in Pending' => r \in Pending /\ SameFiles(r)
      PROVE  AgreeInv'
  BY <1>1, <1>2 DEF AgreeInv, SameFiles
<1>3. ASSUME UNCHANGED capture
      PROVE  AgreeInv'
  BY <1>2, <1>3 DEF Pending, SameFiles
<1>4. CASE Quiet \/ MarkApplied
  BY <1>4, <1>3, QuietEffect
<1>5. CASE RetainCapture
  BY <1>5, <1>2, RetainEffect DEF Pending, Restorable
<1>6. CASE RestoreDone
  BY <1>6, <1>2, RestoreDoneEffect DEF RestoreDone, RestoreInv, Pending
<1>7. CASE Clone \/ ResetHead \/ (\E r \in Runs : CloseAside(r) \/ \E p \in Paths : PutBack(r, p))
           \/ \E p \in Paths : MoveAside(p) \/ ResetPath(p) \/ RestorePath(p)
  BY <1>7, <1>3 DEF Clone, ResetHead, CloseAside, PutBack, MoveAside, ResetPath, RestorePath, backups
<1>8. CASE Capture
  <2>1. \A r \in Pending' :
          \/ r \in Pending /\ capture'[r] = capture[r]
          \/ /\ r = run /\ capture'[r].old = head /\ capture'[r].target = txn.target
             /\ \A p \in Paths : capture'[r].files[p] = None
    BY <1>8, CaptureEffect DEF Pending, NoFiles
  <2>2. head \in Commits /\ head < txn.target /\ txn.state \notin InDoubt
    BY <1>1, <1>8 DEF Capture, OrderInv, HeadInv, PcInv, InDoubt
  <2>3. \A r \in Pending : capture[r].target = txn.target => capture[r].old = head
    BY <2>2 DEF UnreachedInv
  <2>4. ASSUME NEW r \in Pending', NEW s \in Pending', capture'[r].target = capture'[s].target
        PROVE  /\ capture'[r].old = capture'[s].old
               /\ \A p \in Paths : \/ None \in {capture'[r].files[p], capture'[s].files[p]}
                                   \/ capture'[r].files[p] = capture'[s].files[p]
    <3>1. CASE r \in Pending /\ capture'[r] = capture[r] /\ s \in Pending /\ capture'[s] = capture[s]
      BY <2>4, <3>1 DEF AgreeInv
    <3>2. CASE r = run /\ capture'[r].old = head /\ capture'[r].target = txn.target
               /\ \A p \in Paths : capture'[r].files[p] = None
      BY <2>1, <2>3, <2>4, <3>2
    <3>3. CASE s = run /\ capture'[s].old = head /\ capture'[s].target = txn.target
               /\ \A p \in Paths : capture'[s].files[p] = None
      BY <2>1, <2>3, <2>4, <3>3
    <3> QED
      BY <2>1, <3>1, <3>2, <3>3
  <2> QED
    BY <2>4 DEF AgreeInv
<1>9. ASSUME NEW p \in Paths, Copy(p)
      PROVE  AgreeInv'
  <2>1. /\ run \in Runs /\ capture'[run].files[p] = work[p]
        /\ \A r \in Runs : /\ capture'[r].status = capture[r].status /\ capture'[r].target = capture[r].target
                           /\ capture'[r].old = capture[r].old
                           /\ \A q \in Paths : r # run \/ q # p => capture'[r].files[q] = capture[r].files[q]
    BY <1>9, CopyEffect
  <2>2. Pending' = Pending
    BY <2>1 DEF Pending
  <2>3. head \in Commits /\ head < txn.target /\ txn.state \notin InDoubt
    BY <1>1, <1>9 DEF Copy, OrderInv, HeadInv, PcInv, InDoubt
  <2>4. run \in Pending => capture[run].target = txn.target
    BY <1>9 DEF Copy, LocalInv, Pending, Restorable
  <2>5. \A r \in Pending : run \in Pending /\ capture[r].target = capture[run].target /\ capture[r].files[p] # None =>
          capture[r].files[p] = work[p]
    BY <2>3, <2>4 DEF UnreachedInv
  <2>6. ASSUME NEW r \in Pending, NEW s \in Pending, capture[r].target = capture[s].target, NEW q \in Paths
        PROVE  None \in {capture'[r].files[q], capture'[s].files[q]} \/ capture'[r].files[q] = capture'[s].files[q]
    <3>1. CASE q # p \/ (r # run /\ s # run)
      <4>1. capture'[r].files[q] = capture[r].files[q] /\ capture'[s].files[q] = capture[s].files[q]
        BY <1>1, <2>1, <3>1
      <4> QED
        BY <2>6, <4>1 DEF AgreeInv
    <3>2. CASE q = p /\ (r = run \/ s = run)
      BY <1>1, <2>1, <2>5, <2>6, <3>2
    <3> QED
      BY <3>1, <3>2
  <2> QED
    BY <1>1, <2>1, <2>2, <2>6 DEF AgreeInv
<1>10. ASSUME NEW c \in Runs, Prune(c)
       PROVE  AgreeInv'
  <2>1. \A r \in Runs : capture'[r] \in {capture[r], NoCapture}
    BY <1>1, <1>10 DEF Prune
  <2> QED
    BY <2>1, <1>2 DEF Pending, Restorable, NoCapture, SameFiles
<1>11. ASSUME NEW p \in Paths, Stage(p) \/ \E new \in Object : Edit(p, new)
       PROVE  AgreeInv'
  BY <1>11, <1>3, UserEffect
<1> QED
  BY StepCases, <1>4, <1>5, <1>6, <1>7, <1>8, <1>9, <1>10, <1>11

LEMMA RestoreStep ==
  ASSUME TxnInv, LocalInv, RestoreInv, Habits = {}, Next
  PROVE  RestoreInv'
<1> DEFINE Handled == \A p \in Paths \ todo : capture[cur].files[p] \in User => work[p] = capture[cur].files[p]
<1>1. /\ PcInv /\ txn \in TxnRecord /\ capture \in [Runs -> CaptureRecord] /\ work \in [Paths -> Object]
      /\ None \notin User /\ Absent \notin User /\ todo \subseteq Paths /\ 0 \notin Runs
  BY ValuesAssumption, BoundsAssumption
  DEF TxnInv, TypeOK, BackupType, RepositoryType, LoopType, Object, Content, Runs
<1> USE DEF repo, backups, loop, Goto
<1>2. ASSUME pc' \notin {"restore", "replay"}
      PROVE  RestoreInv'
  BY <1>2 DEF RestoreInv
<1>3. CASE Push
  <2>1. UNCHANGED <<head, work, capture, pc, todo, cur, outcome>>
    BY <1>3 DEF Push
  <2> QED
    BY <2>1 DEF RestoreInv, Pending
<1>4. CASE MarkApplied
  <2>1. /\ UNCHANGED <<head, work, capture>> /\ pc = "reset" /\ head = txn.target
        /\ pc' = "restore" => /\ txn.local # 0 /\ cur' = txn.local
                              /\ todo' = {p \in Paths : capture[txn.local].files[p] # None}
        /\ pc' \in {"finish", "restore"}
    BY <1>4 DEF MarkApplied
  <2>2. txn.local # 0 => /\ txn.local \in Runs /\ capture[txn.local].status = "pending"
                         /\ capture[txn.local].target = txn.target
    BY <1>1, <2>1 DEF LocalInv, PcInv
  <2> QED
    BY <1>1, <2>1, <2>2 DEF RestoreInv, Pending, Restorable
<1>5. ASSUME NEW r \in Runs, Replay(r)
      PROVE  RestoreInv'
  <2>1. /\ UNCHANGED <<head, work, capture>> /\ pc' = "replay" /\ cur' = r /\ Replayable(r)
        /\ todo' = {p \in Paths : capture[r].files[p] # None}
    BY <1>5 DEF Replay
  <2>2. capture[r].status \in Restorable /\ capture[r].target = head
    BY <1>1, <2>1 DEF Replayable, Resumable, LocalInv, Restorable
  <2> QED
    BY <1>1, <2>1, <2>2 DEF RestoreInv, Pending
<1>6. ASSUME NEW p \in Paths, RestorePath(p)
      PROVE  RestoreInv'
  <2>1. /\ UNCHANGED <<head, capture, pc, cur>> /\ pc \in {"restore", "replay"} /\ todo' = todo \ {p}
        /\ work' = work \/ work' = [work EXCEPT ![p] = capture[cur].files[p]]
    BY <1>6 DEF RestorePath, Mine
  <2>2. \A q \in Paths : q # p => work'[q] = work[q]
    BY <1>1, <2>1
  <2>3. outcome' = "restored" => outcome = "restored"
    BY <1>6 DEF RestorePath
  <2>4. outcome' = "restored" /\ capture[cur].files[p] \in User => work'[p] = capture[cur].files[p]
    BY <1>1, <1>6, <2>3 DEF RestorePath, Overridden, Deleted, Mine
  <2>5. Pending' = Pending
    BY <2>1 DEF Pending
  <2> QED
    BY <2>1, <2>2, <2>3, <2>4, <2>5 DEF RestoreInv
<1>7. CASE Recovery /\ ~\E r \in Runs : Replay(r)
  BY <1>7, <1>2 DEF Recovery, StayBlocked, RetainCapture, AbortBeforeApply, Block, Resume, RecoverDone,
     CloseAside, PutBack, Resolving, Recovering, Recovered, Handle, End
<1>8. CASE Clone \/ Prepare \/ Equal \/ CollideDone \/ Capture \/ CopyDone \/ Record \/ Check \/ Apply
           \/ ResetHead \/ RestoreDone \/ Finish \/ \E p \in Paths : MoveAside(p) \/ Copy(p) \/ ResetPath(p)
  BY <1>8, <1>2 DEF Clone, Prepare, Equal, CollideDone, Capture, CopyDone, Record, Check, Apply, ResetHead,
     RestoreDone, Finish, MoveAside, Copy, ResetPath, Handle, End
<1>9. CASE Launch \/ Error \/ Crash \/ \E r \in Runs : Prune(r)
  BY <1>9, <1>2 DEF Launch, Error, Crash, Prune, Handle, End
<1>10. ASSUME NEW p \in Paths, Stage(p) \/ \E new \in Object : Edit(p, new)
       PROVE  RestoreInv'
  BY <1>10, <1>2, UserEffect
<1> QED
  BY <1>3, <1>4, <1>5, <1>6, <1>7, <1>8, <1>9, <1>10 DEF Next, Sync, Environment

LEMMA KeptStep ==
  ASSUME TxnInv, FreshInv, AsideInv, CopyInv, ResetInv, ReachedInv, RestoreInv, KeptInv, Habits = {}, Next
  PROVE  KeptInv'
<1>1. /\ PcInv /\ work \in [Paths -> Object] /\ authored \in [Paths -> Object \cup {None}]
      /\ capture \in [Runs -> CaptureRecord] /\ RepositoryType
      /\ None \notin User /\ Absent \notin User /\ Dev \cap User = {}
  BY ValuesAssumption DEF TxnInv, TypeOK, BackupType, RepositoryType, UserType, Object, Content
\* No backup is given up, and the files stay.
<1>2. ASSUME UNCHANGED <<work, authored>>,
             \A p \in Paths, v \in User : Backed(p, v) => Backed(p, v)'
      PROVE  KeptInv'
  BY <1>2 DEF KeptInv
<1>3. ASSUME UNCHANGED <<work, authored, capture, aside>>
      PROVE  KeptInv'
  BY <1>2, <1>3 DEF Backed
\* One file changes that is backed up or the user's no longer.
<1>4. ASSUME NEW p \in Paths, UNCHANGED <<capture, aside>>,
             \A q \in Paths : q # p => work'[q] = work[q] /\ authored'[q] = authored[q],
             authored'[p] \in User => work'[p] = authored'[p] \/ Backed(p, authored'[p])
      PROVE  KeptInv'
  BY <1>4 DEF KeptInv, Backed
<1>5. CASE Quiet \/ MarkApplied
  BY <1>5, <1>3, QuietEffect
<1>6. CASE RetainCapture
  <2>1. UNCHANGED <<work, authored, aside>>
    BY <1>6 DEF RetainCapture, user
  <2>2. \A r \in Runs : capture'[r].files = capture[r].files
                        /\ (capture[r].status # "completed" => capture'[r].status # "completed")
    BY <1>6, RetainEffect DEF SameFiles
  <2> QED
    BY <2>1, <2>2, <1>2 DEF Backed
<1>7. CASE RestoreDone
  <2>1. UNCHANGED <<work, authored, aside>> /\ cur \in Pending /\ todo = {} /\ pc \in {"restore", "replay"}
    BY <1>7 DEF RestoreDone, RestoreInv, user
  <2>2. \A r \in Runs : capture'[r].files = capture[r].files /\ (r # cur => capture'[r] = capture[r])
    BY <1>7, RestoreDoneEffect DEF SameFiles
  <2>3. capture'[cur].status = "completed" => outcome = "restored"
    <3>1. capture'[cur].status = RestoredStatus(capture[cur]) /\ capture[cur].status # "completed"
      BY <1>7, <2>1, RestoreDoneEffect DEF Pending, Restorable
    <3>2. outcome \in {"restored", "left", "overridden"}
      BY DEF TxnInv, TypeOK, LoopType
    <3> QED
      BY <3>1, <3>2 DEF RestoredStatus
  <2>4. ASSUME NEW p \in Paths, authored[p] \in User
        PROVE  work[p] = authored[p] \/ Backed(p, authored[p])'
    <3>1. CASE capture[cur].files[p] = authored[p] /\ capture'[cur].status = "completed"
      BY <2>1, <2>3, <2>4, <3>1 DEF RestoreInv
    <3>2. CASE capture[cur].files[p] # authored[p] \/ capture'[cur].status # "completed"
      <4>1. Backed(p, authored[p]) => Backed(p, authored[p])'
        BY <2>1, <2>2, <3>2 DEF Backed
      <4> QED
        BY <2>4, <4>1 DEF KeptInv
    <3> QED
      BY <3>1, <3>2
  <2> QED
    BY <2>1, <2>4 DEF KeptInv
<1>8. CASE Clone \/ ResetHead
  BY <1>8, <1>3 DEF Clone, ResetHead, backups, user
<1>9. CASE Capture
  <2>1. UNCHANGED <<work, authored, aside>>
    BY <1>9 DEF Capture, user
  <2>2. run \in Runs /\ capture[run] = NoCapture /\ \A r \in Runs : r # run => capture'[r] = capture[r]
    BY <1>1, <1>9, CaptureEffect DEF Capture, FreshInv, Uncaptured
  <2>3. \A p \in Paths : capture[run].files[p] = None
    BY <2>2 DEF NoCapture, NoFiles
  <2> QED
    BY <1>1, <2>1, <2>2, <2>3, <1>2 DEF Backed
<1>10. ASSUME NEW p \in Paths, Copy(p)
       PROVE  KeptInv'
  <2>1. /\ UNCHANGED <<work, authored, aside>> /\ run \in Runs /\ pc = "copy" /\ p \in todo
        /\ \A r \in Runs : /\ capture'[r].status = capture[r].status
                           /\ \A q \in Paths : r # run \/ q # p => capture'[r].files[q] = capture[r].files[q]
    BY <1>10, CopyEffect
  <2>2. capture[run].files[p] = None
    BY <2>1 DEF CopyInv
  <2> QED
    BY <1>1, <2>1, <2>2, <1>2 DEF Backed
<1>11. ASSUME NEW p \in Paths, ResetPath(p)
       PROVE  KeptInv'
  <2> DEFINE new == TreeOf(txn.target)[p]
  <2>1. /\ UNCHANGED <<capture, aside, authored>> /\ pc = "reset" /\ p \in todo
        /\ work'[p] = (IF new = Absent /\ index[p] = Absent THEN work[p] ELSE new)
        /\ \A q \in Paths : q # p => work'[q] = work[q]
    BY <1>1, <1>11 DEF ResetPath, backups, user
  <2>2. ASSUME authored[p] \in User, work[p] = authored[p]
        PROVE  work'[p] = work[p] \/ Backed(p, authored[p])
    <3>1. Spared(p)
      BY <2>1, <2>2 DEF ResetInv
    <3>2. run \in Runs
      BY <1>1, <2>1 DEF PcInv
    <3> QED
      BY <2>1, <2>2, <3>1, <3>2 DEF Spared, Backed
  <2>3. authored[p] \in User => work'[p] = authored[p] \/ Backed(p, authored[p])
    BY <2>2 DEF KeptInv
  <2> QED
    BY <2>1, <2>3, <1>4
<1>12. ASSUME NEW s \in Runs, CloseAside(s)
       PROVE  KeptInv'
  <2>1. UNCHANGED <<work, authored, capture>>
    BY <1>12 DEF CloseAside, user
  <2> QED
    BY <2>1, <1>2, <1>12, CloseAsideEffect DEF Backed
<1>13. ASSUME NEW s \in Runs, NEW p \in Paths, PutBack(s, p)
       PROVE  KeptInv'
  <2>1. UNCHANGED <<capture, authored>>
    BY <1>13 DEF PutBack, user
  <2>2. /\ work[p] = Absent /\ work'[p] = aside[s].files[p]
        /\ \A q \in Paths : q # p => work'[q] = work[q]
        /\ \A r \in Runs, q \in Paths : r # s \/ q # p => aside'[r].files[q] = aside[r].files[q]
    BY <1>13, PutBackEffect
  <2>3. ASSUME NEW q \in Paths, authored[q] \in User
        PROVE  work'[q] = authored[q] \/ Backed(q, authored[q])'
    <3>1. CASE q = p /\ aside[s].files[p] = authored[p]
      BY <2>2, <3>1
    <3>2. CASE q # p \/ aside[s].files[p] # authored[p]
      <4>1. Backed(q, authored[q]) => Backed(q, authored[q])'
        BY <2>1, <2>2, <3>2 DEF Backed
      <4>2. work[q] = authored[q] => work'[q] = work[q]
        BY <1>1, <2>2, <2>3
      <4> QED
        BY <2>3, <4>1, <4>2 DEF KeptInv
    <3> QED
      BY <3>1, <3>2
  <2> QED
    BY <2>1, <2>3 DEF KeptInv
<1>14. ASSUME NEW p \in Paths, MoveAside(p)
       PROVE  KeptInv'
  <2>1. UNCHANGED <<capture, authored>>
    BY <1>14 DEF MoveAside, user
  <2>2. /\ run \in Runs /\ pc = "collide" /\ p \in todo
        /\ work[p] = Absent => UNCHANGED <<work, aside>>
        /\ work[p] # Absent => aside'[run].files[p] = work[p]
        /\ \A q \in Paths : q # p => work'[q] = work[q]
        /\ \A r \in Runs, q \in Paths : r # run \/ q # p => aside'[r].files[q] = aside[r].files[q]
    BY <1>14, MoveAsideEffect
  <2>3. aside[run].files[p] = None
    BY <2>2 DEF AsideInv
  <2>4. \A q \in Paths, v \in User : Backed(q, v) => Backed(q, v)'
    BY <1>1, <2>1, <2>2, <2>3 DEF Backed
  <2>5. ASSUME NEW q \in Paths, authored[q] \in User, work[q] = authored[q]
        PROVE  work'[q] = authored[q] \/ Backed(q, authored[q])'
    BY <1>1, <2>1, <2>2, <2>5 DEF Backed
  <2>6. ASSUME NEW q \in Paths, authored[q] \in User, Backed(q, authored[q])
        PROVE  Backed(q, authored[q])'
    BY <2>1, <2>4, <2>6
  <2> QED
    BY <2>1, <2>5, <2>6 DEF KeptInv
<1>15. ASSUME NEW p \in Paths, RestorePath(p)
       PROVE  KeptInv'
  <2>1. /\ UNCHANGED <<capture, aside, authored, head>> /\ pc \in {"restore", "replay"} /\ p \in todo
        /\ work' = work \/ work' = [work EXCEPT ![p] = capture[cur].files[p]]
    BY <1>15 DEF RestorePath, Mine, repo, backups, user
  <2>2. /\ txn.state \notin InDoubt /\ cur \in Pending /\ capture[cur].target = head
        /\ capture[cur].files[p] # None
    BY <1>1, <2>1 DEF PcInv, RestoreInv, TxnInv, TodoInv, InDoubt, Terminal
  <2>3. work[p] \in {TreeOf(head)[p], capture[cur].files[p]} /\ TreeOf(head)[p] \in Dev \cup {Absent}
    BY <1>1, <2>2, TreeType DEF ReachedInv
  <2>4. work[p] \in User => work'[p] = work[p]
    BY <1>1, <2>1, <2>3
  <2>5. \A q \in Paths : q # p => work'[q] = work[q]
    BY <1>1, <2>1
  <2>6. authored[p] \in User => work'[p] = authored[p] \/ Backed(p, authored[p])
    BY <2>4 DEF KeptInv
  <2> QED
    BY <2>1, <2>5, <2>6, <1>4
<1>16. ASSUME NEW c \in Runs, Prune(c)
       PROVE  KeptInv'
  <2>1. /\ UNCHANGED <<work, authored, aside>>
        /\ \A r \in Runs : capture[r].status # "completed" => capture'[r] = capture[r]
    BY <1>1, <1>16 DEF Prune, user
  <2> QED
    BY <2>1, <1>2 DEF Backed
<1>17. ASSUME NEW p \in Paths, Stage(p)
       PROVE  KeptInv'
  BY <1>17, <1>3 DEF Stage, backups
<1>18. ASSUME NEW p \in Paths, NEW new \in Object, Edit(p, new)
       PROVE  KeptInv'
  BY <1>1, <1>18, <1>4 DEF Edit, backups
<1> QED
  BY StepCases, <1>5, <1>6, <1>7, <1>8, <1>9, <1>10, <1>11, <1>12, <1>13, <1>14, <1>15, <1>16, <1>17, <1>18

LEMMA StagedStep ==
  ASSUME TxnInv, FreshInv, UnbornInv, CopyInv, ResetInv, StagedInv, Habits = {}, Next
  PROVE  StagedInv'
<1>1. /\ PcInv /\ capture \in [Runs -> CaptureRecord] /\ index \in [Paths -> Object]
      /\ staged \in [Paths -> Object \cup {None}] /\ NoRepo \notin Commits
  BY ValuesAssumption DEF TxnInv, TypeOK, BackupType, RepositoryType, UserType
<1> USE DEF repo, backups, user
\* No blob is given up, and the index stays.
<1>2. ASSUME UNCHANGED <<tree, head, index, staged>>,
             \A r \in Runs, p \in Paths : capture[r].staged[p] # None => capture'[r].staged[p] = capture[r].staged[p]
      PROVE  StagedInv'
  <2>1. \A p : TreeOf(head)'[p] = TreeOf(head)[p]
    BY <1>2 DEF TreeOf
  <2> QED
    BY <1>2, <2>1 DEF StagedInv
<1>3. ASSUME UNCHANGED <<tree, head, index, staged, capture>>
      PROVE  StagedInv'
  BY <1>2, <1>3
<1>4. CASE Quiet \/ MarkApplied
  BY <1>4, <1>3, QuietEffect
<1>5. CASE RetainCapture
  BY <1>5, <1>2, RetainEffect DEF RetainCapture, SameFiles
<1>6. CASE RestoreDone
  BY <1>6, <1>2, RestoreDoneEffect DEF RestoreDone, SameFiles
<1>7. CASE Clone
  <2>1. UNCHANGED staged /\ head = NoRepo
    BY <1>7 DEF Clone
  <2>2. staged = NoFiles
    BY <1>1, <2>1 DEF UnbornInv, FirstCheckout
  <2> QED
    BY <2>1, <2>2 DEF StagedInv, NoFiles
<1>8. CASE Capture
  <2>1. UNCHANGED <<tree, head, index, staged>>
    BY <1>8 DEF Capture
  <2>2. capture[run] = NoCapture /\ \A r \in Runs : r # run => capture'[r] = capture[r]
    BY <1>1, <1>8, CaptureEffect DEF Capture, FreshInv, Uncaptured
  <2> QED
    BY <2>1, <2>2, <1>2 DEF NoCapture, NoFiles
<1>9. ASSUME NEW p \in Paths, Copy(p)
      PROVE  StagedInv'
  <2>1. UNCHANGED <<tree, head, index, staged>> /\ capture[run].staged[p] = None
    BY <1>9, CopyEffect DEF CopyInv
  <2>2. \A r \in Runs, q \in Paths : r # run \/ q # p => capture'[r].staged[q] = capture[r].staged[q]
    BY <1>9, CopyEffect
  <2> QED
    BY <2>1, <2>2, <1>2
<1>10. CASE ResetHead \/ \E p \in Paths : ResetPath(p)
  <2>1. UNCHANGED <<capture, staged>> /\ pc = "reset"
    BY <1>10 DEF ResetHead, ResetPath
  <2> QED
    BY <2>1 DEF ResetInv, StagedInv
<1>11. CASE (\E r \in Runs : CloseAside(r) \/ \E p \in Paths : PutBack(r, p))
            \/ \E p \in Paths : MoveAside(p) \/ RestorePath(p)
  BY <1>11, <1>3 DEF CloseAside, PutBack, MoveAside, RestorePath
<1>12. ASSUME NEW c \in Runs, Prune(c)
       PROVE  StagedInv'
  <2>1. UNCHANGED <<tree, head, index, staged>> /\ capture[c].staged = NoFiles
        /\ \A r \in Runs : r # c => capture'[r] = capture[r]
    BY <1>1, <1>12 DEF Prune, FreshInv
  <2> QED
    BY <2>1, <1>2 DEF NoFiles
<1>13. ASSUME NEW p \in Paths, Stage(p)
       PROVE  StagedInv'
  <2>1. /\ UNCHANGED <<tree, head, capture>>
        /\ index'[p] = work[p] /\ staged'[p] = (IF work[p] = TreeOf(head)[p] THEN None ELSE work[p])
        /\ \A q \in Paths : q # p => index'[q] = index[q] /\ staged'[q] = staged[q]
    BY <1>1, <1>13 DEF Stage
  <2>2. \A q : TreeOf(head)'[q] = TreeOf(head)[q]
    BY <2>1 DEF TreeOf
  <2> QED
    BY <2>1, <2>2 DEF StagedInv
<1>14. ASSUME NEW p \in Paths, NEW new \in Object, Edit(p, new)
       PROVE  StagedInv'
  BY <1>14, <1>3 DEF Edit
<1> QED
  BY StepCases, <1>4, <1>5, <1>6, <1>7, <1>8, <1>9, <1>10, <1>11, <1>12, <1>13, <1>14

-----------------------------------------------------------------------------
(* The theorems.                                                             *)

LEMMA LossInit ==
  ASSUME Init
  PROVE  LossInv
<1>1. \A r \in Runs : capture[r] = NoCapture /\ aside[r] = NoAside
  BY DEF Init
<1>2. Pending = {} /\ PendingAsides = {}
  BY <1>1 DEF Pending, PendingAsides, Restorable, NoCapture, NoAside
<1>3. /\ txn.state = "none" /\ txn.target = None /\ txn.local = 0 /\ pc = "off" /\ run = 0
      /\ upstream = 1 /\ head \in Starts /\ index = TreeOf(head)
      /\ authored = NoFiles /\ staged = NoFiles
  BY DEF Init
<1>4. \A p \in Paths : authored[p] = None /\ staged[p] = None
  BY <1>3 DEF NoFiles
<1>5. None \notin Commits /\ None \notin User /\ NoRepo \notin Commits /\ Unborn \notin Commits
  BY ValuesAssumption DEF Object, Content
<1>6. head \in Commits => head <= upstream
  <2>1. head \in {NoRepo, Unborn, 1}
    BY <1>3, BoundsAssumption
  <2> QED
    BY <1>3, <1>5, <2>1
<1>7. OrderInv
  BY <1>1, <1>2, <1>3, <1>5, <1>6 DEF OrderInv, Captured, NoCapture
<1>8. FreshInv
  BY <1>1 DEF FreshInv, NoCapture
<1>9. UnbornInv
  BY <1>1, <1>3 DEF UnbornInv, TreeOf
<1>10. AsideInv /\ CopyInv /\ LocalInv /\ ResetInv /\ RestoreInv
  BY <1>3 DEF AsideInv, CopyInv, LocalInv, ResetInv, RestoreInv, PreApply
<1>11. UnreachedInv /\ ReachedInv /\ AgreeInv
  BY <1>2 DEF UnreachedInv, ReachedInv, AgreeInv
<1>12. KeptInv /\ StagedInv
  BY <1>4, <1>5 DEF KeptInv, StagedInv
<1> QED
  BY <1>7, <1>8, <1>9, <1>10, <1>11, <1>12 DEF LossInv

LEMMA LossStutter ==
  ASSUME LossInv, UNCHANGED vars
  PROVE  LossInv'
<1> USE DEF vars, repo, backups, loop, user, history
<1>1. /\ Changes' = Changes /\ StagedPaths' = StagedPaths /\ Pending' = Pending
      /\ PendingAsides' = PendingAsides /\ Collisions(txn.old, txn.target)' = Collisions(txn.old, txn.target)
      /\ \A p : Unknown(p)' = Unknown(p) /\ Copied(p)' = Copied(p) /\ Spared(p)' = Spared(p)
      /\ \A p : TreeOf(head)'[p] = TreeOf(head)[p] /\ TreeOf(txn.target)'[p] = TreeOf(txn.target)[p]
  BY SameRepository DEF Pending, PendingAsides, Collisions, TreeOf, Copied, Spared, Unknown, Changes, StagedPaths
<1>2. (FreshInv /\ OrderInv /\ UnbornInv)'
  BY <1>1 DEF LossInv, FreshInv, Uncaptured, Unstarted, OrderInv, Captured, UnbornInv, FirstCheckout,
     NoCapture, NoAside, NoFiles
<1>3. (AsideInv /\ CopyInv /\ LocalInv /\ ResetInv)'
  BY <1>1 DEF LossInv, AsideInv, CopyInv, LocalInv, ResetInv, NoAside, NoFiles
<1>4. (UnreachedInv /\ ReachedInv /\ AgreeInv /\ RestoreInv)'
  BY <1>1 DEF LossInv, UnreachedInv, ReachedInv, AgreeInv, RestoreInv
<1>5. (KeptInv /\ StagedInv)'
  BY <1>1 DEF LossInv, KeptInv, StagedInv, Backed
<1> QED
  BY <1>2, <1>3, <1>4, <1>5 DEF LossInv

\* The inductive invariant, of a user who edits between runs, with nothing
\* unresolved.
THEOREM LossInvariance ==
  ASSUME Habits = {}
  PROVE  Spec => [](TxnInv /\ LossInv)
<1>1. Init => LossInv
  BY LossInit
<1>2. LossInv /\ TxnInv /\ [Next]_vars => LossInv'
  <2> SUFFICES ASSUME LossInv, TxnInv, [Next]_vars
               PROVE  LossInv'
    OBVIOUS
  <2>1. CASE Next
    <3>1. /\ FreshInv /\ OrderInv /\ UnbornInv /\ AsideInv /\ CopyInv /\ LocalInv /\ ResetInv
          /\ UnreachedInv /\ ReachedInv /\ AgreeInv /\ RestoreInv /\ KeptInv /\ StagedInv
      BY DEF LossInv
    <3>2. FreshInv' /\ OrderInv' /\ UnbornInv'
      BY <2>1, <3>1, FreshStep, OrderStep, UnbornStep
    <3>3. AsideInv' /\ CopyInv' /\ LocalInv' /\ ResetInv'
      BY <2>1, <3>1, AsideStep, CopyStep, LocalStep, ResetStep
    <3>4. UnreachedInv' /\ ReachedInv' /\ AgreeInv' /\ RestoreInv'
      BY <2>1, <3>1, UnreachedStep, ReachedStep, AgreeStep, RestoreStep
    <3>5. KeptInv' /\ StagedInv'
      BY <2>1, <3>1, KeptStep, StagedStep
    <3> QED
      BY <3>2, <3>3, <3>4, <3>5 DEF LossInv
  <2>2. CASE UNCHANGED vars
    BY <2>2, LossStutter
  <2> QED
    BY <2>1, <2>2
<1> QED
  BY <1>1, <1>2, TxnInvariance, PTL DEF Spec

\* What the user wrote last at a path, and what the user staged last, is there or
\* in a backup that recovery still knows, wherever runs are interrupted, whatever
\* the developer publishes and how often.
THEOREM NothingIsLost ==
  ASSUME Habits = {}
  PROVE  Spec => []NothingLost
<1>1. KeptInv /\ StagedInv => NothingLost
  <2> SUFFICES ASSUME KeptInv, StagedInv, NEW p \in Paths
               PROVE  WrittenIsKept(p) /\ StagedIsKept(p)
    BY DEF NothingLost
  <2>1. WrittenIsKept(p)
    BY DEF KeptInv, Backed, WrittenIsKept
  <2>2. None \notin User \cup {Absent}
    BY ValuesAssumption DEF Object, Content
  <2>3. StagedIsKept(p)
    BY <2>2 DEF StagedInv, StagedIsKept
  <2> QED
    BY <2>1, <2>3
<1>2. LossInv => KeptInv /\ StagedInv
  BY DEF LossInv
<1> QED
  BY <1>1, <1>2, LossInvariance, PTL
=============================================================================
