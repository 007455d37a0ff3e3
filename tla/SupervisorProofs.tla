-------------------------- MODULE SupervisorProofs --------------------------
(* Proofs about Supervisor, for every number of launches, versions, restarts *)
(* and faults, with any time limits, direct launches and outside kills.      *)
EXTENDS Supervisor, TLAPS

-----------------------------------------------------------------------------
(* The inductive invariant.                                                  *)

\* The places at which a supervisor needs its lock; and those at which a worker
\* has not come to its finish checkpoint, with the updater lock from "ready" on.
Locked == {"recover", "script", "launch", "restore", "poll", "publish", "ack", "judge",
           "release"}
Busy == {"boot", "ready", "health", "live", "sync", "synced", "done"}
Holding == {"ready", "health", "live", "sync", "synced", "done", "finwait"}

\* What the two locks mean, and where a worker can be meanwhile.
LockInv(l) ==
  /\ spc[l] \in Locked => supLock = l
  /\ supLock = l => spc[l] \in Locked \cup {"reap"}
  /\ wpc[l] \in Busy => spc[l] \in {"poll", "publish", "ack"} \/ Alone(l)
  /\ spc[l] \in {"idle", "ask", "await", "stop", "recover", "script", "launch"} =>
       wpc[l] = "none" /\ last[l] = 0
  /\ wpc[l] \in Holding => updLock = l

\* A rollback has a generation to return to, and a worker only after a judgement.
RestoreInv(l) ==
  spc[l] = "restore" =>
    /\ known # None /\ pending /\ ret[l] # "gone"
    /\ ret[l] \in {"script", "launch"} => wpc[l] = "none" /\ last[l] = 0

\* Only a worker at its health checkpoint has reported what is not acknowledged.
ReportInv(l) ==
  /\ ack[l] = last[l]
  /\ wpc[l] \notin {"health", "dead"} => posted[l] = last[l]
  /\ spc[l] \in {"publish", "ack"} =>
       wpc[l] = "dead" \/ (wpc[l] = "health" /\ posted[l] # last[l])
  /\ fin[l] # 0 => wpc[l] \in {"finwait", "report", "dead"}

\* A worker whose report was acknowledged, and which still acts on it, has the
\* updater lock, so that no other report can be on its way to publication.
Trusted(l) ==
  /\ spc[l] # "direct"
  /\ wpc[l] \in {"live", "sync"} \/ (wpc[l] = "health" /\ posted[l] = ack[l])
TrustInv(l) ==
  /\ spc[l] = "ack" => known = claim[l]
  /\ Trusted(l) => known = claim[l] /\ \A k \in Launch : spc[k] # "publish"

LaunchInv(l) == LockInv(l) /\ RestoreInv(l) /\ ReportInv(l) /\ TrustInv(l)

\* Among supervised launches: the bundle a worker was started from, the one it
\* reported, the one installed and the one that was published.
VersionInv(l) ==
  /\ wpc[l] \in {"boot", "ready", "health", "live"} => installed = loaded[l]
  /\ wpc[l] \in {"ready", "health"} => loaded[l] \notin Broken \cup {Torn}
  /\ claim[l] \notin Broken \cup {Torn}
  /\ wpc[l] = "health" => claim[l] = loaded[l]
  /\ spc[l] = "ack" => known = claim[l] /\ known # None
  /\ wpc[l] = "health" /\ posted[l] = last[l] => known = loaded[l]
  /\ wpc[l] \in {"live", "sync"} => known = loaded[l]
  /\ last[l] # 0 => known # None

\* What a supervisor leaves when it gives its lock up.
SettledInv(l) ==
  spc[l] = "release" \/ (spc[l] = "reap" /\ supLock = l) =>
    last[l] = 0 \/ installed = known \/ pending

SupervisedInv ==
  /\ PublishedStarted
  /\ \A l \in Launch : VersionInv(l) /\ SettledInv(l)

IInv ==
  /\ TypeOK
  /\ \A l \in Launch : LaunchInv(l)
  /\ Supervised => SupervisedInv

-----------------------------------------------------------------------------
(* The steps of a supervisor, of a worker, of what disturbs them and of a    *)
(* conflict over the lock: first what holds of every launch.                 *)

\* Launch l makes the step and m is any launch, l included.
LEMMA SuperviseStep ==
  ASSUME IInv, NEW l \in Launch, NEW m \in Launch, Supervise(l)
  PROVE  LaunchInv(m)'
<1> USE LaunchAssumption DEF IInv, LaunchInv, LockInv, RestoreInv, ReportInv, TrustInv, Trusted,
    Locked, Busy, Holding, TypeOK, SGoto, WGoto, Fault, Alive, SupAlive, Alone, shared,
    supervisors, workers, asked
<1>1. CASE TakeLock(l)
  BY <1>1 DEF TakeLock
<1>2. CASE DeclineLock(l)
  BY <1>2 DEF DeclineLock
<1>3. CASE Recover(l)
  BY <1>3 DEF Recover, BeginRestore
<1>4. CASE CheckScript(l)
  BY <1>4 DEF CheckScript, BeginRestore, RememberRejected
<1>5. CASE Spawn(l)
  BY <1>5 DEF Spawn
<1>6. CASE EndRestore(l)
  BY <1>6 DEF EndRestore
<1>7. CASE PollHealth(l)
  BY <1>7 DEF PollHealth
<1>8. CASE Publish(l)
  BY <1>8 DEF Publish, EndWorker, UnlessHeld
<1>9. CASE WriteAck(l)
  BY <1>9 DEF WriteAck
<1>10. CASE PollFinished(l)
  BY <1>10 DEF PollFinished
<1>11. CASE PollExit(l)
  BY <1>11 DEF PollExit
<1>12. CASE Judge(l)
  BY <1>12 DEF Judge, BeginRestore, RememberRejected
<1>13. CASE Release(l)
  BY <1>13 DEF Release
<1>14. CASE AckFinish(l)
  BY <1>14 DEF AckFinish
<1>15. CASE Reap(l)
  BY <1>15 DEF Reap, UnlessHeld
<1> QED
  BY <1>1, <1>2, <1>3, <1>4, <1>5, <1>6, <1>7, <1>8, <1>9, <1>10, <1>11,
     <1>12, <1>13, <1>14, <1>15 DEF Supervise

LEMMA WorkStep ==
  ASSUME IInv, NEW l \in Launch, NEW m \in Launch, Work(l)
  PROVE  LaunchInv(m)'
<1> USE LaunchAssumption DEF IInv, LaunchInv, LockInv, RestoreInv, ReportInv, TrustInv, Trusted,
    Locked, Busy, Holding, TypeOK, SGoto, WGoto, Fault, Alive, SupAlive, Alone, shared,
    supervisors, workers, asked
<1>1. CASE StartDirect(l)
  BY <1>1 DEF StartDirect
<1>2. CASE SkipCheckpoint(l)
  BY <1>2 DEF SkipCheckpoint, UnlessHeld
<1>3. CASE BootFails(l)
  BY <1>3 DEF BootFails, Exit, EndWorker, UnlessHeld
<1>4. CASE BootLock(l)
  BY <1>4 DEF BootLock
<1>5. CASE BootConflict(l)
  BY <1>5 DEF BootConflict, Exit, EndWorker, UnlessHeld
<1>6. CASE PostHealth(l)
  BY <1>6 DEF PostHealth
<1>7. CASE Acked(l)
  BY <1>7 DEF Acked
<1>8. CASE Timeout(l)
  BY <1>8 DEF Timeout, Exit, EndWorker, UnlessHeld
<1>9. CASE BeginSync(l)
  BY <1>9 DEF BeginSync
<1>10. CASE EndSync(l)
  BY <1>10 DEF EndSync
<1>11. CASE HaltSync(l)
  BY <1>11 DEF HaltSync
<1>12. CASE Reexec(l)
  BY <1>12 DEF Reexec
<1>13. CASE NoReexec(l)
  BY <1>13 DEF NoReexec
<1>14. CASE PostFinished(l)
  BY <1>14 DEF PostFinished
<1>15. CASE FinishAcked(l)
  BY <1>15 DEF FinishAcked, UnlessHeld
<1> QED
  BY <1>1, <1>2, <1>3, <1>4, <1>5, <1>6, <1>7, <1>8, <1>9, <1>10, <1>11,
     <1>12, <1>13, <1>14, <1>15 DEF Work

LEMMA DisturbStep ==
  ASSUME IInv, NEW l \in Launch, NEW m \in Launch, Disturb(l)
  PROVE  LaunchInv(m)'
<1> USE LaunchAssumption DEF IInv, LaunchInv, LockInv, RestoreInv, ReportInv, TrustInv, Trusted,
    Locked, Busy, Holding, TypeOK, SGoto, WGoto, Fault, Alive, SupAlive, Alone, shared,
    supervisors, workers, asked
<1>1. CASE BootLoseLock(l)
  BY <1>1 DEF BootLoseLock
<1>2. CASE CloseReport(l)
  BY <1>2 DEF CloseReport, Exit, EndWorker, UnlessHeld
<1>3. CASE KillWorker(l)
  BY <1>3 DEF KillWorker, Exit, EndWorker, UnlessHeld
<1>4. CASE KillSupervisor(l)
  BY <1>4 DEF KillSupervisor, UnlessHeld, Bereft
<1> QED
  BY <1>1, <1>2, <1>3, <1>4 DEF Disturb

LEMMA ContendStep ==
  ASSUME IInv, NEW l \in Launch, NEW m \in Launch, Contend(l)
  PROVE  LaunchInv(m)'
<1> USE LaunchAssumption DEF IInv, LaunchInv, LockInv, RestoreInv, ReportInv, TrustInv, Trusted,
    Locked, Busy, Holding, TypeOK, SGoto, WGoto, Fault, Alive, SupAlive, Alone, shared,
    supervisors, workers, asked
<1>1. CASE AskOwner(l)
  BY <1>1 DEF AskOwner
<1>2. CASE Refuse(l)
  BY <1>2 DEF Refuse, Forget
<1>3. CASE OwnerLeft(l)
  BY <1>3 DEF OwnerLeft
<1>4. CASE StopOwner(l)
  BY <1>4 DEF StopOwner, EndWorker, UnlessHeld, Bereft
<1>5. CASE ForceStop(l)
  BY <1>5 DEF ForceStop, EndWorker, UnlessHeld
<1>6. CASE TakeOver(l)
  BY <1>6 DEF TakeOver, Forget
<1> QED
  BY <1>1, <1>2, <1>3, <1>4, <1>5, <1>6 DEF Contend

-----------------------------------------------------------------------------
(* The same steps as long as no worker is alone.                             *)

LEMMA SuperviseSupervised ==
  ASSUME IInv, Supervised, Supervised', NEW l \in Launch, NEW m \in Launch, Supervise(l)
  PROVE  VersionInv(m)' /\ SettledInv(m)' /\ PublishedStarted'
<1> USE LaunchAssumption, VersionAssumption
    DEF IInv, LaunchInv, LockInv, RestoreInv, ReportInv, SupervisedInv, VersionInv, SettledInv,
    PublishedStarted, Supervised, Alone, Locked, Busy, Holding, TypeOK, Bundles, SGoto, WGoto,
    Fault, Alive, SupAlive, shared, supervisors, workers, asked
<1>1. CASE TakeLock(l)
  BY <1>1 DEF TakeLock
<1>2. CASE DeclineLock(l)
  BY <1>2 DEF DeclineLock
<1>3. CASE Recover(l)
  BY <1>3 DEF Recover, BeginRestore
<1>4. CASE CheckScript(l)
  BY <1>4 DEF CheckScript, BeginRestore, RememberRejected
<1>5. CASE Spawn(l)
  BY <1>5 DEF Spawn
<1>6. CASE EndRestore(l)
  BY <1>6 DEF EndRestore
<1>7. CASE PollHealth(l)
  BY <1>7 DEF PollHealth
<1>8. CASE Publish(l)
  BY <1>8 DEF Publish, EndWorker, UnlessHeld
<1>9. CASE WriteAck(l)
  BY <1>9 DEF WriteAck
<1>10. CASE PollFinished(l)
  BY <1>10 DEF PollFinished
<1>11. CASE PollExit(l)
  BY <1>11 DEF PollExit
<1>12. CASE Judge(l)
  BY <1>12 DEF Judge, BeginRestore, RememberRejected
<1>13. CASE Release(l)
  BY <1>13 DEF Release
<1>14. CASE AckFinish(l)
  BY <1>14 DEF AckFinish
<1>15. CASE Reap(l)
  BY <1>15 DEF Reap, UnlessHeld
<1> QED
  BY <1>1, <1>2, <1>3, <1>4, <1>5, <1>6, <1>7, <1>8, <1>9, <1>10, <1>11,
     <1>12, <1>13, <1>14, <1>15 DEF Supervise

LEMMA WorkSupervised ==
  ASSUME IInv, Supervised, Supervised', NEW l \in Launch, NEW m \in Launch, Work(l)
  PROVE  VersionInv(m)' /\ SettledInv(m)' /\ PublishedStarted'
<1> USE LaunchAssumption, VersionAssumption
    DEF IInv, LaunchInv, LockInv, RestoreInv, ReportInv, SupervisedInv, VersionInv, SettledInv,
    PublishedStarted, Supervised, Alone, Locked, Busy, Holding, TypeOK, Bundles, SGoto, WGoto,
    Fault, Alive, SupAlive, shared, supervisors, workers, asked
<1>1. CASE StartDirect(l)
  BY <1>1 DEF StartDirect
<1>2. CASE SkipCheckpoint(l)
  BY <1>2 DEF SkipCheckpoint, UnlessHeld
<1>3. CASE BootFails(l)
  BY <1>3 DEF BootFails, Exit, EndWorker, UnlessHeld
<1>4. CASE BootLock(l)
  BY <1>4 DEF BootLock
<1>5. CASE BootConflict(l)
  BY <1>5 DEF BootConflict, Exit, EndWorker, UnlessHeld
<1>6. CASE PostHealth(l)
  BY <1>6 DEF PostHealth
<1>7. CASE Acked(l)
  BY <1>7 DEF Acked
<1>8. CASE Timeout(l)
  BY <1>8 DEF Timeout, Exit, EndWorker, UnlessHeld
<1>9. CASE BeginSync(l)
  BY <1>9 DEF BeginSync
<1>10. CASE EndSync(l)
  BY <1>10 DEF EndSync
<1>11. CASE HaltSync(l)
  BY <1>11 DEF HaltSync
<1>12. CASE Reexec(l)
  BY <1>12 DEF Reexec
<1>13. CASE NoReexec(l)
  BY <1>13 DEF NoReexec
<1>14. CASE PostFinished(l)
  BY <1>14 DEF PostFinished
<1>15. CASE FinishAcked(l)
  BY <1>15 DEF FinishAcked, UnlessHeld
<1> QED
  BY <1>1, <1>2, <1>3, <1>4, <1>5, <1>6, <1>7, <1>8, <1>9, <1>10, <1>11,
     <1>12, <1>13, <1>14, <1>15 DEF Work

LEMMA DisturbSupervised ==
  ASSUME IInv, Supervised, Supervised', NEW l \in Launch, NEW m \in Launch, Disturb(l)
  PROVE  VersionInv(m)' /\ SettledInv(m)' /\ PublishedStarted'
<1> USE LaunchAssumption, VersionAssumption
    DEF IInv, LaunchInv, LockInv, RestoreInv, ReportInv, SupervisedInv, VersionInv, SettledInv,
    PublishedStarted, Supervised, Alone, Locked, Busy, Holding, TypeOK, Bundles, SGoto, WGoto,
    Fault, Alive, SupAlive, shared, supervisors, workers, asked
<1>1. CASE BootLoseLock(l)
  BY <1>1 DEF BootLoseLock
<1>2. CASE CloseReport(l)
  BY <1>2 DEF CloseReport, Exit, EndWorker, UnlessHeld
<1>3. CASE KillWorker(l)
  BY <1>3 DEF KillWorker, Exit, EndWorker, UnlessHeld
<1>4. CASE KillSupervisor(l)
  BY <1>4 DEF KillSupervisor, UnlessHeld, Bereft
<1> QED
  BY <1>1, <1>2, <1>3, <1>4 DEF Disturb

LEMMA ContendSupervised ==
  ASSUME IInv, Supervised, Supervised', NEW l \in Launch, NEW m \in Launch, Contend(l)
  PROVE  VersionInv(m)' /\ SettledInv(m)' /\ PublishedStarted'
<1> USE LaunchAssumption, VersionAssumption
    DEF IInv, LaunchInv, LockInv, RestoreInv, ReportInv, SupervisedInv, VersionInv, SettledInv,
    PublishedStarted, Supervised, Alone, Locked, Busy, Holding, TypeOK, Bundles, SGoto, WGoto,
    Fault, Alive, SupAlive, shared, supervisors, workers, asked
<1>1. CASE AskOwner(l)
  BY <1>1 DEF AskOwner
<1>2. CASE Refuse(l)
  BY <1>2 DEF Refuse, Forget
<1>3. CASE OwnerLeft(l)
  BY <1>3 DEF OwnerLeft
<1>4. CASE StopOwner(l)
  BY <1>4 DEF StopOwner, EndWorker, UnlessHeld, Bereft
<1>5. CASE ForceStop(l)
  BY <1>5 DEF ForceStop, EndWorker, UnlessHeld
<1>6. CASE TakeOver(l)
  BY <1>6 DEF TakeOver, Forget
<1> QED
  BY <1>1, <1>2, <1>3, <1>4, <1>5, <1>6 DEF Contend

-----------------------------------------------------------------------------
\* Types, for which a restore needs a generation to install.
LEMMA SuperviseType ==
  ASSUME IInv, NEW l \in Launch, Supervise(l)
  PROVE  TypeOK'
<1> USE LaunchAssumption, VersionAssumption, BoundAssumption
    DEF TypeOK, IInv, LaunchInv, RestoreInv, SupPC, WorkerPC, Bundles, SGoto, WGoto,
    Fault, UnlessHeld, EndWorker, shared, supervisors, workers, asked
<1>1. CASE TakeLock(l)
  BY <1>1 DEF TakeLock
<1>2. CASE DeclineLock(l)
  BY <1>2 DEF DeclineLock
<1>3. CASE Recover(l)
  <2> HIDE DEF LaunchInv
  <2>1. /\ pending' \in BOOLEAN /\ spc' \in [Launch -> SupPC]
        /\ ret' \in [Launch -> {"script", "launch", "reap", "release", "gone"}]
    <3>1. \/ /\ pending' = TRUE /\ spc' = [spc EXCEPT ![l] = "restore"]
             /\ ret' = [ret EXCEPT ![l] = "script"]
          \/ spc' = [spc EXCEPT ![l] = "script"] /\ UNCHANGED <<pending, ret>>
      BY <1>3 DEF Recover, BeginRestore
    <3>2. /\ pending \in BOOLEAN /\ spc \in [Launch -> SupPC]
          /\ ret \in [Launch -> {"script", "launch", "reap", "release", "gone"}]
      OBVIOUS
    <3> HIDE DEF TypeOK, IInv
    <3> QED
      BY <3>1, <3>2
  <2>2. UNCHANGED <<supLock, updLock, installed, known, rejected, ack, last, finAck, workers,
                    faults, owner, caught>>
    BY <1>3 DEF Recover
  <2> QED
    BY <2>1, <2>2
<1>4. CASE CheckScript(l)
  <2>1. rejected' \in Bundles \cup {None}
    BY <1>4 DEF CheckScript, RememberRejected
  <2>2. /\ spc' \in [Launch -> SupPC]
        /\ ret' \in [Launch -> {"script", "launch", "reap", "release", "gone"}]
    BY <1>4 DEF CheckScript, BeginRestore
  <2>3. supLock' \in Launch \cup {None} /\ pending' \in BOOLEAN
    BY <1>4 DEF CheckScript, BeginRestore
  <2> QED
    BY <1>4, <2>1, <2>2, <2>3 DEF CheckScript
<1>5. CASE Spawn(l)
  BY <1>5 DEF Spawn
<1>6. CASE EndRestore(l)
  <2>1. installed' \in Bundles /\ pending' \in BOOLEAN /\ supLock' \in Launch \cup {None}
    BY <1>6 DEF EndRestore
  <2>2. spc' \in [Launch -> SupPC] /\ faults' \in 0..MaxFaults
    BY <1>6 DEF EndRestore
  <2> QED
    BY <1>6, <2>1, <2>2 DEF EndRestore
<1>7. CASE PollHealth(l)
  BY <1>7 DEF PollHealth
<1>8. CASE Publish(l)
  BY <1>8 DEF Publish
<1>9. CASE WriteAck(l)
  BY <1>9 DEF WriteAck
<1>10. CASE PollFinished(l)
  BY <1>10 DEF PollFinished
<1>11. CASE PollExit(l)
  BY <1>11 DEF PollExit
<1>12. CASE Judge(l)
  <2> HIDE DEF LaunchInv
  <2>1. rejected' \in Bundles \cup {None}
    BY <1>12 DEF Judge, RememberRejected
  <2>2. /\ pending' \in BOOLEAN /\ spc' \in [Launch -> SupPC]
        /\ ret' \in [Launch -> {"script", "launch", "reap", "release", "gone"}]
    <3>1. PICK after \in {"reap", "release"} :
            \/ /\ pending' = TRUE /\ spc' = [spc EXCEPT ![l] = "restore"]
               /\ ret' = [ret EXCEPT ![l] = after]
            \/ spc' = [spc EXCEPT ![l] = after] /\ UNCHANGED <<pending, ret>>
      BY <1>12 DEF Judge, BeginRestore
    <3>2. /\ pending \in BOOLEAN /\ spc \in [Launch -> SupPC]
          /\ ret \in [Launch -> {"script", "launch", "reap", "release", "gone"}]
      OBVIOUS
    <3> HIDE DEF TypeOK, IInv
    <3>3. after \in SupPC
      OBVIOUS
    <3>4. CASE ret' = [ret EXCEPT ![l] = after] /\ spc' = [spc EXCEPT ![l] = "restore"]
      BY <3>1, <3>2, <3>4
    <3>5. CASE spc' = [spc EXCEPT ![l] = after] /\ UNCHANGED <<pending, ret>>
      BY <3>2, <3>3, <3>5
    <3> QED
      BY <3>1, <3>4, <3>5
  <2>3. UNCHANGED <<supLock, updLock, installed, known, ack, last, finAck, workers, faults,
                  owner, caught>>
    BY <1>12 DEF Judge
  <2> QED
    BY <2>1, <2>2, <2>3
<1>13. CASE Release(l)
  BY <1>13 DEF Release
<1>14. CASE AckFinish(l)
  BY <1>14 DEF AckFinish
<1>15. CASE Reap(l)
  BY <1>15 DEF Reap
<1> QED
  BY <1>1, <1>2, <1>3, <1>4, <1>5, <1>6, <1>7, <1>8, <1>9, <1>10, <1>11,
     <1>12, <1>13, <1>14, <1>15 DEF Supervise

LEMMA WorkType ==
  ASSUME IInv, NEW l \in Launch, Work(l)
  PROVE  TypeOK'
<1> USE LaunchAssumption, VersionAssumption, BoundAssumption
    DEF TypeOK, IInv, LaunchInv, RestoreInv, SupPC, WorkerPC, Bundles, SGoto, WGoto,
    Fault, UnlessHeld, EndWorker, shared, supervisors, workers, asked
<1>1. CASE StartDirect(l)
  BY <1>1 DEF StartDirect
<1>2. CASE SkipCheckpoint(l)
  BY <1>2 DEF SkipCheckpoint
<1>3. CASE BootFails(l)
  BY <1>3 DEF BootFails, Exit
<1>4. CASE BootLock(l)
  BY <1>4 DEF BootLock
<1>5. CASE BootConflict(l)
  BY <1>5 DEF BootConflict, Exit
<1>6. CASE PostHealth(l)
  BY <1>6 DEF PostHealth
<1>7. CASE Acked(l)
  BY <1>7 DEF Acked
<1>8. CASE Timeout(l)
  BY <1>8 DEF Timeout, Exit
<1>9. CASE BeginSync(l)
  BY <1>9 DEF BeginSync
<1>10. CASE EndSync(l)
  BY <1>10 DEF EndSync
<1>11. CASE HaltSync(l)
  BY <1>11 DEF HaltSync
<1>12. CASE Reexec(l)
  BY <1>12 DEF Reexec
<1>13. CASE NoReexec(l)
  BY <1>13 DEF NoReexec
<1>14. CASE PostFinished(l)
  BY <1>14 DEF PostFinished
<1>15. CASE FinishAcked(l)
  BY <1>15 DEF FinishAcked
<1> QED
  BY <1>1, <1>2, <1>3, <1>4, <1>5, <1>6, <1>7, <1>8, <1>9, <1>10, <1>11,
     <1>12, <1>13, <1>14, <1>15 DEF Work

LEMMA DisturbType ==
  ASSUME IInv, NEW l \in Launch, Disturb(l)
  PROVE  TypeOK'
<1> USE LaunchAssumption, VersionAssumption, BoundAssumption
    DEF TypeOK, IInv, SupPC, WorkerPC, Bundles, SGoto, WGoto, Fault, UnlessHeld, EndWorker, shared,
    supervisors, workers, asked
<1>1. CASE BootLoseLock(l)
  BY <1>1 DEF BootLoseLock
<1>2. CASE CloseReport(l)
  BY <1>2 DEF CloseReport, Exit
<1>3. CASE KillWorker(l)
  BY <1>3 DEF KillWorker, Exit
<1>4. CASE KillSupervisor(l)
  BY <1>4 DEF KillSupervisor, SupAlive, Bereft
<1> QED
  BY <1>1, <1>2, <1>3, <1>4 DEF Disturb

LEMMA ContendType ==
  ASSUME IInv, NEW l \in Launch, Contend(l)
  PROVE  TypeOK'
<1> USE LaunchAssumption, VersionAssumption, BoundAssumption
    DEF TypeOK, IInv, SupPC, WorkerPC, Bundles, SGoto, WGoto, Fault, UnlessHeld, EndWorker, shared,
    supervisors, workers, asked
<1>1. CASE AskOwner(l)
  BY <1>1 DEF AskOwner, Alive
<1>2. CASE Refuse(l)
  BY <1>2 DEF Refuse, Forget
<1>3. CASE OwnerLeft(l)
  BY <1>3 DEF OwnerLeft
<1>4. CASE StopOwner(l)
  BY <1>4 DEF StopOwner, Bereft
<1>5. CASE ForceStop(l)
  BY <1>5 DEF ForceStop
<1>6. CASE TakeOver(l)
  BY <1>6 DEF TakeOver, Forget
<1> QED
  BY <1>1, <1>2, <1>3, <1>4, <1>5, <1>6 DEF Contend

\* A power loss takes all processes at once.
LEMMA PowerLossStep ==
  ASSUME IInv, PowerLoss
  PROVE  IInv'
<1> USE LaunchAssumption, BoundAssumption DEF IInv, PowerLoss, Fault
<1>1. TypeOK'
  BY DEF TypeOK, SupPC, WorkerPC
<1>2. ASSUME NEW m \in Launch PROVE LaunchInv(m)'
  BY DEF TypeOK, LaunchInv, LockInv, RestoreInv, ReportInv, TrustInv, Trusted, Locked, Busy, Holding,
    Alone
<1>3. Supervised' => Supervised
  BY DEF TypeOK, Supervised, Alone
<1>4. Supervised => SupervisedInv'
  BY DEF TypeOK, SupervisedInv, PublishedStarted, VersionInv, SettledInv, Alone
<1> QED
  BY <1>1, <1>2, <1>3, <1>4

LEMMA InitInv == Init => IInv
<1> SUFFICES ASSUME Init PROVE IInv
  OBVIOUS
<1> USE LaunchAssumption, VersionAssumption, BoundAssumption DEF Init
<1>1. TypeOK
  <2>1. 0 \in 0..RestartLimit /\ 0 \in 0..MaxHealth /\ 0 \in 0..MaxFaults
    OBVIOUS
  <2>2. installed \in Bundles /\ known \in Bundles \cup {None}
    BY DEF Bundles
  <2> QED
    BY <2>1, <2>2, ZenonT(30) DEF TypeOK, SupPC, WorkerPC
<1>2. SupervisedInv
  BY DEF SupervisedInv, PublishedStarted, VersionInv, SettledInv
<1>3. ASSUME NEW l \in Launch PROVE LaunchInv(l)
  BY DEF LaunchInv, LockInv, RestoreInv, ReportInv, TrustInv, Trusted, Locked, Busy, Holding
<1> QED
  BY <1>1, <1>2, <1>3 DEF IInv

\* A worker that is alone stays so: no later step takes it back.
LEMMA AloneStays ==
  ASSUME IInv, Next, NEW m \in Launch, Alone(m)
  PROVE  Alone(m)'
<1> USE DEF Alone
<1>1. spc \in [Launch -> SupPC] /\ supLock # m
  BY LaunchAssumption DEF IInv, TypeOK, LaunchInv, LockInv, Locked
<1> HIDE DEF IInv
<1> USE LaunchAssumption DEF SGoto, shared, supervisors
<1>2. CASE PowerLoss
  BY <1>1, <1>2 DEF PowerLoss
<1>3. ASSUME NEW l \in Launch, Supervise(l) PROVE Alone(m)'
  BY <1>1, <1>3 DEF Supervise, TakeLock, DeclineLock, Recover, CheckScript, Spawn, EndRestore,
    PollHealth, Publish, WriteAck, PollFinished, PollExit, Judge, Release, AckFinish, Reap,
    BeginRestore
<1>4. ASSUME NEW l \in Launch, Work(l) PROVE Alone(m)'
  BY <1>1, <1>4 DEF Work, StartDirect, SkipCheckpoint, BootFails, BootLock, BootConflict,
    PostHealth, Acked, Timeout, BeginSync, EndSync, HaltSync, Reexec, NoReexec, PostFinished,
    FinishAcked, Exit
<1>5. ASSUME NEW l \in Launch, Disturb(l) PROVE Alone(m)'
  BY <1>1, <1>5 DEF Disturb, BootLoseLock, CloseReport, KillWorker, KillSupervisor, Exit, SupAlive,
    Bereft
<1>6. ASSUME NEW l \in Launch, Contend(l) PROVE Alone(m)'
  BY <1>1, <1>6 DEF Contend, AskOwner, Refuse, OwnerLeft, StopOwner, ForceStop, TakeOver, SupAlive,
    Bereft
<1> QED
  BY <1>2, <1>3, <1>4, <1>5, <1>6 DEF Next

LEMMA NextInv == IInv /\ [Next]_vars => IInv'
<1> SUFFICES ASSUME IInv, [Next]_vars PROVE IInv'
  OBVIOUS
<1>1. CASE PowerLoss
  BY <1>1, PowerLossStep
<1>2. ASSUME NEW l \in Launch, Supervise(l) \/ Work(l) \/ Disturb(l) \/ Contend(l) PROVE IInv'
  <2>1. TypeOK'
    BY <1>2, SuperviseType, WorkType, DisturbType, ContendType
  <2>2. ASSUME NEW m \in Launch PROVE LaunchInv(m)'
    BY <1>2, <2>2, SuperviseStep, WorkStep, DisturbStep, ContendStep
  <2>3. Supervised' => Supervised
    BY <1>2, AloneStays DEF Next, Supervised
  <2>4. ASSUME Supervised', NEW m \in Launch
        PROVE  VersionInv(m)' /\ SettledInv(m)' /\ PublishedStarted'
    BY <1>2, <2>3, <2>4, SuperviseSupervised, WorkSupervised, DisturbSupervised, ContendSupervised
  <2>5. Supervised' => PublishedStarted'
    BY <1>2, <2>4
  <2> QED
    BY <2>1, <2>2, <2>4, <2>5 DEF IInv, SupervisedInv
<1>3. CASE UNCHANGED vars
  BY <1>3 DEF vars, shared, supervisors, workers, asked, IInv, TypeOK, SupervisedInv, Supervised,
    Alone, PublishedStarted, LaunchInv, LockInv, RestoreInv, ReportInv, TrustInv, Trusted,
    VersionInv, SettledInv
<1> QED
  BY <1>1, <1>2, <1>3 DEF Next

THEOREM Invariance == Spec => []IInv
<1>1. Init => IInv
  BY InitInv
<1>2. IInv /\ [Next]_vars => IInv'
  BY NextInv
<1> QED
  BY <1>1, <1>2, PTL DEF Spec

-----------------------------------------------------------------------------
(* The theorems, for every launch, direct or orphaned ones included.         *)

\* Every variable stays in its range: no more restarts than the limit in one
\* launch, and a prompt only about a launch that had the lock.
THEOREM TypeCorrect == Spec => []TypeOK
<1>1. IInv => TypeOK
  BY DEF IInv
<1> QED
  BY <1>1, Invariance, PTL

\* Synchronisations exclude each other, and so do rollbacks; a rollback has the
\* installed files for itself but for a worker that has no supervisor.
THEOREM OneWriter == Spec => []OneMutator
<1>1. IInv => OneMutator
  BY LaunchAssumption
     DEF IInv, TypeOK, LaunchInv, LockInv, Locked, Busy, Holding, OneMutator
<1> QED
  BY <1>1, Invariance, PTL

\* A rollback returns to the bundle that the worker at work has reported, though
\* it has lost its supervisor; if no worker is alone, to the very version that
\* this worker was started from.
THEOREM RunsWhatIsKnown == Spec => []KnownIsRunning
<1>1. IInv => KnownIsRunning
  BY DEF IInv, LaunchInv, TrustInv, Trusted, SupervisedInv, VersionInv, KnownIsRunning
<1> QED
  BY <1>1, Invariance, PTL

\* Nothing is published that has not started, as long as no worker is alone.
THEOREM OnlyStarted == Spec => []KnownWasHealthy
<1>1. IInv => KnownWasHealthy
  BY DEF IInv, SupervisedInv, KnownWasHealthy
<1> QED
  BY <1>1, Invariance, PTL

\* A step by which a launch gives its lock up is one of four, or a fault.
LEMMA ReleaseStep ==
  ASSUME IInv, Next, NEW l \in Launch
  PROVE  LeavesSettled(l)
<1> SUFFICES ASSUME supLock = l, supLock' # l, last[l] # 0, faults' = faults, Supervised
             PROVE  installed = known \/ pending
  BY DEF LeavesSettled
<1> USE LaunchAssumption DEF IInv, TypeOK
<1>1. faults + 1 # faults
  OBVIOUS
<1>2. PICK k \in Launch : Supervise(k) \/ Work(k) \/ Disturb(k) \/ Contend(k)
  BY <1>1 DEF Next, PowerLoss, Fault
<1>3. CheckScript(k) \/ EndRestore(k) \/ PollExit(k) \/ Release(k) \/ Reap(k)
  <2>1. CASE Supervise(k)
    BY <2>1 DEF Supervise, TakeLock, DeclineLock, Recover, Spawn, PollHealth, Publish, WriteAck,
      PollFinished, Judge, AckFinish, shared
  <2>2. CASE Work(k)
    BY <2>2 DEF Work, StartDirect, SkipCheckpoint, BootFails, BootLock, BootConflict, PostHealth,
      Acked, Timeout, BeginSync, EndSync, HaltSync, Reexec, NoReexec, PostFinished, FinishAcked,
      Exit, shared
  <2>3. CASE Disturb(k)
    BY <1>1, <2>3 DEF Disturb, BootLoseLock, CloseReport, KillWorker, KillSupervisor, Exit, Fault,
      shared
  <2>4. CASE Contend(k)
    BY <1>1, <2>4 DEF Contend, AskOwner, Refuse, OwnerLeft, StopOwner, ForceStop, TakeOver, Fault,
      shared
  <2> QED
    BY <1>2, <2>1, <2>2, <2>3, <2>4
<1>4. k = l
  BY <1>3 DEF LaunchInv, LockInv, Locked, CheckScript, EndRestore, PollExit, Release, Reap,
    UnlessHeld
<1>5. CASE CheckScript(l) \/ EndRestore(l) \/ PollExit(l)
  BY <1>1, <1>5 DEF LaunchInv, LockInv, RestoreInv, CheckScript, EndRestore, PollExit, Fault
<1>6. CASE Release(l) \/ Reap(l)
  BY <1>6 DEF SupervisedInv, SettledInv, Release, Reap
<1> QED
  BY <1>3, <1>4, <1>5, <1>6

\* A lock is given up over the acknowledged bundle or over a pending rollback, as
\* long as no worker is alone.
THEOREM LeftSettled == Spec => ReleaseSettled
<1>1. IInv /\ [Next]_vars => [\A l \in Launch : LeavesSettled(l)]_vars
  BY ReleaseStep
<1> QED
  BY <1>1, Invariance, PTL DEF Spec, ReleaseSettled
=============================================================================
