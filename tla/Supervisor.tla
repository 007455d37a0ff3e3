------------------------------ MODULE Supervisor ------------------------------
(***************************************************************************)
(* Updater launches running side by side: each is a supervisor process      *)
(* (update_dusky_supervisor.py) and the worker it spawns (update_dusky.py), *)
(* which talk through the files of a private control directory and share    *)
(* the supervisor lock, the updater lock, the installed bundle and the      *)
(* known-good store.                                                        *)
(*                                                                         *)
(* A bundle is a version here and the store is the atomic one of the module *)
(* Generation, which KnownGood implements.  A launch id is the number of    *)
(* the health checkpoint within its launch, since control directories are   *)
(* never shared; a worker keeps its process id when it re-executes itself,  *)
(* so the pid in finished.json is left out.                                 *)
(***************************************************************************)
EXTENDS Naturals

CONSTANTS
  Launch,         \* the launches
  Direct,         \* those that may start the worker without a supervisor
  None,           \* no launch, no version
  Versions,       \* the versions of the bundle
  Broken,         \* those that fail before the health checkpoint
  Torn,           \* a half synchronised mixture of two versions
  RestartLimit,   \* restarts of a worker in one launch (3 in the code)
  MaxHealth,      \* bound on health checkpoints of one launch
  MaxFaults,      \* bound on killed processes and failed publications
  OutsideKills,   \* whether something else may kill a supervisor on its own
  EarlyTimeouts   \* whether 30 s may pass while the supervisor is alive

ASSUME LaunchAssumption == None \notin Launch /\ Direct \subseteq Launch
ASSUME VersionAssumption ==
  /\ None \notin Versions /\ Torn \notin Versions /\ None # Torn
  /\ Broken \subseteq Versions
ASSUME BoundAssumption ==
  /\ RestartLimit \in Nat /\ MaxHealth \in Nat /\ MaxFaults \in Nat
  /\ OutsideKills \in BOOLEAN /\ EarlyTimeouts \in BOOLEAN

VARIABLES
  supLock,     \* holder of supervisor.lock
  updLock,     \* launch whose worker holds the updater lock
  installed,   \* the bundle at its live pathnames
  known,       \* the known-good generation
  pending,     \* a rollback journal exists
  rejected,    \* rejected_candidate.json
  spc, ret,    \* where each supervisor is, and where its rollback returns to
  wpc, wrc,    \* where each worker is, and its exit code (0 or 1)
  loaded,      \* the version the worker runs
  gen,         \* DUSKY_RESTART_GENERATION
  synced,      \* the worker's handoff says that its sync is done
  posted,      \* the launch id in health.json, 0 when there is none
  claim,       \* the bundle whose digests health.json reports
  ack,         \* the launch id of the last ack file
  last,        \* last_launch of run_once, 0 when empty
  envId,       \* DUSKY_SUPERVISOR_LAUNCH_ID
  fin,         \* the launch id in finished.json
  finAck,      \* whether finished_ack exists
  owner,       \* the launch whose stop the user is asked for
  caught,      \* whether its worker was there to be captured with it
  faults

shared == <<supLock, updLock, installed, known, pending, rejected>>
asked == <<owner, caught>>
supervisors == <<spc, ret, ack, last, finAck, asked>>
workers == <<wpc, wrc, loaded, gen, synced, posted, claim, envId, fin>>
vars == <<shared, supervisors, workers, faults>>

SupPC == {"idle", "recover", "script", "launch", "restore", "poll", "publish", "ack", "judge",
          "release", "ackFinish", "reap", "ask", "await", "stop", "direct", "orphaned", "gone"}
WorkerPC == {"none", "boot", "ready", "health", "live", "sync", "synced",
             "done", "finwait", "report", "dead"}
Bundles == Versions \cup {Torn}

Alive(l) == wpc[l] \notin {"none", "dead"}
\* A supervisor that has, or had, its lock.
SupAlive(l) == spc[l] \notin {"idle", "ask", "await", "stop", "direct", "orphaned", "gone"}
\* A worker that never had a supervisor, or has outlived it.
Alone(l) == spc[l] \in {"direct", "orphaned"}
Fault == faults < MaxFaults /\ faults' = faults + 1

\* Control flow and single-launch updates.
SGoto(l, p) == spc' = [spc EXCEPT ![l] = p]
WGoto(l, p) == wpc' = [wpc EXCEPT ![l] = p]
UnlessHeld(lock, l) == IF lock = l THEN None ELSE lock

\* A process ends and its lock descriptors go with it.
EndWorker(l, code) ==
  /\ WGoto(l, "dead") /\ wrc' = [wrc EXCEPT ![l] = code]
  /\ updLock' = UnlessHeld(updLock, l)
\* What is left of a launch when its supervisor is killed on its own.
Bereft(l) == IF Alive(l) THEN "orphaned" ELSE "gone"

Init ==
  /\ supLock = None /\ updLock = None
  /\ installed \in Versions \ Broken
  /\ known \in {None, installed} /\ pending = FALSE /\ rejected = None
  /\ spc = [l \in Launch |-> "idle"] /\ ret = [l \in Launch |-> "gone"]
  /\ wpc = [l \in Launch |-> "none"] /\ wrc = [l \in Launch |-> 0]
  /\ loaded = [l \in Launch |-> None] /\ gen = [l \in Launch |-> 0]
  /\ synced = [l \in Launch |-> FALSE]
  /\ posted = [l \in Launch |-> 0] /\ claim = [l \in Launch |-> None]
  /\ ack = [l \in Launch |-> 0] /\ last = [l \in Launch |-> 0]
  /\ envId = [l \in Launch |-> 0] /\ fin = [l \in Launch |-> 0]
  /\ finAck = [l \in Launch |-> FALSE]
  /\ owner = [l \in Launch |-> None] /\ caught = [l \in Launch |-> FALSE]
  /\ faults = 0

----------------------------------------------------------------------------
(* The supervisor, up to the launch of its worker                          *)

\* main: flock(LOCK_EX | LOCK_NB).
TakeLock(l) ==
  /\ spc[l] = "idle" /\ supLock = None
  /\ supLock' = l /\ SGoto(l, "recover")
  /\ UNCHANGED <<updLock, installed, known, pending, rejected, ret, ack, last,
                 finAck, workers, faults, asked>>

\* recover_lock_conflict without a terminal: the launch ends with exit code 0.
DeclineLock(l) ==
  /\ spc[l] = "idle" /\ supLock # None /\ SGoto(l, "gone")
  /\ UNCHANGED <<shared, ret, ack, last, finAck, workers, faults, asked>>

\* restore_known_good writes its journal first.
BeginRestore(l, after) ==
  /\ pending' = TRUE
  /\ SGoto(l, "restore") /\ ret' = [ret EXCEPT ![l] = after]

\* remember_rejected_candidate, best effort.
RememberRejected == rejected' \in {installed, rejected}

\* recover_supervisor_state: a pending rollback is finished first.
Recover(l) ==
  /\ spc[l] = "recover"
  /\ IF pending /\ known # None
     THEN BeginRestore(l, "script")
     ELSE SGoto(l, "script") /\ UNCHANGED <<pending, ret>>
  /\ UNCHANGED <<supLock, updLock, installed, known, rejected, ack, last,
                 finAck, workers, faults, asked>>

\* A mixture may lack a runnable script, which is restored if it can be;
\* everything else is launched as a candidate.
CheckScript(l) ==
  /\ spc[l] = "script"
  /\ \/ /\ installed = Torn /\ known # None
        /\ BeginRestore(l, "launch") /\ RememberRejected /\ UNCHANGED supLock
     \/ /\ installed = Torn /\ known = None
        /\ supLock' = None /\ SGoto(l, "gone")
        /\ UNCHANGED <<pending, rejected, ret>>
     \/ SGoto(l, "launch") /\ UNCHANGED <<supLock, pending, rejected, ret>>
  /\ UNCHANGED <<updLock, installed, known, ack, last, finAck, workers, faults,
                 asked>>

\* run_once: a fresh control directory and a new worker process.
Spawn(l) ==
  /\ spc[l] = "launch" /\ SGoto(l, "poll") /\ WGoto(l, "boot")
  /\ loaded' = [loaded EXCEPT ![l] = installed]
  /\ UNCHANGED <<shared, ret, ack, last, finAck, wrc, gen, synced, posted,
                 claim, envId, fin, faults, asked>>

\* restore_known_good succeeds, or fails and keeps its journal; a failed
\* restore before the launch ends it (exit code 70).
EndRestore(l) ==
  /\ spc[l] = "restore"
  /\ \/ /\ installed' = known /\ pending' = FALSE
        /\ SGoto(l, ret[l]) /\ UNCHANGED <<supLock, faults>>
     \/ /\ Fault /\ UNCHANGED <<installed, pending>>
        /\ IF ret[l] \in {"script", "launch"}
           THEN SGoto(l, "gone") /\ supLock' = None
           ELSE SGoto(l, ret[l]) /\ UNCHANGED supLock
  /\ UNCHANGED <<updLock, known, rejected, ret, ack, last, finAck, workers,
                 asked>>

----------------------------------------------------------------------------
(* run_once: polling the worker's files                                    *)

\* health.json carries a launch id that was not handled yet.
PollHealth(l) ==
  /\ spc[l] = "poll" /\ Alive(l)
  /\ posted[l] # 0 /\ posted[l] # last[l]
  /\ SGoto(l, "publish")
  /\ UNCHANGED <<shared, ret, ack, last, finAck, workers, faults, asked>>

\* publish_known_good, or its failure: a file that changed since the report,
\* or an I/O error.  The worker is then terminated and the candidate judged.
Publish(l) ==
  /\ spc[l] = "publish"
  /\ \/ /\ claim[l] = installed
        /\ known' = installed /\ SGoto(l, "ack")
        /\ UNCHANGED <<updLock, ret, wpc, wrc, faults>>
     \/ /\ (claim[l] # installed /\ UNCHANGED faults) \/ Fault
        /\ SGoto(l, "judge") /\ ret' = [ret EXCEPT ![l] = "gone"]
        /\ EndWorker(l, 1) /\ UNCHANGED known
  /\ UNCHANGED <<supLock, installed, pending, rejected, ack, last, finAck,
                 loaded, gen, synced, posted, claim, envId, fin, asked>>

WriteAck(l) ==
  /\ spc[l] = "ack" /\ SGoto(l, "poll")
  /\ ack' = [ack EXCEPT ![l] = posted[l]]
  /\ last' = [last EXCEPT ![l] = posted[l]]
  /\ UNCHANGED <<shared, ret, finAck, workers, faults, asked>>

\* finished.json names the launch acknowledged last: the candidate is judged
\* while both locks are still held.
PollFinished(l) ==
  /\ spc[l] = "poll" /\ Alive(l)
  /\ last[l] # 0 /\ fin[l] = last[l]
  /\ SGoto(l, "judge") /\ ret' = [ret EXCEPT ![l] = "release"]
  /\ UNCHANGED <<shared, ack, last, finAck, workers, faults, asked>>

\* The worker ended.  Exit code 0 without an acknowledged report is not judged.
PollExit(l) ==
  /\ spc[l] = "poll" /\ wpc[l] = "dead"
  /\ IF wrc[l] = 0 /\ last[l] = 0
     THEN SGoto(l, "gone") /\ supLock' = None /\ UNCHANGED ret
     ELSE SGoto(l, "judge") /\ ret' = [ret EXCEPT ![l] = "gone"]
          /\ UNCHANGED supLock
  /\ UNCHANGED <<updLock, installed, known, pending, rejected, ack, last,
                 finAck, workers, faults, asked>>

\* Mutant: a worker that finished in order is trusted with what it installed.
JudgeTrusting(l) ==
  /\ spc[l] = "judge" /\ ret[l] = "release" /\ SGoto(l, "release")
  /\ UNCHANGED <<shared, ret, ack, last, finAck, workers, faults, asked>>

\* _finish_candidate: roll back when the installed bundle is not the one
\* acknowledged last.
Judge(l) ==
  /\ spc[l] = "judge"
  /\ IF known # None /\ installed # known
     THEN RememberRejected
          /\ BeginRestore(l, IF ret[l] = "gone" THEN "reap" ELSE "release")
     ELSE SGoto(l, IF ret[l] = "gone" THEN "reap" ELSE "release")
          /\ UNCHANGED <<pending, rejected, ret>>
  /\ UNCHANGED <<supLock, updLock, installed, known, ack, last, finAck, workers,
                 faults, asked>>

\* The lock is closed first, then the worker is told.
Release(l) ==
  /\ spc[l] = "release" /\ supLock' = None /\ SGoto(l, "ackFinish")
  /\ UNCHANGED <<updLock, installed, known, pending, rejected, ret, ack, last,
                 finAck, workers, faults, asked>>

AckFinish(l) ==
  /\ spc[l] = "ackFinish" /\ SGoto(l, "reap")
  /\ finAck' = [finAck EXCEPT ![l] = TRUE]
  /\ UNCHANGED <<shared, ret, ack, last, workers, faults, asked>>

\* The worker has exited and main returns, closing its lock if it still has it.
Reap(l) ==
  /\ spc[l] = "reap" /\ wpc[l] = "dead" /\ SGoto(l, "gone")
  /\ supLock' = UnlessHeld(supLock, l)
  /\ UNCHANGED <<updLock, installed, known, pending, rejected, ret, ack, last,
                 finAck, workers, faults, asked>>

----------------------------------------------------------------------------
(* The worker                                                              *)

Exit(l, code) ==
  /\ EndWorker(l, code)
  /\ UNCHANGED <<supLock, installed, known, pending, rejected, supervisors,
                 loaded, gen, synced, posted, claim, envId, fin>>

\* A direct launch has no supervisor and no control directory.
StartDirect(l) ==
  /\ l \in Direct /\ spc[l] = "idle"
  /\ SGoto(l, "direct") /\ WGoto(l, "boot")
  /\ loaded' = [loaded EXCEPT ![l] = installed]
  /\ UNCHANGED <<shared, ret, ack, last, finAck, wrc, gen, synced, posted,
                 claim, envId, fin, faults, asked>>

\* A broken version, or a mixture, fails on its way to the checkpoint.
BootFails(l) ==
  /\ wpc[l] = "boot" /\ loaded[l] \in Broken \cup {Torn}
  /\ Exit(l, 1) /\ UNCHANGED faults

\* _adopt_inherited_lock / _adopt_current_process_lock after a re-execution,
\* acquire_lock otherwise.
BootLock(l) ==
  /\ wpc[l] = "boot" /\ loaded[l] \notin Broken \cup {Torn}
  /\ updLock \in {None, l}
  /\ updLock' = l /\ WGoto(l, "ready")
  /\ UNCHANGED <<supLock, installed, known, pending, rejected, supervisors,
                 wrc, loaded, gen, synced, posted, claim, envId, fin, faults>>

\* Neither adoption worked: the inherited descriptor is closed, and the lock
\* has to be acquired again.
BootLoseLock(l) ==
  /\ wpc[l] = "boot" /\ updLock = l /\ Fault
  /\ updLock' = None
  /\ UNCHANGED <<supLock, installed, known, pending, rejected, supervisors,
                 workers>>

\* The updater lock is held by another worker and stays so: SystemExit(0).
BootConflict(l) ==
  /\ wpc[l] = "boot" /\ updLock \notin {None, l}
  /\ Exit(l, 0) /\ UNCHANGED faults

\* Both checkpoints return at once without a control directory.
SkipCheckpoint(l) ==
  /\ spc[l] = "direct"
  /\ \/ wpc[l] = "ready" /\ WGoto(l, IF synced[l] THEN "done" ELSE "live")
        /\ UNCHANGED updLock
     \/ wpc[l] = "done" /\ WGoto(l, "report")
        /\ updLock' = UnlessHeld(updLock, l)
  /\ UNCHANGED <<supLock, installed, known, pending, rejected, supervisors,
                 wrc, loaded, gen, synced, posted, claim, envId, fin, faults>>

\* _supervisor_health_checkpoint, first half.
PostHealth(l) ==
  /\ spc[l] # "direct" /\ wpc[l] = "ready" /\ posted[l] < MaxHealth
  /\ WGoto(l, "health")
  /\ posted' = [posted EXCEPT ![l] = @ + 1]
  /\ claim' = [claim EXCEPT ![l] = installed]
  /\ UNCHANGED <<shared, supervisors, wrc, loaded, gen, synced, envId, fin,
                 faults>>

\* Mutant: any ack file in the control directory will do.
AckedAny(l) ==
  /\ wpc[l] = "health" /\ ack[l] # 0
  /\ WGoto(l, IF synced[l] THEN "done" ELSE "live")
  /\ envId' = [envId EXCEPT ![l] = posted[l]]
  /\ UNCHANGED <<shared, supervisors, wrc, loaded, gen, synced, posted, claim,
                 fin, faults>>

\* The ack file of this very launch id appeared.
Acked(l) ==
  /\ wpc[l] = "health" /\ ack[l] = posted[l]
  /\ WGoto(l, IF synced[l] THEN "done" ELSE "live")
  /\ envId' = [envId EXCEPT ![l] = posted[l]]
  /\ UNCHANGED <<shared, supervisors, wrc, loaded, gen, synced, posted, claim,
                 fin, faults>>

\* Mutant: only the health checkpoint has a deadline.
TimeoutHealthOnly(l) ==
  /\ wpc[l] = "health"
  /\ EarlyTimeouts \/ ~SupAlive(l)
  /\ Exit(l, 1) /\ UNCHANGED faults

\* 30 s passed without the file the worker waits for; it raises and ends.
Timeout(l) ==
  /\ wpc[l] \in {"health", "finwait"}
  /\ EarlyTimeouts \/ ~SupAlive(l)
  /\ Exit(l, 1) /\ UNCHANGED faults

\* git reset --hard is under way ...
BeginSync(l) ==
  /\ wpc[l] = "live" /\ WGoto(l, "sync")
  /\ installed' = Torn
  /\ UNCHANGED <<supLock, updLock, known, pending, rejected, supervisors, wrc,
                 loaded, gen, synced, posted, claim, envId, fin, faults>>

\* ... and has installed the version of the remote.
EndSync(l) ==
  /\ wpc[l] = "sync" /\ WGoto(l, "synced")
  /\ installed' \in Versions
  /\ UNCHANGED <<supLock, updLock, known, pending, rejected, supervisors, wrc,
                 loaded, gen, synced, posted, claim, envId, fin, faults>>

\* execute_phase failed: the run is halted with whatever is installed.
HaltSync(l) ==
  /\ wpc[l] = "sync" /\ WGoto(l, "done")
  /\ UNCHANGED <<shared, supervisors, wrc, loaded, gen, synced, posted, claim,
                 envId, fin, faults>>

\* Mutant: no limit to the restarts.
ReexecUnlimited(l) ==
  /\ wpc[l] = "synced" /\ installed # loaded[l] /\ installed # rejected
  /\ posted[l] < MaxHealth
  /\ WGoto(l, "boot") /\ loaded' = [loaded EXCEPT ![l] = installed]
  /\ gen' = [gen EXCEPT ![l] = @ + 1] /\ synced' = [synced EXCEPT ![l] = FALSE]
  /\ UNCHANGED <<shared, supervisors, wrc, posted, claim, envId, fin, faults>>

\* _maybe_reexec_after_sync, "restart": exec with the lock descriptor
\* inherited.  A handoff that is lost on the way (unreadable, or older than its
\* TTL) neither counts the restart nor spares the new process its sync.
Reexec(l) ==
  /\ wpc[l] = "synced" /\ installed # loaded[l]
  /\ gen[l] < RestartLimit /\ installed # rejected
  /\ posted[l] < MaxHealth
  /\ WGoto(l, "boot") /\ loaded' = [loaded EXCEPT ![l] = installed]
  /\ \E handoff \in BOOLEAN :
       /\ IF handoff THEN UNCHANGED faults ELSE Fault
       /\ gen' = [gen EXCEPT ![l] = IF handoff THEN @ + 1 ELSE @]
       /\ synced' = [synced EXCEPT ![l] = handoff]
  /\ UNCHANGED <<shared, supervisors, wrc, posted, claim, envId, fin>>

\* "unchanged": the tasks run; "invalid": a candidate over the restart limit,
\* rejected before, or failing validation halts the run.
NoReexec(l) ==
  /\ wpc[l] = "synced" /\ WGoto(l, "done")
  /\ UNCHANGED <<shared, supervisors, wrc, loaded, gen, synced, posted, claim,
                 envId, fin, faults>>

\* _supervisor_finish_checkpoint: it names the launch id of the environment.
PostFinished(l) ==
  /\ spc[l] # "direct" /\ wpc[l] = "done" /\ WGoto(l, "finwait")
  /\ fin' = [fin EXCEPT ![l] = envId[l]]
  /\ UNCHANGED <<shared, supervisors, wrc, loaded, gen, synced, posted, claim,
                 envId, faults>>

\* Mutant: the updater lock is kept until the report window closes.
FinishAckedKeepLock(l) ==
  /\ wpc[l] = "finwait" /\ finAck[l] /\ WGoto(l, "report")
  /\ UNCHANGED <<shared, supervisors, wrc, loaded, gen, synced, posted, claim,
                 envId, fin, faults>>

\* release_lock; the report window stays open.
FinishAcked(l) ==
  /\ wpc[l] = "finwait" /\ finAck[l]
  /\ WGoto(l, "report") /\ updLock' = UnlessHeld(updLock, l)
  /\ UNCHANGED <<supLock, installed, known, pending, rejected, supervisors,
                 wrc, loaded, gen, synced, posted, claim, envId, fin, faults>>

CloseReport(l) ==
  /\ wpc[l] = "report"
  /\ \E code \in {0, 1} : Exit(l, code)
  /\ UNCHANGED faults

----------------------------------------------------------------------------
(* Killed processes                                                        *)

KillWorker(l) == Alive(l) /\ Fault /\ Exit(l, 1)

\* Something else than recover_lock_conflict kills a supervisor.
KillSupervisor(l) ==
  /\ OutsideKills /\ SupAlive(l) /\ Fault
  /\ SGoto(l, Bereft(l)) /\ supLock' = UnlessHeld(supLock, l)
  /\ UNCHANGED <<updLock, installed, known, pending, rejected, ret, ack, last,
                 finAck, workers, asked>>

\* A power loss takes every process; launches not begun come after the boot.
PowerLoss ==
  /\ \E l \in Launch : SupAlive(l) \/ Alive(l)
  /\ Fault
  /\ spc' = [l \in Launch |-> IF spc[l] = "idle" \/ Alone(l) THEN spc[l] ELSE "gone"]
  /\ wpc' = [l \in Launch |-> IF wpc[l] = "none" THEN "none" ELSE "dead"]
  /\ supLock' = None /\ updLock' = None
  /\ owner' = [l \in Launch |-> None] /\ caught' = [l \in Launch |-> FALSE]
  /\ UNCHANGED <<installed, known, pending, rejected, ret, ack, last, finAck,
                 wrc, loaded, gen, synced, posted, claim, envId, fin>>

----------------------------------------------------------------------------
(* recover_lock_conflict on a terminal                                      *)

\* The owner of the lock and its descendants are captured as they are now;
\* then the user is asked.
AskOwner(l) ==
  /\ spc[l] = "idle" /\ supLock # None
  /\ SGoto(l, "ask")
  /\ owner' = [owner EXCEPT ![l] = supLock]
  /\ caught' = [caught EXCEPT ![l] = Alive(supLock)]
  /\ UNCHANGED <<shared, ret, ack, last, finAck, workers, faults>>

Forget(l) ==
  owner' = [owner EXCEPT ![l] = None] /\ caught' = [caught EXCEPT ![l] = FALSE]

\* The user declines, at the first prompt or at the second one, or what was
\* captured does not end in time.
Refuse(l) ==
  /\ spc[l] \in {"ask", "await", "stop"} /\ SGoto(l, "gone") /\ Forget(l)
  /\ UNCHANGED <<shared, ret, ack, last, finAck, workers, faults>>

\* Confirmed, but the owner has let the lock go meanwhile.
OwnerLeft(l) ==
  /\ spc[l] = "ask" /\ supLock # owner[l] /\ SGoto(l, "await")
  /\ UNCHANGED <<shared, ret, ack, last, finAck, workers, asked, faults>>

\* Confirmed: SIGTERM to the captured worker, which may take its time, and its
\* supervisor is left to roll back; or, if no captured worker is alive, to the
\* supervisor, whatever it has spawned since.
StopOwner(l) ==
  /\ spc[l] = "ask" /\ supLock = owner[l] /\ Fault
  /\ IF caught[l] /\ Alive(owner[l])
     THEN /\ EndWorker(owner[l], 1) \/ UNCHANGED <<wpc, wrc, updLock>>
          /\ SGoto(l, "stop") /\ UNCHANGED supLock
     ELSE /\ spc' = [spc EXCEPT ![l] = "stop", ![owner[l]] = Bereft(owner[l])]
          /\ supLock' = None /\ UNCHANGED <<wpc, wrc, updLock>>
  /\ UNCHANGED <<installed, known, pending, rejected, ret, ack, last, finAck,
                 loaded, gen, synced, posted, claim, envId, fin, asked>>

\* Confirmed again after the grace period: SIGKILL to the worker, then, unless
\* it has ended its rollback within 5 s, to the supervisor.
ForceStop(l) ==
  /\ spc[l] = "stop" /\ Fault
  /\ \/ caught[l] /\ Alive(owner[l]) /\ EndWorker(owner[l], 1)
        /\ UNCHANGED <<supLock, spc>>
     \/ /\ ~Alive(owner[l]) /\ SupAlive(owner[l])
        /\ SGoto(owner[l], "gone") /\ supLock' = UnlessHeld(supLock, owner[l])
        /\ UNCHANGED <<wpc, wrc, updLock>>
  /\ UNCHANGED <<installed, known, pending, rejected, ret, ack, last, finAck,
                 loaded, gen, synced, posted, claim, envId, fin, asked>>

\* Mutant: the lock file is replaced, so that it can be locked beside its owner.
TakeOverUnlinked(l) ==
  /\ spc[l] \in {"await", "stop"} /\ Forget(l)
  /\ SGoto(l, "recover") /\ supLock' = l
  /\ UNCHANGED <<updLock, installed, known, pending, rejected, ret, ack, last,
                 finAck, workers, faults>>

\* All that was captured has ended; the lock is tried once more.
TakeOver(l) ==
  /\ spc[l] \in {"await", "stop"} /\ Forget(l)
  /\ ~SupAlive(owner[l]) /\ (caught[l] => ~Alive(owner[l]))
  /\ IF supLock = None THEN SGoto(l, "recover") /\ supLock' = l
                       ELSE SGoto(l, "gone") /\ UNCHANGED supLock
  /\ UNCHANGED <<updLock, installed, known, pending, rejected, ret, ack, last,
                 finAck, workers, faults>>

Supervise(l) ==
  TakeLock(l) \/ DeclineLock(l) \/ Recover(l) \/ CheckScript(l) \/ Spawn(l)
  \/ EndRestore(l) \/ PollHealth(l)
  \/ Publish(l) \/ WriteAck(l) \/ PollFinished(l) \/ PollExit(l) \/ Judge(l)
  \/ Release(l) \/ AckFinish(l) \/ Reap(l)
Work(l) ==
  StartDirect(l) \/ SkipCheckpoint(l) \/ BootFails(l) \/ BootLock(l)
  \/ BootConflict(l) \/ PostHealth(l) \/ Acked(l)
  \/ Timeout(l) \/ BeginSync(l) \/ EndSync(l) \/ HaltSync(l) \/ Reexec(l) \/ NoReexec(l)
  \/ PostFinished(l) \/ FinishAcked(l)
Disturb(l) == BootLoseLock(l) \/ CloseReport(l) \/ KillWorker(l) \/ KillSupervisor(l)
Contend(l) == AskOwner(l) \/ Refuse(l) \/ OwnerLeft(l) \/ StopOwner(l) \/ ForceStop(l)
              \/ TakeOver(l)

Next ==
  \/ PowerLoss
  \/ \E l \in Launch : Supervise(l) \/ Work(l) \/ Disturb(l) \/ Contend(l)

Spec == Init /\ [][Next]_vars

\* Processes run: a supervisor polls every 0.05 s and a worker's own steps end.
FairSpec == Spec /\ \A l \in Launch : WF_vars(Supervise(l)) /\ WF_vars(Work(l))

----------------------------------------------------------------------------
(* Properties                                                              *)

TypeOK ==
  /\ supLock \in Launch \cup {None} /\ updLock \in Launch \cup {None}
  /\ installed \in Bundles /\ known \in Bundles \cup {None}
  /\ pending \in BOOLEAN /\ rejected \in Bundles \cup {None}
  /\ spc \in [Launch -> SupPC]
  /\ ret \in [Launch -> {"script", "launch", "reap", "release", "gone"}]
  /\ wpc \in [Launch -> WorkerPC] /\ wrc \in [Launch -> {0, 1}]
  /\ loaded \in [Launch -> Bundles \cup {None}]
  /\ gen \in [Launch -> 0..RestartLimit] /\ synced \in [Launch -> BOOLEAN]
  /\ claim \in [Launch -> Bundles \cup {None}]
  /\ posted \in [Launch -> 0..MaxHealth] /\ ack \in [Launch -> 0..MaxHealth]
  /\ last \in [Launch -> 0..MaxHealth] /\ envId \in [Launch -> 0..MaxHealth]
  /\ fin \in [Launch -> 0..MaxHealth] /\ finAck \in [Launch -> BOOLEAN]
  /\ owner \in [Launch -> Launch \cup {None}] /\ caught \in [Launch -> BOOLEAN]
  /\ faults \in 0..MaxFaults

\* No worker is without a supervisor, and none ever was.
Supervised == \A l \in Launch : ~Alone(l)

\* Nobody touches the installed files while somebody else does: neither two
\* rollbacks nor two synchronisations ever overlap, and a rollback runs beside
\* a synchronisation only if that worker has no supervisor: it was launched
\* without one, or was orphaned, by a take-over of the lock among others.
OneMutator ==
  \A l, m \in Launch :
    /\ wpc[l] = "sync" /\ spc[m] = "restore" => Alone(l)
    /\ wpc[l] = "sync" /\ wpc[m] = "sync" => l = m
    /\ spc[l] = "restore" /\ spc[m] = "restore" => l = m

\* While a worker that reported its health is free to change files, the
\* generation a rollback would return to is the bundle of its own report, even
\* if it has lost its supervisor and other launches have come and gone; and, if
\* no worker was ever alone, it is the very bundle the worker was started from.
KnownIsRunning ==
  \A l \in Launch :
    spc[l] # "direct" /\ wpc[l] \in {"live", "sync"} =>
      known = claim[l] /\ (Supervised => known = loaded[l])

\* What a rollback returns to was able to start: neither a mixture left by an
\* interrupted synchronisation nor a broken version is ever published.
PublishedStarted == known \notin Broken \cup {Torn}

\* That is so as long as no worker has been alone with the files.
KnownWasHealthy == Supervised => PublishedStarted

\* A supervisor that gives up its lock after its worker was acknowledged
\* leaves the acknowledged bundle installed, or a pending rollback to it; what
\* its worker installed and nobody acknowledged is gone.
LeavesSettled(l) ==
  supLock = l /\ supLock' # l /\ last[l] # 0 /\ faults' = faults /\ Supervised =>
    installed = known \/ pending
ReleaseSettled == [][\A l \in Launch : LeavesSettled(l)]_vars

\* Neither checkpoint makes a worker wait for ever, whatever was killed, and
\* even though 30 s never pass while its supervisor is alive.
HandshakeEnds ==
  \A l \in Launch :
    wpc[l] \in {"health", "finwait"} ~> wpc[l] \notin {"health", "finwait"}

\* Both locks are given back although the report window may stay open for
\* ever (_finish_update_session).
LocksAreReleased ==
  \A l \in Launch : supLock = l \/ updLock = l ~> supLock # l /\ updLock # l
=============================================================================
