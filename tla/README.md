# Formal models of Dusky: the updater and the speech daemons

Dusky is a set of dotfiles for Arch Linux and Hyprland with several hundred
user scripts. Most of them are short and keep no state. The part whose failure
costs the user most is the updater
(`user_scripts/update_dusky/python/`): it overwrites the user's home directory
with `git reset --hard`, replaces its own code while it runs, and promises that
neither loses anything. The parts with the most concurrency are the two speech
daemons (`user_scripts/tts_stt/`): one event loop of tasks that cancel each
other, and one process of threads around a recognizer that is respawned. This
directory holds TLA+ models of all three, the TLC runs that check them and TLAPS
proofs about them. `PROJECT.json` lists the runs, the
source lines of every definition, the hazards and the findings.

    tlc -workers 2 -config KnownGood.cfg MCKnownGood      model-check one run
    tlapm KnownGoodProofs.tla                             check the proofs

## 1. The system

### Inventory

| Part | State it keeps | Operations | What is hard | Here |
| :-- | :-- | :-- | :-- | :-- |
| Known-good store (`update_dusky_supervisor.py`) | bundle directories `known_good`, `known_good.previous`, a snapshot under construction; `rollback_pending.json`, `rejected_candidate.json`, conflicts directory; the installed files | publish, recover, roll back | a power loss between any two renames; I/O errors half way; files edited at the same time | `KnownGood`, `Generation`, `KnownGoodProofs` |
| Supervisor and worker (`main`, `run_once`, `_finish_candidate`; `_supervisor_*_checkpoint`, `acquire_lock`, `_maybe_reexec_after_sync`) | supervisor lock, updater lock, a private control directory with `health.json`, `ack_*`, `finished.json`, `finished_ack_*` | launch, take over a stuck launch, health and finish checkpoints, re-execution of a new version, judgement of a candidate | several launches side by side, killed processes, 30 s time limits, a lock that survives `exec` | `Supervisor`, `SupervisorProofs` |
| Git synchronisation (`GitEngine.execute_phase` and its recovery) | HEAD, index, work tree, `.dusky_sync_transaction.json`, `your_changes_*`, `moved_aside_*` | recover, fetch, collision backup, capture, check, reset, restore, retention cleanup | a crash at any step, users who edit and stage while it runs and between runs, leftovers of old runs | `SyncTxn`, `SyncTxnProofs`, `SyncTxnLossProofs`, `SyncTxnChartProofs` |
| Task pipeline (`execute_pipeline` phase 2, `_execute_task_inner`, `StateStore`, `OnceStore`) | task outcomes, run-once markers, abort flag | run, retry, defer, skip, mark | a crash between effect and record, time limits and retries, termination of the deferral passes | `TaskPipeline`, `TaskPipelineProofs` |
| Updater user interface, settings, manifests, sudo, logs | none that outlives the run | - | - | not modelled: presentation and parsing |
| Kokoro text to speech daemon (`tts_stt/dusky_kokoro/dusky_main.py`) | requests in preparation, job queue, current job with its player and producer, queue of chunks, synthesis process, load and io locks, `reload_pending`, `_prepare_generation` | speak (interrupt or enqueue), stop, unload, reload, shutdown; worker task, job task, producer, idle ticker | cancellation at every await, bounded queues on both sides, clients that wait for a last event, two users of one process | `KokoroDaemon`, `KokoroDaemonProofs` |
| Parakeet speech to text daemon (`tts_stt/dusky_parakeet/`) | generations of the recognizer process, requests in flight, results, discarded ids; a session with its capture state, queue of finals, finalizer, errors, stop and abort events; a chained session | start, toggle, stop, unload; submit, wait, poll, cancel; the session's end, release, self-stop | a recognizer that dies, hangs or is replaced, late answers, deadlines at every wait, threads that outlive what they belong to | `ParakeetDaemon`, `ParakeetDaemonProofs` |
| Installation orchestrator | task states, run-once markers | as the pipeline, with interactive decisions | as the pipeline | not modelled, see the plan |
| Backup manager, theme controller, snapshots, file sharing setup, control center, terminal user interfaces, browser extensions | configuration files, external programs | one-shot scripts | - | not modelled: sequences of external commands without a protocol of their own |

### How the parts interact

A launch is a supervisor process. It takes `supervisor.lock`, finishes what an
earlier launch left (a half swapped store, a pending rollback) and spawns the
worker, `update_dusky.py`. The worker takes the updater lock, writes the digests
of its bundle to `health.json`, and waits for the supervisor to publish that
bundle as known-good and to acknowledge it. Then it synchronises, that is, runs
`execute_phase`; when the synchronisation changed the worker itself it
re-executes and goes through the checkpoint again as the new version. A
candidate that never gets to its checkpoint is rolled back to the known-good
bundle. At the finish checkpoint the supervisor judges what is installed,
releases its lock and lets the worker release its own.

    KnownGood  --refines-->  Generation  <--is the store of--  Supervisor
                                                                  |
                                      runs are sequential under its locks
                                                                  v
                                                    SyncTxn, then TaskPipeline

`Supervisor` treats a synchronisation as an interval in which the installed
files are a mixture; `SyncTxn` is the inside of that interval. `Supervisor`
treats publication and rollback as the atomic operations of `Generation`;
`KnownGood` is their inside, and its refinement is checked and proved.
`TaskPipeline` is the rest of a worker's run, phase 2: its exit code is the
`wrc` by which `Supervisor` tells a run that succeeded.

The speech daemons share nothing with the updater or with each other. Each is a
process behind a control socket: commands come from short-lived clients
(`trigger.sh`, `dusky_trigger.py`), models run in a child process that can be
killed to free the GPU, and a systemd unit starts and stops the daemon.

### What makes each part correct

- Store: whatever was acknowledged to a worker can be restored after a crash
  anywhere; the restorable bundle only moves forward; nobody runs from a half
  restored mixture; a rollback destroys nothing and is finished some day.
- Supervisor: installed files have one writer; what is published has started;
  the checkpoints end and the locks come back; a failed candidate is gone before
  the next launch can begin.
- Synchronisation: the conflict chart of `UPDATE_SYNC_BEHAVIOR.md` holds after a
  crash and resumption as it does without; nothing the user wrote or staged is
  lost; a reset that was cut short is never taken for a finished one.
- Task pipeline: every task has an outcome however the run ends, and the user
  interface, the state database, the run-once markers and the exit code agree on
  it; a task whose condition came true is run; a run-once task is not run again;
  nothing that was started is left running; the run ends.
- Kokoro: every accepted job gets a last event; what was stopped is not heard
  any more; two models are never in memory; no task waits for another that waits
  for it; a reload reaches every later job; the daemon ends when it is told to.
- Parakeet: a slot is never lost; a transcript that claims to be complete is; the
  memory of the GPU is free between the sessions of an on-demand service; a
  session ends though the recognizer hangs.

## 2. The modules

### KnownGood, Generation

A bundle is a function from members (script, profile, settings) to contents. A
directory holds a bundle, does not exist (`NoDir`) or fails verification
(`Damaged`); removing a tree passes through `Damaged`. `pc` is the supervisor's
place, `idx` the member a copying or restoring loop is at, `ret` the caller of
`restore_known_good`. One action is one durable effect, so that `Crash` between
two actions is a power loss at that boundary. `PublishError` and `RestoreError`
are I/O errors at any step, `InterruptRestore` a Ctrl-C, `Edit` any other
process that changes an installed file, the synchronising worker included.
`RacingEdits` says whether it may do so while a rollback runs. Left out: the
staging of copies beside their targets (it changes nothing that is read again),
permissions, and what the files contain beyond their identity.

`Generation` is the promise: one current generation, replaced in one step, never
lost; a rollback to it is pending or not; nobody works while it is pending.
The refinement maps `gen` to `Recoverable`, what the next launch would settle
on.

### Supervisor

Launches, each with a supervisor (`spc`) and a worker (`wpc`), over the two
locks, the installed version and the store. A version either starts or is
`Broken`; a half done synchronisation installs `Torn`. Launch ids are counted
per launch, and the control directory is private to a launch, as in `run_once`.
Members of `Direct` may also be started as `python update_dusky.py`, without
supervisor.

`recover_lock_conflict` is `DeclineLock` without a terminal, and on one a sequence
with an await at each prompt: `AskOwner` remembers the owner of the lock and whether
it has a worker (`owner`, `caught`), since the process tree is captured before the
user is asked; `StopOwner` signals what was captured, that is the worker, or the
supervisor when no captured worker is alive, whatever it has spawned since;
`ForceStop` is the second confirmation, and `TakeOver` tries the lock again once all
that was captured has ended. A worker spawned while the user was asked is so left
without supervisor (`orphaned`), and may synchronise beside the launch that took
over. `OutsideKills` allows something else to kill a supervisor at any moment.
`EarlyTimeouts` lets the 30 s limits pass while the supervisor is alive; the runs do
without, since to everybody else a worker that timed out is one that was killed, and
the theorems hold for both.

### SyncTxn

The state is what survives a power loss. A path has a content written by the
developer or by the user, or `Absent`; a commit is a function from paths to
contents, and the history is linear. `capture[r]` is the `your_changes_*` of run
`r` (work tree, staged contents, old and target commit, STATUS), `aside[r]` its
`moved_aside_*`, and `txn` the journal. One action is one durable effect or one
decision of `execute_phase`; `ResetPath` and `ResetHead` let a crash hit
`git reset --hard` between two files, before or after HEAD moves. After an
exception the handler runs the recovery once more (`failing`), and so does the
model. The user edits and stages files between runs, and with `"edits tracked"`
in `Habits` edits them during runs. `seen` and `mtime` are the signature that the check before the
reset compares.

Simplifications: a path is a file (no directories, symlinks or modes);
diverged and unrelated histories are left out, which go through the same steps
with additional backups; the copies in `manual_merge_*` are left out, since the
capture they are made from is kept as well; the gate on incoming scripts is
left out, which changes no file; failure of the fetch is `Error` before the
first effect.

The history variables `authored`, `staged`, `before`, `calm`, `touched`,
`unrestored` (paths whose restore, or move back, met an I/O error) and `half` record what the properties compare with. No action
reads them.

### TaskPipeline

The user tasks of a profile (`tasks[5:]` in the code, numbered from 1 here).
`queue` is what is left of the current pass over the tasks and `again` what was
deferred in it; `pass = 0` is the first loop and later values are `pass_no`.
`pc` is the await or the synchronous stretch the pipeline is at: `condition`,
`once` and `notifying` before a task starts, `spawn`, `running`, `ended` and
`killing` for one attempt (`ended` is `_shutdown` after the leader has exited),
`decide` and `backoff` between attempts, `marking` between the state record and
the run-once marker. A status change and the record that follows it are one
step: `_store_call` shields and joins the write, so that a cancellation cannot
separate them, and a crash forgets the status anyway. The marker is a step of
its own because a cancellation that arrives at the record's await skips it.
`Quit` sets the abort flag, which the loops look at, and leaves a cancellation
under way, which `Cancelled` delivers at a later await. `LifecycleError`,
`InternalError` and `PipelineError` are the three levels at which the code
catches exceptions. The exit code follows `_outcome_counts` (`CountedFailed`): a
task whose script is missing counts as missing whatever became of it, so that a
lifecycle error of such a task leaves exit code 0. `record` is what the present run wrote; earlier records are
never read. `Histories` gives the profile of each run, so that a task's mode may
change from run to run. A script's effect on the world is `flips`, the facts it
may change, whether it succeeds or fails.

Left out: dry runs, prompts and terminal input, the choice between scripts of
one name, what tty tasks leave running on purpose (the code does not signal it),
the cache of conditions that do not change within a run, changes of the
world by other programs during a run, and a cancellation inside
`create_subprocess_exec` (8531), where asyncio ends the child it has made.

### KokoroDaemon

The unit of atomicity is what an asyncio task does between two awaits at which it
may be suspended. `place` follows a request from its arrival through the thread
that prepares its text to the queue; `fresh` holds the requests whose generation
number is still `_prepare_generation`, so that emptying it is the increment in
`stop_all`. `cur` and `jpc` are `self.current` and the await its task is at:
`created` (no step yet), `load` (`ensure_loaded`), `start` (player), `consume`
(`chunks.get`), `feed` (`player.write`), `join` (`await producer`), `unload`,
`drain` (`player.wait`), and in the `finally` block `reap` (`await producer`)
and `quit` (`player.stop`). `hit` is a `CancelledError` that has been requested
and not delivered, `cancelling` the job's flag that allows `stop_all` one
`cancel()`. `ppc` is the producer's await. A lock is the sequence of the tasks
that asked for it, in asyncio's order. `worker` is `_worker_proc`; a process
that was told to exit is in `exiting` under the name of what waits for it, and
goes to `abandoned` when the task that waits is cancelled. `upc` are the three
callers of `Engine.unload`. A command handler's state is the request or the
unload it waits for. `overtaken`, `struck` and `jcfg` are history.

Left out: pausing (a player that takes no audio for a while, which `feed`
allows), the archive, whose errors do not change the course of a job, status and
log level, and the time between two commands of one connection.
`model_idle_timeout_s` is 0: a job that has nothing left to synthesize unloads the
engine, and the ticker may at any moment. A positive setting takes the former
away and leaves the latter.

### ParakeetDaemon

The unit is a critical section of a thread or one of its blocking calls. A
process has a generation `g`, a socket with requests (`box`) and answers
(`mail`) under way, and a reader thread. `gen` and `held` are `_gen` and whether
`_proc` and `_sock` are set, `inflight`, `results` and `discarded` the three
tables under `_cv`. `spc` is the session's thread: `record`, `drain` (the
sentinel), `join`, `abort` (the last second), `publish`, `release` and `wait`
(`worker.stop`), `reset` (under the daemon's lock). `fpc` is the finalizer:
`get`, `submit`, `wait`, `type`. Deadlines pass at any moment, so that whatever
the proportions of the limits are, the model has the order of events.
`Lose` is an answer that the reader drops without freeing a slot (it carries
descriptors, or is not JSON). `Leave` is the reader's exit from a living process,
after a truncated packet or an exception: its requests fail once, the process has
five seconds to end (`KillLeft`), and a request sent meanwhile has a slot that
nobody frees. `interim` is the request for live text. The unload command and `worker.stop` of
a session are `StopWorker`, the former under the lock. `offered`, `heard` and
`claimed` are history.

Left out: sessions over files, which use the same manager in one thread, the
text itself and its typing, pausing, the indicator process, microphone overflow
(one more source of `errors`), and the limit of 128 on `discarded`, which would
have to be reached by 128 requests that time out at one process.

## 3. The runs

Every run ends within four minutes on two cores. Bounds appear in guards only
and are named (`MaxFaults`, `MaxRuns`, `MaxEdits`, ...).

| Run | Instance | Question and result |
| :-- | :-- | :-- |
| `known_good` | two members, two contents, two faults | Two crashes or errors anywhere: the store keeps every promise and implements `Generation`. Two faults are what it takes to interrupt a recovery from an interruption. |
| `known_good_live` | two members, one content, an irregular object, one fault | A rollback preserves symlinks or directories too, and an interrupted one is finished. |
| `supervisor` | two launches, one of them with a supervisor or without, two good versions and one broken, one restart, two faults or confirmed take-overs, supervisors killed by anything | One writer but for workers without supervisor, what runs is what a rollback returns to, healthy bundles only, settled releases; checkpoints end and locks come back. |
| `supervisor_takeover` | two supervised launches, one good version and one broken, one take-over, nothing else killed | **Violated**: finding 1. |
| `sync` | a repository with or without a commit, two paths, two commits, two runs, two edits, one use of staging, two faults | Everything, on every tree, with an error in a run and another fault in the recovery of its handler, and what they leave to the next run. |
| `sync_editing` | a repository or none, two paths, two runs, two edits, tracked files edited during the run | The check before the reset protects edits, and every run ends. |
| `sync_replay` | the smallest instance that shows it | **Violated**: finding 2. |
| `tasks` | three tasks, one fault; a chain in which each task waits for a later one, and two profiles of run-once tasks over two runs | Outcomes, records, markers and exit code agree, no process or ready task is left, every run ends. |
| `tasks_privileged` | one privileged task with one retry | **Violated**: finding 3. |
| `tasks_strict` | two tasks with `--stop-on-fail`, the first with a condition | **Violated**: finding 4. |
| `kokoro` | two requests in either mode, two segments with room for one chunk, a queue of one, one command | Jobs are answered, stopped ones silent, one process at a time, the consumer is fed, configurations are fresh, the daemon ends. |
| `parakeet` | two sessions over two processes, one slot, two phrases and one, a final queue of one, one fault, every deadline early | No slot is lost but to a reader that left, complete transcripts are complete, the process is released, sessions end. |

Why the bounds are enough. The store treats each member alike, so two members,
one of them optional, show every mixture of restored and not restored; the
profile goes through the very steps of the script. Two launches are what lock, handshake and
take-over relate; a third would wait for either. Two faults stop the owner of a lock
and then kill its worker, its successor or every process. That a third
launch takes the lock between two steps of a take-over is left to the theorems. In `SyncTxn` paths meet only through the
journal and through the status of their common capture, so two are enough for
"one is restored, the other is not"; two contents on each side distinguish
"unchanged", "changed by one" and "changed by both"; all trees over them are
initial states. The symmetry sets permute values that the modules compare for
equality only. They are not used with liveness properties.

Two requests show a job that is replaced, one that waits behind another, one
that overtakes another in the thread, and a full queue; two segments, that the
producer is ahead of the player, blocked by it, or ended before it. One command
beside a shutdown, a dying process and the ticker gives every pair of
interventions. In `ParakeetDaemon` a second process is what a late answer or a
late reader can confuse with the first, and a second session what the first one
can leave something to; one slot is the contended case, in which a final waits
behind an interim it has superseded, and the theorems hold for every limit; the fault is on top of the deadlines, which are not
counted. The final queue of one holds a phrase or the sentinel, so that both
fail to find room.

Deadlock is checked in the runs of `KnownGood`, `KokoroDaemon` and
`ParakeetDaemon`, where only a daemon that is closed or stopped may rest
(`Rest`). Elsewhere it is off because the systems do stop: when all launches or
runs are over.

### Assumptions of the passing runs

- `RacingEdits = FALSE`: nobody writes an installed file in the instant in which
  a rollback replaces it. With `TRUE` TLC finds `DisplacedIsPreserved` violated:
  `restore_known_good` looks at the object and replaces it two calls later.
- `supervisor` assumes neither that all launches are supervised nor that
  supervisors outlive their workers. What does not hold without it the properties
  except themselves, and say when: `OneMutator` lets a rollback run beside a
  synchronisation whose worker is `Alone` (a worker takes the updater lock only, a
  supervisor restores under its launch lock only); `KnownWasHealthy`,
  `ReleaseSettled` and half of `KnownIsRunning` hold until a worker is alone. That
  it comes to this with supervised launches alone is finding 1.
- `Habits = {}` or `{"edits tracked"}`. While recovery data is unresolved, which
  every launch reports, the user leaves the files alone (`"inattentive"` is what
  `sync_replay` allows). The other members weaken guarantees that the code does
  not give, and each has a counterexample with one path, two
  commits, two runs, an edit and a fault, or little more:
  - `"edits tracked"` with a fault, three runs and three edits violates
    `NothingLost`: a run that fails after its capture and before the journal
    names it leaves the capture `pending`, and a later run at the same target
    restores it over newer content (lines 5933 and 6132 of `update_dusky.py`);
  - `"inattentive"` violates `ConflictChart` too: the status of a
    `moved_aside_*` backup is not resolved by a successful run, so that after
    the new file was deleted the next launch moves the old one back (5908);
  - `"creates"` violates `NothingLost`: the check before the reset compares
    tracked paths only (6999), and a file created at an incoming path after the
    collision scan is overwritten;
  - `"recreates"` violates `ConflictChart`: a file written anew over its staged
    deletion is unknown to the index, so the reset leaves it in place when the
    developer deletes the path (6243);
  - `"stages unborn"` with `Starts = {Unborn}` violates `NothingLost`: the first
    reset removes a staged local file that the target lacks, and only incoming
    paths were moved aside (6712).
- Retention cleanup runs before recovery and does not look at the journal
  (line 3380). After a run that was interrupted behind its restore, it can remove
  the capture the journal names, and the next launch is blocked; no property
  says otherwise, since nothing is lost.
- `TaskPipeline`: scripts do not change between the resolution, which takes the
  checksum for the marker, and their execution; with such an edit a marker would
  name a content that did not run. `StartsAreAllowed` excepts a task that failed by
  an exception outside its execution, after which the run goes on (finding 4), and
  `SuccessIsComplete` a failed task whose script is missing, which exit code 0 does
  not exclude. `MarkersAreExact` does not owe a marker to a task that exited 0
  and lost it to a quit, a crash or a failed write: it runs again.
- Between the last check and git's own write no code could protect a file, and
  no run allows edits there.
- `sync` does not start without a repository, and `sync_editing`, which does, has
  no faults: with `Starts = {NoRepo}`, one path, one commit, two runs and one
  fault TLC finds `UntouchedIsInstalled` violated. A launch that is interrupted
  after the clone and before the checkout leaves HEAD at the target, and the next
  one finds `local_head == remote_head` (line 6732) and reports an up to date
  repository with no file installed, although the comment at 6597 says that
  recovery is resolved first "including interrupted clone/unborn branches".
- `KokoroDaemon`: two statements stronger than the code stand beside its
  properties, and TLC refutes both on the instance of the run.
  `EveryJobIsAnswered`: a stop between `create_task` and the first step of the
  job task, or a cancellation in `player.stop`, ends it without a last event, and
  a client with `--wait` waits until the daemon closes its connection.
  `EndReported` excepts these jobs (`struck`). `ReplacementWaits`: a stop while a
  load waits for `gather(*self._reaping)` cancels the tasks that reap, so that
  the next load starts a process beside one that is still exiting, where
  `AUDIT.md:52` says "A replacement worker waits for interrupted workers to
  finish exiting." `OneWorker` excepts processes whose waiter was cancelled.
- Two outcomes that no property excludes: a job that starts while the unload
  command waits for the locks loses the engine between two segments and ends with
  "synthesis worker is not running"; and an interrupting request that arrived
  first but was prepared last is refused as superseded while an older one is
  spoken, since generations order the ends of preparation, not the arrivals.
- `ParakeetDaemon`: `AbortJoined` takes the second after the abort to be enough
  for a finalizer that waits or polls every 0.2 s, so that only typing outlives
  it. `SelfStopSparesSessions`, next to the properties, is what
  `_maybe_self_stop` says of itself ("aborted if new work arrives"); TLC refutes
  it with two sessions, since the state is looked at under the lock and the
  service stopped later (lines 1273 and 1280).
- `SlotsAreFreed` excepts a request that a living process was sent after its reader
  had given it up. `SlotsComeBack`, next to the properties, does not, and TLC refutes
  it: a packet that is too long, or an exception, ends the reader, which fails the
  requests of its generation once and keeps the handles while it waits for the exit
  (lines 392 to 404 of `dusky_main.py`); a request that is submitted meanwhile keeps
  its slot after the process is gone, since no other call frees the slots of that
  generation. The comment at 328 says of the failure of the requests that it frees the
  slot, since "without this two worker crashes pin len(_inflight) == limit forever".
- Also outside the properties of `ParakeetDaemon`: an interim request that was
  pending when the microphone was lost is neither collected nor cancelled, and
  its answer stays in `_results`; and `submit` of an interim is not guarded
  against `OSError` (line 914), so that a recognizer that just exited ends the
  capture. The transcript is partial in both cases, as `CompleteIsComplete` asks.

### Fairness

`known_good_live` assumes that the user launches the updater again and that a
launched supervisor keeps running: weak fairness of recovery, publication and
restoring, none of the worker, of faults or of edits. `supervisor` assumes for its liveness properties
weak fairness of each supervisor, which polls every 0.05 s, and of each
worker's own steps, whose waits have deadlines; time limits and kills are not
fair, except that a worker does time out once its supervisor is gone. Closing
the report window is not fair: it may stay open for ever, and neither is the user
who is asked about a take-over. `sync_editing` assumes
that a run that was launched goes on, and nothing of launches or of the user.
`tasks` assumes weak fairness of the pipeline's own steps, one coroutine on an
event loop, and of its time limits; children are never assumed to end, nor a quit
to be delivered.

`kokoro` assumes weak fairness of cancellations under way, of the clean-up of a
job and its producer, of the unloading tasks and of the shutdown with its 5 s
limit, and that a process that was told to exit does (it is killed after two
seconds). The synthesis process need not answer and the player need not take
audio. `parakeet` assumes it of the session's thread, whose reads of the
microphone return and whose deadlines pass, of a finalizer after the abort, and
of the exit of a process that was told to; neither recognition nor the finalizer
before the abort need go on.

### Findings

Each is the counterexample of one run; `PROJECT.json` quotes the lines.

1. A confirmed take-over signals the supervisor alone when its worker was spawned
   while the user was asked. The worker goes on without it; files it is installing,
   a mixture or a version that cannot start, are published through the next launch,
   since its health report reads digests from disk, though no process has run them.
   Launches without a supervisor lead to the same.
2. After one conflict the capture stays `pending-restore`, and the next launch
   restores all of it again over edits made since.
3. A privileged task that times out survives, since signals to root's processes
   are refused and `_pg_alive` takes the refusal for absence: its retry, the
   next task or the next run start beside it unless it ends with its terminal.
4. With `--stop-on-fail` a task that fails by an exception outside its execution, such
   as a condition that cannot be evaluated, does not stop the run, where
   `readme_updater.md` says that the first failure does.

## 4. Proofs

`KnownGoodProofs` proves, for all members, contents, irregular objects and any
number of faults, from the named assumptions of `KnownGood` (members are
distinct from markers, the script is not optional, ...):

| Theorem | States |
| :-- | :-- |
| `TypeCorrect` | `[]TypeOK` |
| `GenerationNeverLost` | `[]GenerationSurvives` |
| `JournalServiceable` | `[]JournalIsServiceable`, the second part of the next |
| `NeverRunsHalfRestored` | `[]RollbackIsResumable` |
| `Advances` | `GenerationOnlyAdvances` |
| `NothingDestroyed` | `DisplacedIsPreserved`, if `RacingEdits = FALSE` |
| `Implements` | `ImplementsGeneration`: the store refines `Generation` |

None of the properties is inductive. `GenerationSurvives` needs to know that
`previous` is removed only while `known` is valid, which depends on where the
process is: `Settled` says that a launch past recovery has nothing better in
`previous` than in `known`, and `PublishingInv` follows the two directories
through the five steps of a publication. `JournalInv` ties the journal to the
place of the process, which gives `RollbackIsResumable`. `IInv` is the
conjunction; `InitInv`, one lemma for each group of actions and `NextInv` show
that it is inductive. The action properties and the refinement follow from one
lemma each about a step taken from an `IInv` state: `GenerationStep` (when
`Recoverable` changes), `TargetClearedStep` (what `rPut` may overwrite) and
`RefinementStep` (a step is one of `Generation` or stutters).

`ParakeetDaemonProofs`, for every number of ids, slots, processes, sessions,
phrases and faults and every size of the final queue (`SizeAssumption`,
`NoneAssumption`):

| Theorem | States |
| :-- | :-- |
| `TypeCorrect` | `[]TypeOK`, which includes the limit on slots |
| `SlotsFreed` | `[]SlotsAreFreed` |
| `CompleteTruly` | `[]CompleteIsComplete` |
| `ReleasedBetween` | `[]ReleasedWhenIdle` |

`ProcInv` says that only the present process can be alive, with its handles and
its reader, and that later generations are blank; `SlotInv` that a request in a
slot is unanswered and its reader reads, or has left its process. `SessionInv` places the finalizer: it
ends at the sentinel, which is the last item of its queue, or after the abort,
and before the transcript is published. `PhraseInv` accounts for every phrase
that was spoken to its end: transcribed, in the finalizer's hands, in its queue,
or the session has recorded an error. With `ReleaseInv` the conjunction is
inductive. `ProcessEffect` sorts the steps by what they do to the process and
the slots, so that the invariants about those need four cases and not thirty.

`SupervisorProofs`, for every number of launches, versions, restarts and faults, with
direct launches, with any time limits, and with supervisors killed by anything
(`LaunchAssumption`, `VersionAssumption`, `BoundAssumption`):

| Theorem | States |
| :-- | :-- |
| `TypeCorrect` | `[]TypeOK` |
| `OneWriter` | `[]OneMutator` |
| `RunsWhatIsKnown` | `[]KnownIsRunning` |
| `OnlyStarted` | `[]KnownWasHealthy` |
| `LeftSettled` | `ReleaseSettled` |

None has a hypothesis. The inductive invariant has two layers. What holds of every
launch (`LaunchInv`): `LockInv` says at which places a supervisor has its lock and
where its worker can be meanwhile, which is under its supervisor or alone;
`ReportInv` that only a worker at its health checkpoint has an unanswered report;
`TrustInv` that the generation a rollback returns to is the one an acknowledged
worker reported, which survives the supervisor, since any other launch needs
the updater lock to report. What holds until a worker is alone (`SupervisedInv`):
`VersionInv` follows one version through the handshake (what a worker was started
from, what it reported, what is installed, what was published), and `SettledInv` is
what a supervisor leaves when it gives its lock up. A worker that is alone stays so
(`AloneStays`), so that a step need not establish the second layer again.

`TaskPipelineProofs`, for every number of tasks, every history of profiles, and
any number of passes, retries and faults:

| Theorem | States |
| :-- | :-- |
| `TypeCorrect` | `[]TypeOK` |
| `TrueReport` | `[]ReportIsTrue` |
| `NoneMissed` | `[]NoMissedTask` |
| `ExactMarkers` | `[]MarkersAreExact` |
| `AllowedStarts` | `StartsAreAllowed` |
| `GroupEnds` | `[]GroupIsGone`, if `Unprivileged` |

`SettledInv` says that nobody is forgotten: a task without an outcome is in the
queue, was deferred, or is at hand; with the state record (`RecordInv`) and the
exit code (`ExitInv`) it gives `ReportIsTrue`. `DeferredInv` says that as long as
no task of the pass has run, the facts are those by which tasks were deferred, so
that the end of such a pass may give them up. `OwedInv` follows the marker from
exit 0 over the record to its write, and needs to know that exit code 0 belongs
to the present attempt (`CodeInv`, `DoneInv`). `UnmarkedInv` carries the look at a
marker to the last attempt. `Unprivileged` says that no task of any profile is a
root one; finding 3 is what happens otherwise. The lemmas about sequences at the
beginning say how a queue's elements change with `Head`, `Tail`, `Append` and
`\o`.

`SyncTxnProofs`, for any paths and contents, every history of commits and any
number of runs, edits and faults (`ValuesAssumption`, `BoundsAssumption`):

| Theorem | States |
| :-- | :-- |
| `TypeCorrect` | `[]TypeOK` |
| `HalfResetBlocked` | `[]HalfResetIsBlocked` |
| `BlockedFrozen` | `BlockedIsFrozen` |
| `UntouchedInstalled` | `UntouchedIsInstalled`, if `NoRepo \notin Starts` |
| `NothingIsLost` (`SyncTxnLossProofs`) | `[]NothingLost`, if `Habits = {}` |
| `ChartHolds` (`SyncTxnChartProofs`) | `ConflictChart`, if `Habits = {}` and `NoRepo \notin Starts` |

`TxnInv` ties the journal to the place of the run (`PcInv`), to HEAD (`HeadInv`)
and to the history variable of a half done reset (`HalfInv`). `UntouchedInv` says
that a path the user never changed is in no backup and in no loop but the reset's,
and is what HEAD has outside a reset. It fails where there is no repository to
begin with, as told under the assumptions of the runs.

`NothingIsLost` takes the most. Without one of the habits listed above the user
still edits and stages at will between runs, but for files about which recovery
data is unresolved; runs end anywhere, and their leftovers meet in later runs.
`LossInv` says what each backup agrees with:

- `FreshInv`: the backups of a run start empty, and a completed capture has no
  staged blob, so that the retention cleanup takes none away.
- `OrderInv`: HEAD only advances, and no capture has a later target than the
  transaction. Histories are linear in the model.
- `UnbornInv`: before the first checkout nothing is captured and the index is
  empty.
- `AsideInv`: after the collision scan nothing is in the way of the target, and
  what was moved aside neither HEAD nor the index knew.
- `CopyInv`, `LocalInv`: before the reset the capture the journal names has every
  change; this is where the check of the signature is used.
- `ResetInv`: what the reset has not come to is captured, or the reset spares it.
- `UnreachedInv`, `ReachedInv`, `AgreeInv`: what leftovers of earlier runs that
  recovery may restore say of the files. A capture whose target HEAD has not
  reached has the files as they are; of one whose target HEAD is, a path is the
  developer's or as captured; two of one target agree.
- `RestoreInv`: while a restore reports nothing as left, every file handled is
  back, so that a capture that is marked completed is not needed any more.
- `KeptInv`, `StagedInv`: the property itself, with backups that retention spares.

`ChartHolds` is about what happens to the files instead of what is kept of them.
Its invariant `ChartInv` adds to `LossInv` and `UntouchedInv` a comparison with
`before`, the files as they were when the sync was prepared, which holds at each
place of a run and across crashes:

- `PlaceInv`: HEAD is the old commit until the reset is applied and then the target.
- `AwayInv`: only files in the way of added ones are moved aside, so that nothing
  is put back once the target is there.
- `GoneInv`: a file whose deletion is staged is not there, so that the reset
  cannot spare a path the developer deleted.
- `BeforeInv`: where the developer changed nothing the files are as before until
  the reset comes to them, and what it is to overwrite is in the capture.
- `AppliedInv`: after the reset each path is as the chart says (`Ruled`) or still
  due to the restore (`Due`); once the restore has reported success, or has
  passed the path, it is `Ruled`.
- `LeftInv`: a capture of an earlier run whose target is HEAD finds its files in
  place, or will once what is aside is put back, so that restoring it again
  changes nothing.
- `CalmInv`: a launch that finds nothing unfinished has changed nothing by the
  time it compares HEAD with its target.

The proof needs both hypotheses; the counterexamples for the habits are above.
With `Starts = {NoRepo}`, one path, two commits, two runs and one fault TLC finds
`ConflictChart` violated in the way told of `UntouchedIsInstalled`: after a launch
that was interrupted between clone and checkout, the next one takes the cloned
commit for installed, the index knows none of its files, and the reset leaves in
place a file that the developer deletes.

The proof attempt corrected the property `NothingLost`. `StagedIsKept` once counted everything
the user staged; with two uses of staging it is false for a deletion that HEAD has
already, where the index is reset and nothing need be captured. `staged` now
forgets what HEAD has the same, and TLC and the proof agree on it. In the proof
`Quiet` names what most steps leave alone, so that each part of the invariant
treats them together, and one effect lemma for each action on a backup says what
it changes.

`KokoroDaemonProofs`, for every number of requests, segments and commands and
both queue lengths:

| Theorem | States |
| :-- | :-- |
| `EveryEndIsReported` | `[]EndReported` |
| `ConsumerFed` | `[]ConsumerIsFed` |
| `SilentAfterStop` | `StoppedIsSilent` |
| `TypeCorrect` | `[]TypeOK` |
| `OneProcess` | `[]OneWorker` |
| `FreshEngine` | `[]FreshConfig` |

`EndInv` adds to `EndReported` that a task which is done was answered or struck.
`StopInv` says where the requests that a stop has found can still be: not in the
thread with the present generation, not in the queue, and in a job's body only
with a cancellation under way. `FeedInv` says that the end mark is the last chunk
once the producer has ended. `JobInv` has the types they need, and that the job's
own unload is under way only while its task waits for it. `StepKinds` is the
lemma that sorts the steps.

The last three rest on a second invariant, `EngineInv`. `LockInv` says of each lock
that its queue has every task that asked for it exactly once (`Lines`), that an
unload past the first lock is at its head and one past the second at the head of
both, and that `lstep` belongs to a loader at the head. From it follows that
nobody who unloads and waits for an exit has a loader beside it, which with
`ExitInv` (who waits for a process that was told to exit) is `OneWorker` at the
step that starts a process. `ConfigInv` compares the configuration of a process with
the present one, with `pending` and with the job's. `PlaceInv` says which places
of the job, its producer and the unloads go together. A queue changes in three
ways, and `Joins`, `Passes` and `Leaves` say what each does to it; `Leaves` is about
`RemoveFirst`, with which a cancelled task takes its future out of the lock's queue.
Earlier the model filtered the queue with `SelectSeq`, a recursive definition about which
the provers know nothing; since a task is in a queue at most once, the two agree,
and removing one future is what `asyncio.Lock.acquire` does.

Every safety invariant and action property of the passing runs is proved, under the
hypotheses the tables name. Only model-checked: every liveness property (`RunEnds`
and the others under fairness), which the provers do not reach. The findings are
counterexamples and have nothing to prove.

## 5. Plan

1. `KnownGood` with `Generation`: done, proved.
2. `Supervisor`: modelled, checked and, but for liveness, proved.
3. `SyncTxn`: modelled, checked and all safety properties proved. To state: an
   abstract specification, a synchronisation that happens in one step or not at
   all, and the refinement up to blocked transactions.
4. `TaskPipeline`: modelled, checked and, but for liveness, proved. To model:
   scripts edited during a run.
5. `KokoroDaemon`: modelled, checked and, but for liveness, proved.
6. `ParakeetDaemon`: modelled, checked and, but for liveness, proved. To model:
   sessions over files beside the manager.
7. The orchestrator's differences from 4: interactive decisions, and state that
   survives the run. Its sequencing is the pipeline's.

What stays out: user interfaces, parsing and one-shot scripts, for the reasons in
the inventory. They keep no state of their own across steps, so that a model
would restate one command after the other.
