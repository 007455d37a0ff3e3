---------------------------- MODULE KokoroDaemon ----------------------------
(***************************************************************************)
(* The Kokoro text to speech daemon (tts_stt/dusky_kokoro/dusky_main.py):   *)
(* one event loop that runs client handlers, a worker task with one job     *)
(* task at a time, that job's producer, an idle ticker, and a synthesis     *)
(* process they share under two locks.                                      *)
(*                                                                         *)
(* An action is what one task does between two awaits that may suspend it.  *)
(* A lock is the sequence of the tasks that asked for it: the head holds    *)
(* it, and asyncio hands it on in that order.  A cancellation (`hit') is    *)
(* delivered at the next step of the job task.  A request stands for its    *)
(* client; requests are numbered in the order in which they arrive, and     *)
(* every client waits for the end (--wait).                                 *)
(*                                                                         *)
(* Abstracted: the texts, time (a limit may pass at any moment), pausing    *)
(* (the player is slow), the archive, whose errors do not change the course *)
(* of a job, and status replies.  model_idle_timeout_s is 0, so that a job  *)
(* unloads the engine when it has nothing left to synthesize.               *)
(***************************************************************************)
EXTENDS Naturals, Sequences, SequencesExt

CONSTANTS
  N,            \* speak requests
  Segments,     \* segments of a text
  MaxQueue,     \* daemon.max_queue
  Prefetch,     \* playback.prefetch_segments
  MaxControls,  \* bound on stop, unload and reload commands
  None

Request == 1 .. N
Mode == {"interrupt", "enqueue"}
Unloader == {"job", "control", "ticker"}

ASSUME SizeAssumption ==
  /\ N \in Nat /\ Segments \in Nat \ {0} /\ MaxQueue \in Nat \ {0}
  /\ Prefetch \in Nat \ {0} /\ MaxControls \in Nat
ASSUME NoneAssumption == None \notin Request

VARIABLES
  place,       \* of a request: "new", its mode while it is prepared, its answer
  fresh,       \* requests in preparation with the present _prepare_generation
  queue,       \* the accepted jobs that wait
  event,       \* the last event sent for a job
  cur, jpc,    \* the current job, and the await its task is at
  cancelling, hit, outcome,
  ppc, left,   \* its producer, and the segments it still has to make
  chunks,      \* from the producer to the player
  worker, wcfg,  \* the synthesis process, and the configuration it was given
  exiting,     \* what waits for an old process: "reaped" _reaping, "unloading"
               \* who unloads; "abandoned" nobody
  loadQ, ioQ,  \* _load_lock and _io_lock
  lstep,       \* where the holder of the load lock is in ensure_loaded
  pending,     \* reload_pending
  upc, ujob,   \* who unloads the engine, and the job the command waits for
  cfg, controls, phase, played,
  overtaken,   \* history: what the last stop found in the daemon
  struck,      \* history: jobs hit before their first step or while cleaning up
  jcfg         \* history: the configuration when the current job began

requests == <<place, fresh, overtaken>>
jobState == <<cancelling, hit, outcome, played, struck>>
current == <<cur, jcfg>>
producer == <<ppc, left, chunks>>
process == <<worker, wcfg, exiting>>
locks == <<loadQ, ioQ, lstep>>
clerk == <<upc, ujob>>
setting == <<cfg, controls, phase>>
vars == <<requests, queue, event, current, jpc, jobState, producer, process,
          locks, pending, clerk, setting>>

Queued == {queue[i] : i \in 1 .. Len(queue)}
Preparing(r) == place[r] \in Mode
Running == cur # None /\ jpc # "done"
Producing == ppc \in {"next", "load", "wait", "read", "put", "close", "fail"}
Left(r) == place[r] = "accepted" /\ r # cur /\ r \notin Queued
Holds(q, u) == q # <<>> /\ Head(q) = u

TypeOK ==
  /\ place \in [Request -> {"new", "rejected", "accepted"} \cup Mode]
  /\ fresh \subseteq Request /\ overtaken \subseteq Request /\ struck \subseteq Request
  /\ queue \in Seq(Request) /\ Len(queue) <= MaxQueue
  /\ event \in [Request -> {"none", "finished", "cancelled", "error"}]
  /\ cur \in Request \cup {None}
  /\ jpc \in {"none", "created", "load", "start", "consume", "feed", "join", "unload",
              "drain", "reap", "quit", "done"}
  /\ cancelling \in BOOLEAN /\ hit \in BOOLEAN /\ played \in BOOLEAN
  /\ outcome \in {"finished", "cancelled", "error"}
  /\ ppc \in {"none", "next", "load", "wait", "read", "put", "close", "fail", "done", "failed"}
  /\ left \in 0 .. Segments /\ chunks \in Seq({"pcm", "end"}) /\ Len(chunks) <= Prefetch
  /\ worker \in {"none", "starting", "ready", "dead"}
  /\ exiting \subseteq {"reaped", "unloading", "abandoned"}
  /\ loadQ \in Seq(Unloader \cup {"producer"}) /\ ioQ \in Seq(Unloader \cup {"producer"})
  /\ lstep \in {"none", "retire", "spawn", "boot", "abort"}
  /\ upc \in [Unloader -> {"idle", "gather", "load", "io", "retire"}]
  /\ ujob \in Request \cup {None} /\ pending \in BOOLEAN
  /\ cfg \in Nat /\ wcfg \in Nat /\ jcfg \in Nat /\ controls \in 0 .. MaxControls
  /\ phase \in {"serving", "closing", "draining", "expired", "unloading", "closed"}

Init ==
  /\ place = [r \in Request |-> "new"] /\ fresh = {} /\ overtaken = {} /\ struck = {}
  /\ queue = <<>> /\ event = [r \in Request |-> "none"]
  /\ cur = None /\ jpc = "none" /\ cancelling = FALSE /\ hit = FALSE
  /\ outcome = "error" /\ played = FALSE /\ ppc = "none" /\ left = 0 /\ chunks = <<>>
  /\ worker = "none" /\ exiting = {} /\ loadQ = <<>> /\ ioQ = <<>> /\ lstep = "none"
  /\ upc = [u \in Unloader |-> "idle"] /\ ujob = None /\ pending = FALSE
  /\ cfg = 0 /\ wcfg = 0 /\ jcfg = 0 /\ controls = 0 /\ phase = "serving"

-----------------------------------------------------------------------------
(* Stopping.                                                                *)

\* Engine.interrupt: the process is handed to a task that reaps it.
Interrupt ==
  IF worker \in {"starting", "ready"}
  THEN worker' = "none" /\ exiting' = exiting \cup {"reaped"}
  ELSE UNCHANGED <<worker, exiting>>

\* Mutant: jobs are dropped without their last event.
ClearQuietly == queue' = <<>> /\ UNCHANGED event

\* _clear_queue: every job that waits gets its last event.
ClearQueue ==
  /\ queue' = <<>>
  /\ event' = [r \in Request |-> IF r \in Queued THEN "cancelled" ELSE event[r]]

\* The cancellation of the current job in stop_all, once for each job.
CancelJob ==
  IF Running /\ ~cancelling
  THEN cancelling' = TRUE /\ hit' = TRUE /\ Interrupt
  ELSE UNCHANGED <<cancelling, hit, worker, exiting>>

\* stop_all but for the queue, on behalf of the requests in `by'.
StopAll(by) ==
  /\ fresh' = {}
  /\ overtaken' = overtaken \cup {r \in Request \ by : place[r] # "new"}
  /\ CancelJob
  /\ UNCHANGED <<outcome, played, struck, wcfg>>

-----------------------------------------------------------------------------
(* Speak requests.                                                          *)

\* _cmd_speak up to the thread that prepares the text.
Arrive(r, m) ==
  /\ phase = "serving" /\ place[r] = "new"
  /\ r > 1 => place[r - 1] # "new"
  /\ IF m = "enqueue" /\ Len(queue) >= MaxQueue
     THEN place' = [place EXCEPT ![r] = "rejected"] /\ UNCHANGED fresh
     ELSE place' = [place EXCEPT ![r] = m] /\ fresh' = fresh \cup {r}
  /\ UNCHANGED <<overtaken, queue, event, current, jpc, jobState, producer, process,
                 locks, pending, clerk, setting>>

\* Superseded during preparation, nothing readable, or a duplicate.
Refuse(r) ==
  /\ phase \in {"serving", "closing"} /\ Preparing(r)
  /\ place' = [place EXCEPT ![r] = "rejected"] /\ fresh' = fresh \ {r}
  /\ UNCHANGED <<overtaken, queue, event, current, jpc, jobState, producer, process,
                 locks, pending, clerk, setting>>

\* Mutant: the generation is not compared after the thread.
AcceptStale(r) ==
  /\ phase \in {"serving", "closing"} /\ Preparing(r)
  /\ \/ /\ place[r] = "interrupt" /\ StopAll({r})
        /\ event' = [q \in Request |-> IF q \in Queued THEN "cancelled" ELSE event[q]]
        /\ queue' = <<r>> /\ place' = [place EXCEPT ![r] = "accepted"]
     \/ /\ place[r] = "enqueue" /\ fresh' = fresh \ {r}
        /\ IF Len(queue) < MaxQueue
           THEN queue' = Append(queue, r) /\ place' = [place EXCEPT ![r] = "accepted"]
           ELSE UNCHANGED queue /\ place' = [place EXCEPT ![r] = "rejected"]
        /\ UNCHANGED <<overtaken, event, jobState, process>>
  /\ UNCHANGED <<current, jpc, producer, locks, pending, clerk, setting>>

\* Mutant: the queue is looked at before the thread only.
AcceptUnbounded(r) ==
  /\ phase \in {"serving", "closing"} /\ Preparing(r) /\ r \in fresh
  /\ place' = [place EXCEPT ![r] = "accepted"]
  /\ \/ /\ place[r] = "interrupt" /\ StopAll({r}) /\ queue' = <<r>>
        /\ event' = [q \in Request |-> IF q \in Queued THEN "cancelled" ELSE event[q]]
     \/ /\ place[r] = "enqueue" /\ fresh' = fresh \ {r} /\ queue' = Append(queue, r)
        /\ UNCHANGED <<overtaken, event, jobState, process>>
  /\ UNCHANGED <<current, jpc, producer, locks, pending, clerk, setting>>

\* _cmd_speak after the thread: an interrupt stops everything and is next, an
\* enqueued request finds the queue full or joins it.
Accept(r) ==
  /\ phase \in {"serving", "closing"} /\ Preparing(r) /\ r \in fresh
  /\ \/ /\ place[r] = "interrupt" /\ StopAll({r})
        /\ event' = [q \in Request |-> IF q \in Queued THEN "cancelled" ELSE event[q]]
        /\ queue' = <<r>> /\ place' = [place EXCEPT ![r] = "accepted"]
     \/ /\ place[r] = "enqueue" /\ fresh' = fresh \ {r}
        /\ IF Len(queue) < MaxQueue
           THEN queue' = Append(queue, r) /\ place' = [place EXCEPT ![r] = "accepted"]
           ELSE UNCHANGED queue /\ place' = [place EXCEPT ![r] = "rejected"]
        /\ UNCHANGED <<overtaken, event, jobState, process>>
  /\ UNCHANGED <<current, jpc, producer, locks, pending, clerk, setting>>

-----------------------------------------------------------------------------
(* The engine: ensure_loaded for the job or its producer.                   *)

\* u has the engine it asked for, or it has not.
Loaded(u) ==
  /\ loadQ' = Tail(loadQ) /\ lstep' = "none"
  /\ IF u = "job"
     THEN jpc' = "start" /\ UNCHANGED <<ppc, ioQ>>
     ELSE ppc' = "wait" /\ ioQ' = Append(ioQ, u) /\ UNCHANGED jpc
  /\ UNCHANGED event

LoadFailed(u) ==
  /\ loadQ' = Tail(loadQ) /\ lstep' = "none"
  /\ IF u = "job"
     THEN jpc' = "done" /\ event' = [event EXCEPT ![cur] = "error"] /\ UNCHANGED ppc
     ELSE ppc' = "fail" /\ UNCHANGED <<jpc, event>>
  /\ UNCHANGED ioQ

\* u holds the load lock inside ensure_loaded and may take a step.
Loading(u) ==
  /\ Holds(loadQ, u)
  /\ \/ u = "job" /\ jpc = "load" /\ ~hit
     \/ u = "producer" /\ ppc = "load" /\ jpc # "reap"

Stay == UNCHANGED <<jpc, event, ppc, loadQ, ioQ>>
EngineUnchanged ==
  UNCHANGED <<requests, queue, current, jobState, left, chunks, clerk, setting>>

\* Mutant: a new process starts while interrupted ones still exit.
SpawnAtOnce(u) ==
  /\ Loading(u) /\ lstep = "spawn"
  /\ \/ worker' = "starting" /\ wcfg' = cfg /\ lstep' = "boot" /\ Stay
     \/ LoadFailed(u) /\ UNCHANGED <<worker, wcfg>>
  /\ EngineUnchanged /\ UNCHANGED <<exiting, pending>>

\* Start a process, after those that were interrupted are gone.
Spawn(u) ==
  /\ Loading(u) /\ lstep = "spawn" /\ "reaped" \notin exiting
  /\ \/ worker' = "starting" /\ wcfg' = cfg /\ lstep' = "boot" /\ Stay
     \/ LoadFailed(u) /\ UNCHANGED <<worker, wcfg>>
  /\ EngineUnchanged /\ UNCHANGED <<exiting, pending>>

\* A reload that is pending retires the process; what is not loaded is started.
Ensure(u) ==
  /\ Loading(u) /\ lstep = "none"
  /\ IF pending /\ worker = "ready"
     THEN /\ worker' = "none" /\ exiting' = exiting \cup {"unloading"}
          /\ lstep' = "retire" /\ Stay /\ UNCHANGED pending
     ELSE /\ pending' = FALSE /\ UNCHANGED exiting
          /\ IF worker = "ready"
             THEN Loaded(u) /\ UNCHANGED worker
             ELSE worker' = "none" /\ lstep' = "spawn" /\ Stay
  /\ EngineUnchanged /\ UNCHANGED wcfg

Retired(u) ==
  /\ Loading(u) /\ lstep = "retire" /\ "unloading" \notin exiting
  /\ pending' = FALSE /\ lstep' = "spawn" /\ Stay
  /\ EngineUnchanged /\ UNCHANGED process

\* The ready line, or a failed start, after which the process is terminated.
Boot(u) ==
  /\ Loading(u) /\ lstep = "boot"
  /\ \/ worker = "starting" /\ worker' = "ready" /\ Loaded(u) /\ UNCHANGED exiting
     \/ /\ worker = "starting" /\ worker' = "none"
        /\ exiting' = exiting \cup {"unloading"} /\ lstep' = "abort" /\ Stay
     \/ worker # "starting" /\ worker' = "none" /\ LoadFailed(u) /\ UNCHANGED exiting
  /\ EngineUnchanged /\ UNCHANGED <<wcfg, pending>>

Aborted(u) ==
  /\ Loading(u) /\ lstep = "abort" /\ "unloading" \notin exiting
  /\ LoadFailed(u) /\ EngineUnchanged /\ UNCHANGED <<process, pending>>

\* A cancelled task leaves both locks.  What it was waiting for, an exit or the
\* tasks that reap (which a cancelled gather cancels), nobody waits for any more.
LeaveLocks(u) ==
  LET holder == Holds(loadQ, u)
      waited == CASE holder /\ lstep \in {"retire", "abort"} -> {"unloading"}
                  [] holder /\ lstep = "spawn" -> {"reaped"}
                  [] u \in Unloader /\ upc[u] = "retire" -> {"unloading"}
                  [] OTHER -> {}
  IN /\ loadQ' = RemoveFirst(loadQ, u) /\ ioQ' = RemoveFirst(ioQ, u)
     /\ lstep' = IF holder THEN "none" ELSE lstep
     /\ exiting' = IF waited \cap exiting = {} THEN exiting
                   ELSE (exiting \ waited) \cup {"abandoned"}

\* Engine.unload: u joins the load lock, then the other one, and waits for the exit.
AskUnload(u) == loadQ' = Append(loadQ, u) /\ upc' = [upc EXCEPT ![u] = "load"]

Serving == phase \in {"serving", "closing"}
Unloads(u, step) == upc[u] = step /\ (IF u = "job" THEN ~hit ELSE Serving)

UnloadLocked(u) ==
  /\ Unloads(u, "load") /\ Holds(loadQ, u)
  /\ ioQ' = Append(ioQ, u) /\ upc' = [upc EXCEPT ![u] = "io"]
  /\ UNCHANGED <<requests, queue, event, current, jpc, jobState, producer, process,
                 loadQ, lstep, pending, ujob, setting>>

Unloaded(u) ==
  /\ loadQ' = Tail(loadQ) /\ ioQ' = Tail(ioQ) /\ upc' = [upc EXCEPT ![u] = "idle"]
  /\ jpc' = IF u = "job" THEN "drain" ELSE jpc

UnloadBegins(u) ==
  /\ Unloads(u, "io") /\ Holds(ioQ, u) /\ worker' = "none"
  /\ IF worker \in {"starting", "ready"}
     THEN /\ exiting' = exiting \cup {"unloading"} /\ upc' = [upc EXCEPT ![u] = "retire"]
          /\ UNCHANGED <<jpc, loadQ, ioQ>>
     ELSE Unloaded(u) /\ UNCHANGED exiting
  /\ UNCHANGED <<requests, queue, event, current, jobState, producer, wcfg, lstep,
                 pending, ujob, setting>>

UnloadEnds(u) ==
  /\ Unloads(u, "retire") /\ "unloading" \notin exiting /\ Unloaded(u)
  /\ UNCHANGED <<requests, queue, event, current, jobState, producer, process, lstep,
                 pending, ujob, setting>>

\* Processes exit, or die.
ProcessStep ==
  /\ \/ \E k \in exiting : exiting' = exiting \ {k} /\ UNCHANGED worker
     \/ worker \in {"starting", "ready"} /\ worker' = "dead" /\ UNCHANGED exiting
  /\ UNCHANGED <<requests, queue, event, current, jpc, jobState, producer, wcfg, locks,
                 pending, clerk, setting>>


-----------------------------------------------------------------------------
(* The worker task and its jobs.                                            *)

WorkerTake ==
  /\ cur = None /\ queue # <<>>
  /\ cur' = Head(queue) /\ queue' = Tail(queue) /\ jcfg' = cfg /\ jpc' = "created"
  /\ cancelling' = FALSE /\ hit' = FALSE /\ outcome' = "error" /\ played' = FALSE
  /\ UNCHANGED <<requests, event, struck, producer, process, locks, pending, clerk, setting>>

WorkerDone ==
  /\ jpc = "done" /\ cur' = None /\ jpc' = "none"
  /\ ppc' = "none" /\ left' = 0 /\ chunks' = <<>>
  /\ UNCHANGED <<requests, queue, event, jcfg, jobState, process, locks, pending, clerk,
                 setting>>

\* The job task leaves its body with an outcome; a producer that still works is
\* interrupted and cancelled.
Cleanup(o) ==
  /\ outcome' = o
  /\ IF Producing THEN jpc' = "reap" /\ Interrupt
     ELSE jpc' = "quit" /\ UNCHANGED <<worker, exiting>>
KeepQueue == UNCHANGED <<queue, event>>
JobUnchanged == UNCHANGED <<requests, current, cancelling, hit, struck, wcfg, pending, ujob,
                            setting>>

JobStart ==
  /\ jpc = "created" /\ ~hit
  /\ jpc' = "load" /\ loadQ' = Append(loadQ, "job")
  /\ KeepQueue /\ JobUnchanged
  /\ UNCHANGED <<outcome, played, producer, worker, exiting, ioQ, lstep, upc>>

\* The player starts, and the producer with it; or there is no player.
JobStarted ==
  /\ jpc = "start" /\ ~hit
  /\ \/ /\ jpc' = "consume" /\ ppc' = "next" /\ left' = Segments
        /\ UNCHANGED <<outcome, worker, exiting>>
     \/ Cleanup("error") /\ UNCHANGED <<ppc, left>>
  /\ KeepQueue /\ JobUnchanged /\ UNCHANGED <<played, chunks, locks, upc>>

Consume ==
  /\ jpc = "consume" /\ ~hit /\ chunks # <<>> /\ chunks' = Tail(chunks)
  /\ IF Head(chunks) = "pcm" THEN jpc' = "feed" /\ played' = TRUE
     ELSE jpc' = "join" /\ UNCHANGED played
  /\ KeepQueue /\ JobUnchanged
  /\ UNCHANGED <<outcome, ppc, left, worker, exiting, locks, upc>>

\* The player takes the audio, was closed by its user, or fails.
Feed ==
  /\ jpc = "feed" /\ ~hit
  /\ \/ jpc' = "consume" /\ KeepQueue /\ UNCHANGED <<outcome, worker, exiting>>
     \/ Cleanup("cancelled") /\ ClearQueue
     \/ Cleanup("error") /\ KeepQueue
  /\ JobUnchanged /\ UNCHANGED <<played, producer, locks, upc>>

\* The producer's own end; with nothing left to synthesize the engine goes.
Join ==
  /\ jpc = "join" /\ ~hit /\ ~Producing
  /\ IF ppc = "failed" THEN Cleanup("error") /\ UNCHANGED <<loadQ, upc>>
     ELSE /\ IF queue = <<>> THEN jpc' = "unload" /\ AskUnload("job")
             ELSE jpc' = "drain" /\ UNCHANGED <<loadQ, upc>>
          /\ UNCHANGED <<outcome, worker, exiting>>
  /\ KeepQueue /\ JobUnchanged /\ UNCHANGED <<played, producer, ioQ, lstep>>

\* The player ends: at the end of the audio, closed by its user, or in error.
Drain ==
  /\ jpc = "drain" /\ ~hit
  /\ \E o \in {"finished", "cancelled", "error"} :
       Cleanup(o) /\ IF o = "cancelled" THEN ClearQueue ELSE KeepQueue
  /\ JobUnchanged /\ UNCHANGED <<played, producer, locks, upc>>

\* The wait for the producer ends, and takes in a cancellation that came during it.
Reaped ==
  /\ jpc = "reap" /\ ~Producing /\ jpc' = "quit" /\ hit' = FALSE
  /\ KeepQueue
  /\ UNCHANGED <<requests, current, cancelling, outcome, played, struck, producer, process,
                 locks, pending, clerk, setting>>

\* The player is gone: the last event, and the end of the task.
Quit ==
  /\ jpc = "quit" /\ ~hit /\ jpc' = "done"
  /\ event' = [event EXCEPT ![cur] = outcome]
  /\ UNCHANGED <<requests, queue, current, jobState, producer, process, locks, pending, clerk,
                 setting>>

\* The task takes no first step, or its clean-up is cut short: no last event.
Struck ==
  /\ jpc \in {"created", "quit"} /\ jpc' = "done" /\ struck' = struck \cup {cur}
  /\ UNCHANGED <<event, outcome, worker, exiting, loadQ, ioQ, lstep, upc>>

\* A cancellation reaches the job task.
JobCancelled ==
  /\ hit /\ hit' = FALSE
  /\ \/ Struck
     \/ /\ jpc = "load" /\ LeaveLocks("job") /\ jpc' = "done"
        /\ outcome' = "cancelled" /\ event' = [event EXCEPT ![cur] = "cancelled"]
        /\ UNCHANGED <<worker, struck, upc>>
     \/ /\ jpc \in {"start", "consume", "feed", "join", "drain"} /\ Cleanup("cancelled")
        /\ UNCHANGED <<event, struck, loadQ, ioQ, lstep, upc>>
     \/ /\ jpc = "unload" /\ LeaveLocks("job") /\ upc' = [upc EXCEPT !["job"] = "idle"]
        /\ outcome' = "cancelled" /\ jpc' = "quit" /\ UNCHANGED <<worker, event, struck>>
  /\ UNCHANGED <<requests, queue, current, cancelling, played, producer, wcfg, pending, ujob,
                 setting>>

-----------------------------------------------------------------------------
(* The producer of the current job.                                         *)

Working == jpc # "reap"
ProducerUnchanged ==
  UNCHANGED <<requests, queue, event, current, jpc, jobState, wcfg, pending, clerk, setting>>

\* The next segment goes to the engine, which is loaded first when it has to be.
ProduceNext ==
  /\ Working /\ ppc = "next"
  /\ \/ left = 0 /\ ppc' = "close" /\ UNCHANGED <<loadQ, ioQ>>
     \/ left > 0 /\ worker = "ready" /\ ppc' = "wait" /\ ioQ' = Append(ioQ, "producer")
        /\ UNCHANGED loadQ
     \/ left > 0 /\ worker # "ready" /\ ppc' = "load" /\ loadQ' = Append(loadQ, "producer")
        /\ UNCHANGED ioQ
  /\ ProducerUnchanged /\ UNCHANGED <<left, chunks, worker, exiting, lstep>>

\* With the pipe its own, it finds that the engine went meanwhile or sends.
SendSegment ==
  /\ Working /\ ppc = "wait" /\ Holds(ioQ, "producer")
  /\ IF worker = "none" THEN ppc' = "fail" /\ ioQ' = Tail(ioQ)
     ELSE ppc' = "read" /\ UNCHANGED ioQ
  /\ ProducerUnchanged /\ UNCHANGED <<left, chunks, worker, exiting, loadQ, lstep>>

\* Audio, an error of the engine, or the end of a process that died.
ReadAnswer ==
  /\ Working /\ ppc = "read" /\ ioQ' = Tail(ioQ)
  /\ \/ worker = "ready" /\ ppc' \in {"put", "fail"} /\ UNCHANGED worker
     \/ worker \in {"dead", "none"} /\ ppc' = "fail" /\ worker' = "none"
  /\ ProducerUnchanged /\ UNCHANGED <<left, chunks, exiting, loadQ, lstep>>

PutChunk ==
  /\ Working /\ ppc = "put" /\ Len(chunks) < Prefetch
  /\ chunks' = Append(chunks, "pcm") /\ left' = left - 1 /\ ppc' = "next"
  /\ ProducerUnchanged /\ UNCHANGED <<process, locks>>

\* Mutant: an error ends the producer without an end mark.
FinishSilently ==
  /\ Working /\ ppc \in {"close", "fail"} /\ Len(chunks) < Prefetch
  /\ IF ppc = "close" THEN chunks' = Append(chunks, "end") /\ ppc' = "done"
     ELSE ppc' = "failed" /\ UNCHANGED chunks
  /\ ProducerUnchanged /\ UNCHANGED <<left, process, locks>>

\* After the last segment and after an error alike: the end mark.
Finish ==
  /\ Working /\ ppc \in {"close", "fail"} /\ Len(chunks) < Prefetch
  /\ chunks' = Append(chunks, "end") /\ ppc' = (IF ppc = "close" THEN "done" ELSE "failed")
  /\ ProducerUnchanged /\ UNCHANGED <<left, process, locks>>

\* Mutant: the read of an answer cannot be cancelled.
CancelledBetween ==
  /\ jpc = "reap" /\ Producing /\ ppc # "read" /\ ppc' = "failed" /\ LeaveLocks("producer")
  /\ ProducerUnchanged /\ UNCHANGED <<left, chunks, worker>>

\* Wherever it is, it stops when the job asks it to.
ProducerCancelled ==
  /\ jpc = "reap" /\ Producing /\ ppc' = "failed" /\ LeaveLocks("producer")
  /\ ProducerUnchanged /\ UNCHANGED <<left, chunks, worker>>

-----------------------------------------------------------------------------
(* Commands, the idle ticker and the end of the daemon.                     *)

Command == phase = "serving" /\ controls < MaxControls /\ controls' = controls + 1
CommandUnchanged == UNCHANGED <<current, jpc, producer, ioQ, lstep, phase>>

Stop ==
  /\ Command /\ StopAll({}) /\ ClearQueue /\ CommandUnchanged
  /\ UNCHANGED <<place, loadQ, clerk, cfg, pending>>

\* The unload command stops everything, and waits for the job before it unloads.
Unload ==
  /\ Command /\ upc["control"] = "idle" /\ StopAll({}) /\ ClearQueue
  /\ IF Running
     THEN upc' = [upc EXCEPT !["control"] = "gather"] /\ ujob' = cur /\ UNCHANGED loadQ
     ELSE AskUnload("control") /\ UNCHANGED ujob
  /\ CommandUnchanged /\ UNCHANGED <<place, cfg, pending>>

Gathered ==
  /\ Serving /\ upc["control"] = "gather" /\ (ujob = cur => jpc = "done")
  /\ AskUnload("control") /\ ujob' = None
  /\ UNCHANGED <<requests, queue, event, current, jpc, jobState, producer, process, ioQ,
                 lstep, pending, setting>>

\* Mutant: a reload while a job runs is not remembered.
ReloadIdle ==
  /\ Command /\ upc["control"] = "idle" /\ cfg' = cfg + 1
  /\ IF cur = None THEN AskUnload("control") /\ pending' = TRUE
     ELSE UNCHANGED <<loadQ, upc, pending>>
  /\ CommandUnchanged /\ UNCHANGED <<requests, queue, event, jobState, process, ujob>>

\* A configuration whose engine differs: pending, and unloaded where no job runs.
Reload ==
  /\ Command /\ upc["control"] = "idle" /\ cfg' = cfg + 1 /\ pending' = TRUE
  /\ IF cur = None THEN AskUnload("control") ELSE UNCHANGED <<loadQ, upc>>
  /\ CommandUnchanged /\ UNCHANGED <<requests, queue, event, jobState, process, ujob>>

\* The ticker unloads an engine nobody uses: between segments it does not.
Busy == \/ queue # <<>>
        \/ cur # None /\ jpc \in {"load", "start", "consume", "feed", "join"}
        \/ cur # None /\ jpc \in {"reap", "quit"} /\ ~played
TickerUnload ==
  /\ Serving /\ upc["ticker"] = "idle" /\ worker = "ready" /\ ~Busy /\ AskUnload("ticker")
  /\ UNCHANGED <<requests, queue, event, current, jpc, jobState, producer, process, ioQ,
                 lstep, pending, ujob, setting>>

\* The clients: those whose text is prepared and those that wait for an end.
Clients == {r \in Request : \/ Preparing(r)
                            \/ place[r] = "accepted" /\ event[r] = "none"}

\* A shutdown command or a signal, or a ticker that finds nothing left to do.
ShutdownRequested ==
  /\ phase = "serving" /\ phase' = "closing"
  /\ UNCHANGED <<requests, queue, event, current, jpc, jobState, producer, process, locks,
                 pending, clerk, cfg, controls>>

IdleExit ==
  /\ upc["ticker"] = "idle" /\ upc["control"] = "idle" /\ Clients = {}
  /\ cur = None /\ queue = <<>> /\ worker # "ready" /\ ShutdownRequested

\* _graceful_shutdown: clients are cancelled (and with one that gathers the job,
\* the job once more), then everything is stopped.
BeginShutdown ==
  /\ phase = "closing" /\ phase' = "draining"
  /\ fresh' = {} /\ overtaken' = overtaken \cup {r \in Request : place[r] # "new"}
  /\ place' = [r \in Request |-> IF Preparing(r) THEN "rejected" ELSE place[r]]
  /\ ClearQueue
  /\ IF upc["control"] = "gather" /\ ujob = cur /\ Running
     THEN hit' = TRUE /\ UNCHANGED <<cancelling, worker, exiting>>
     ELSE CancelJob
  /\ UNCHANGED <<current, jpc, outcome, played, struck, wcfg, producer, locks, pending, clerk,
                 cfg, controls>>

\* Handlers and the ticker that were cancelled while they unloaded.
Depart(u) ==
  /\ ~Serving /\ u # "job" /\ upc[u] # "idle" /\ LeaveLocks(u)
  /\ upc' = [upc EXCEPT ![u] = "idle"] /\ ujob' = None
  /\ UNCHANGED <<requests, queue, event, current, jpc, jobState, producer, worker, wcfg,
                 pending, setting>>

\* After five seconds the gather is cancelled, and the job with it.
DrainTimeout ==
  /\ phase = "draining" /\ phase' = "expired" /\ Running /\ hit' = TRUE
  /\ UNCHANGED <<requests, queue, event, current, jpc, cancelling, outcome, played, struck,
                 producer, process, locks, pending, clerk, cfg, controls>>

EngineShutdown ==
  /\ phase \in {"draining", "expired"} /\ cur = None /\ loadQ = <<>> /\ ioQ = <<>>
  /\ phase' = "unloading" /\ worker' = "none"
  /\ exiting' = IF worker \in {"starting", "ready"} THEN exiting \cup {"unloading"} ELSE exiting
  /\ UNCHANGED <<requests, queue, event, current, jpc, jobState, producer, wcfg, locks,
                 pending, clerk, cfg, controls>>

Closed ==
  /\ phase = "unloading" /\ exiting \subseteq {"abandoned"} /\ phase' = "closed"
  /\ UNCHANGED <<requests, queue, event, current, jpc, jobState, producer, process, locks,
                 pending, clerk, cfg, controls>>

Rest == phase = "closed" /\ UNCHANGED vars

-----------------------------------------------------------------------------
EngineStep(u) == \/ Ensure(u) \/ Retired(u) \/ Spawn(u) \/ Boot(u) \/ Aborted(u)
UnloadStep(u) == UnloadLocked(u) \/ UnloadBegins(u) \/ UnloadEnds(u) \/ Depart(u)
JobStep == \/ JobStart \/ JobStarted \/ Consume \/ Feed \/ Join \/ Drain \/ Reaped \/ Quit
           \/ JobCancelled \/ WorkerDone
ProducerStep == \/ ProduceNext \/ SendSegment \/ ReadAnswer \/ PutChunk \/ Finish
                \/ ProducerCancelled
ClientStep == \/ \E r \in Request : Refuse(r) \/ Accept(r)
              \/ \E r \in Request, m \in Mode : Arrive(r, m)
ControlStep == Stop \/ Unload \/ Gathered \/ Reload
ClosingStep == BeginShutdown \/ DrainTimeout \/ EngineShutdown \/ Closed

Next ==
  \/ ClientStep \/ ControlStep \/ JobStep \/ ProducerStep \/ WorkerTake \/ ProcessStep
  \/ \E u \in {"job", "producer"} : EngineStep(u)
  \/ \E u \in Unloader : UnloadStep(u)
  \/ TickerUnload \/ ShutdownRequested \/ IdleExit \/ ClosingStep \/ Rest

Spec == Init /\ [][Next]_vars

\* Tasks that can run do, processes told to exit do (they are killed after two
\* seconds).  The synthesis process need not answer, nor the player take audio.
Fairness ==
  /\ WF_vars(JobCancelled) /\ WF_vars(Reaped) /\ WF_vars(Quit) /\ WF_vars(WorkerDone)
  /\ WF_vars(ProducerCancelled) /\ WF_vars(BeginShutdown) /\ WF_vars(DrainTimeout)
  /\ WF_vars(EngineShutdown) /\ WF_vars(Closed)
  /\ WF_vars(exiting # {} /\ ProcessStep /\ exiting' # exiting)
  /\ \A u \in Unloader : WF_vars(UnloadStep(u))
FairSpec == Spec /\ Fairness

-----------------------------------------------------------------------------
(* Properties.                                                              *)

\* A job that has left the daemon was answered with its last event, whichever way
\* it left (the queue, an error, a stop, its player), unless a cancellation hit its
\* task before the first step or in its clean-up (run_job's finally block).
EndReported == \A r \in Request : Left(r) => event[r] # "none" \/ r \in struck

\* What a stop found, in its thread, in the queue or in the job, is not heard any
\* more: no audio of it is given to the player after the stop.
StoppedIsSilent == [][jpc = "consume" /\ jpc' = "feed" => cur \notin overtaken]_vars

\* While a synthesis process runs, the daemon waits for no older one to exit: two
\* models are never in memory but for a process whose waiter was cancelled.
OneWorker == worker \in {"starting", "ready"} => exiting \subseteq {"abandoned"}

\* The consumer never waits for a chunk that nobody will put: every end of the
\* producer, an error included, is announced in the bounded queue.
ConsumerIsFed == jpc = "consume" /\ ~hit /\ chunks = <<>> => Producing

\* A job that began after a reload is not spoken by a process that was started
\* with the configuration before it.
FreshConfig == jpc \in {"consume", "feed"} /\ worker = "ready" => wcfg >= jcfg

\* The daemon ends once it was asked to, whatever its tasks wait for.
ShutdownEnds == phase = "closing" ~> phase = "closed"

(* Stronger than the code: TLC refutes both on the instance of the run.      *)

\* Every job is answered.  A stop may hit the task before its first step.
EveryJobIsAnswered == \A r \in Request : Left(r) => event[r] # "none"

\* A replacement process waits for every interrupted one to exit.  A stop while
\* it waits cancels the tasks that reap the old ones, and the next job does not.
ReplacementWaits == worker \in {"starting", "ready"} => exiting = {}

=============================================================================
