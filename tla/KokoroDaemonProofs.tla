------------------------ MODULE KokoroDaemonProofs -------------------------
(* Proofs about KokoroDaemon, for every number of requests, segments and    *)
(* commands, and every length of the two queues.                            *)
EXTENDS KokoroDaemon, SequenceTheorems, TLAPS

\* The awaits of a job before its clean-up.
Body == {"created", "load", "start", "consume", "feed", "join", "unload", "drain"}

\* What the arguments need of the types, and that only a job that waits for it
\* unloads the engine on its own behalf.
JobInv ==
  /\ cur \in Request \cup {None} /\ (cur = None <=> jpc = "none")
  /\ queue \in Seq(Request)
  /\ place \in [Request -> {"new", "rejected", "accepted"} \cup Mode]
  /\ event \in [Request -> {"none", "finished", "cancelled", "error"}]
  /\ outcome \in {"finished", "cancelled", "error"}
  /\ upc \in [Unloader -> {"idle", "gather", "load", "io", "retire"}]
  /\ upc["job"] # "idle" => jpc = "unload"

\* An accepted job waits, runs, was answered or was struck; a task that is done
\* has had one of the latter two.
EndInv ==
  /\ EndReported
  /\ jpc = "done" => event[cur] # "none" \/ cur \in struck

\* A stop leaves nothing behind in the thread or the queue, and its cancellation
\* stays under way until the job leaves its body.
StopInv ==
  /\ \A r \in fresh : r \in Request \ overtaken /\ Preparing(r)
  /\ \A r \in Queued : r \in Request \ overtaken /\ place[r] = "accepted"
  /\ \A r \in overtaken : r \in Request /\ place[r] # "new"
  /\ cur # None => place[cur] = "accepted"
  /\ jpc \in Body => (cancelling => hit) /\ (cur \in overtaken => hit)

\* The end mark is the last thing a producer that has ended left behind.
FeedInv ==
  /\ chunks \in Seq({"pcm", "end"})
  /\ jpc \in {"consume", "feed"} => Producing \/ (chunks # <<>> /\ chunks[Len(chunks)] = "end")

IInv == JobInv /\ EndInv /\ StopInv /\ FeedInv

-----------------------------------------------------------------------------
(* The queue.                                                                *)

LEMMA HeadAndTail ==
  ASSUME NEW S, NEW s \in Seq(S), s # <<>>
  PROVE  /\ Head(s) \in S /\ Tail(s) \in Seq(S) /\ Len(Tail(s)) = Len(s) - 1
         /\ Head(s) = s[1] /\ Len(s) \in Nat \ {0}
         /\ \A i \in 1 .. Len(Tail(s)) : Tail(s)[i] = s[i + 1]
OBVIOUS

LEMMA QueueTaken ==
  ASSUME queue \in Seq(Request), queue # <<>>, queue' = Tail(queue)
  PROVE  Queued = Queued' \cup {Head(queue)} /\ queue' \in Seq(Request)
<1> USE HeadAndTail
<1>1. Queued' \subseteq Queued /\ Head(queue) \in Queued
  BY DEF Queued
<1>2. ASSUME NEW i \in 1 .. Len(queue), i # 1 PROVE queue[i] \in Queued'
  <2>1. i - 1 \in 1 .. Len(queue') /\ queue'[i - 1] = queue[i]
    BY <1>2
  <2> QED
    BY <2>1 DEF Queued
<1> QED
  BY <1>1, <1>2 DEF Queued

LEMMA QueueJoined ==
  ASSUME queue \in Seq(Request), NEW r \in Request, queue' = Append(queue, r)
  PROVE  Queued' = Queued \cup {r} /\ queue' \in Seq(Request)
<1>1. Len(queue') = Len(queue) + 1 /\ queue'[Len(queue) + 1] = r /\ Len(queue) \in Nat
  OBVIOUS
<1>2. \A i \in 1 .. Len(queue) : queue'[i] = queue[i]
  OBVIOUS
<1>3. Queued' \subseteq Queued \cup {r}
  BY <1>1, <1>2 DEF Queued
<1>4. Queued \subseteq Queued' /\ r \in Queued'
  BY <1>1, <1>2 DEF Queued
<1> QED
  BY <1>3, <1>4

LEMMA QueueCleared ==
  ASSUME queue' = <<>>
  PROVE  Queued' = {} /\ queue' \in Seq(Request)
BY DEF Queued

LEMMA QueueReplaced ==
  ASSUME NEW r \in Request, queue' = <<r>>
  PROVE  Queued' = {r} /\ queue' \in Seq(Request)
BY DEF Queued

-----------------------------------------------------------------------------
(* What a step does to the requests and to the job.                          *)

\* Steps that change neither a request nor the queue nor the current job.
Quiet == UNCHANGED <<place, fresh, overtaken, queue, cur, cancelling>>

\* The job task goes on within its body, ends it, or is told of an error there.
JobMoves ==
  /\ Quiet /\ UNCHANGED struck
  /\ \/ (hit' \/ hit' = hit) /\ UNCHANGED <<jpc, event, outcome>>
     \/ /\ jpc \in Body /\ ~hit /\ jpc' \in Body /\ hit' = hit
        /\ UNCHANGED <<event, outcome>>
     \/ /\ jpc \in Body /\ ~hit /\ jpc' \in {"reap", "quit"} /\ hit' = hit
        /\ outcome' \in {"finished", "cancelled", "error"} /\ UNCHANGED event
     \/ /\ jpc = "load" /\ jpc' = "done" /\ hit' = hit
        /\ event' = [event EXCEPT ![cur] = "error"] /\ UNCHANGED outcome
     \/ /\ jpc = "reap" /\ jpc' = "quit" /\ UNCHANGED <<event, outcome>>
     \/ /\ jpc = "quit" /\ jpc' = "done" /\ hit' = hit
        /\ event' = [event EXCEPT ![cur] = outcome] /\ UNCHANGED outcome

\* The player was closed by its user: the queue goes with the job.
JobStops ==
  /\ UNCHANGED <<place, fresh, overtaken, cur, cancelling, struck, hit>> /\ ClearQueue
  /\ jpc \in Body /\ jpc' \in {"reap", "quit"} /\ outcome' = "cancelled"

\* A cancellation reaches it.
JobHit ==
  /\ Quiet /\ hit /\ ~hit'
  /\ \/ /\ jpc \in {"created", "quit"} /\ jpc' = "done" /\ struck' = struck \cup {cur}
        /\ UNCHANGED <<event, outcome>>
     \/ /\ jpc = "load" /\ jpc' = "done" /\ outcome' = "cancelled"
        /\ event' = [event EXCEPT ![cur] = "cancelled"] /\ UNCHANGED struck
     \/ /\ jpc \in Body /\ jpc' \in {"reap", "quit"} /\ outcome' = "cancelled"
        /\ UNCHANGED <<event, struck>>

\* Everything is stopped on behalf of the requests in `by'.
Stops(by) ==
  /\ fresh' = {} /\ overtaken' = overtaken \cup {r \in Request \ by : place[r] # "new"}
  /\ event' = [r \in Request |-> IF r \in Queued THEN "cancelled" ELSE event[r]]
  /\ \/ Running /\ ~cancelling /\ cancelling' = TRUE /\ hit' = TRUE
     \/ Running /\ hit' = TRUE /\ UNCHANGED cancelling
     \/ ~(Running /\ ~cancelling) /\ UNCHANGED <<cancelling, hit>>
  /\ UNCHANGED <<cur, jpc, outcome, struck>>

Interrupts(r) ==
  /\ place[r] = "interrupt" /\ r \in fresh /\ Stops({r}) /\ queue' = <<r>>
  /\ place' = [place EXCEPT ![r] = "accepted"]
Enqueues(r) ==
  /\ place[r] = "enqueue" /\ r \in fresh /\ fresh' = fresh \ {r}
  /\ \/ queue' = Append(queue, r) /\ place' = [place EXCEPT ![r] = "accepted"]
     \/ UNCHANGED queue /\ place' = [place EXCEPT ![r] = "rejected"]
  /\ UNCHANGED <<overtaken, event, cur, jpc, cancelling, hit, outcome, struck>>
Prepares(r) ==
  /\ \/ /\ place[r] = "new" /\ place' = [place EXCEPT ![r] = "rejected"] /\ UNCHANGED fresh
     \/ /\ place[r] = "new" /\ fresh' = fresh \cup {r}
        /\ \E m \in Mode : place' = [place EXCEPT ![r] = m]
     \/ /\ place[r] \in Mode /\ place' = [place EXCEPT ![r] = "rejected"]
        /\ fresh' = fresh \ {r}
  /\ UNCHANGED <<overtaken, queue, event, cur, jpc, cancelling, hit, outcome, struck>>
StopsAll ==
  /\ Stops({}) /\ queue' = <<>>
  /\ \/ UNCHANGED place
     \/ place' = [r \in Request |-> IF Preparing(r) THEN "rejected" ELSE place[r]]

LEMMA StepKinds ==
  ASSUME [Next]_vars, JobInv
  PROVE  \/ JobMoves \/ JobStops \/ JobHit \/ WorkerTake \/ WorkerDone \/ StopsAll
         \/ \E r \in Request : Interrupts(r) \/ Enqueues(r) \/ Prepares(r)
<1>1. ASSUME NEW u \in {"job", "producer"}, EngineStep(u) PROVE JobMoves
  <2>1. /\ UNCHANGED <<place, fresh, overtaken, queue, cur, cancelling, struck, hit, outcome>>
        /\ \/ UNCHANGED <<jpc, event>>
           \/ /\ u = "job" /\ jpc = "load" /\ ~hit
              /\ \/ jpc' = "start" /\ UNCHANGED event
                 \/ jpc' = "done" /\ event' = [event EXCEPT ![cur] = "error"]
    BY <1>1 DEF EngineStep, Ensure, Retired, Spawn, Boot, Aborted, Loading, Loaded, LoadFailed,
       Stay, EngineUnchanged, requests, current, jobState
  <2> QED
    BY <2>1 DEF JobMoves, Quiet, Body
<1>2. ASSUME NEW u \in Unloader, UnloadStep(u) PROVE JobMoves
  <2>1. /\ UNCHANGED <<place, fresh, overtaken, queue, cur, cancelling, struck, hit, outcome>>
        /\ UNCHANGED event
        /\ UNCHANGED jpc \/ (upc["job"] # "idle" /\ ~hit /\ jpc' = "drain")
    BY <1>2 DEF UnloadStep, UnloadLocked, UnloadBegins, UnloadEnds, Unloaded, Depart, Unloads,
       requests, current, jobState
  <2> QED
    BY <2>1 DEF JobMoves, Quiet, Body, JobInv
<1>3. CASE ProducerStep \/ ProcessStep \/ TickerUnload
  BY <1>3 DEF ProducerStep, ProduceNext, SendSegment, ReadAnswer, PutChunk, Finish,
     ProducerCancelled, ProducerUnchanged, ProcessStep, TickerUnload, requests, current, jobState,
     JobMoves, Quiet
<1>4. CASE JobStart \/ JobStarted \/ Consume \/ Join \/ Reaped \/ Quit
  BY <1>4 DEF JobStart, JobStarted, Consume, Join, Reaped, Quit, Cleanup, KeepQueue, JobUnchanged,
     requests, current, jobState, JobMoves, Quiet, Body
<1>5. CASE Feed \/ Drain
  <2>1. /\ jpc \in {"feed", "drain"} /\ ~hit
        /\ UNCHANGED <<place, fresh, overtaken, cur, cancelling, struck, hit>>
        /\ \/ jpc' = "consume" /\ UNCHANGED <<outcome, queue, event>>
           \/ /\ jpc' \in {"reap", "quit"}
              /\ \/ ClearQueue /\ outcome' = "cancelled"
                 \/ /\ UNCHANGED <<queue, event>>
                    /\ outcome' \in {"finished", "cancelled", "error"}
    BY <1>5 DEF Feed, Drain, Cleanup, KeepQueue, JobUnchanged, requests, current
  <2> QED
    BY <2>1 DEF JobMoves, JobStops, Quiet, Body
<1>6. CASE JobCancelled
  BY <1>6 DEF JobCancelled, Struck, Cleanup, requests, current, JobHit, Quiet, Body
<1>7. CASE Stop \/ Unload
  BY <1>7 DEF Stop, Unload, StopAll, ClearQueue, CancelJob, Interrupt, CommandUnchanged, current,
     StopsAll, Stops
<1>8. CASE BeginShutdown
  BY <1>8 DEF BeginShutdown, ClearQueue, CancelJob, Interrupt, current, StopsAll, Stops
<1>9. CASE Gathered \/ Reload
  BY <1>9 DEF Gathered, Reload, CommandUnchanged, requests, current, jobState, JobMoves, Quiet
<1>10. ASSUME NEW r \in Request, NEW m \in Mode, Arrive(r, m) PROVE Prepares(r)
  BY <1>10 DEF Arrive, current, jobState, Prepares
<1>11. ASSUME NEW r \in Request, Refuse(r) PROVE Prepares(r)
  BY <1>11 DEF Refuse, Preparing, current, jobState, Prepares
<1>12. ASSUME NEW r \in Request, Accept(r) PROVE Interrupts(r) \/ Enqueues(r)
  BY <1>12 DEF Accept, StopAll, CancelJob, Interrupt, current, jobState, Interrupts, Enqueues, Stops
<1>13. CASE ShutdownRequested \/ IdleExit \/ EngineShutdown \/ Closed \/ Rest \/ UNCHANGED vars
  BY <1>13 DEF ShutdownRequested, IdleExit, EngineShutdown, Closed, Rest, vars, requests, current,
     jobState, JobMoves, Quiet
<1>14. CASE DrainTimeout
  BY <1>14 DEF DrainTimeout, requests, current, JobMoves, Quiet
<1> QED
  BY <1>1, <1>2, <1>3, <1>4, <1>5, <1>6, <1>7, <1>8, <1>9, <1>10, <1>11, <1>12, <1>13, <1>14
  DEF Next, ClientStep, ControlStep, JobStep, ClosingStep

-----------------------------------------------------------------------------
(* Inductive steps.                                                          *)

LEMMA StopsEvents ==
  ASSUME JobInv, NEW by, Stops(by)
  PROVE  /\ event' \in [Request -> {"none", "finished", "cancelled", "error"}]
         /\ \A r \in Request : event[r] # "none" \/ r \in Queued => event'[r] # "none"
BY DEF JobInv, Stops

LEMMA QueueStep ==
  ASSUME [Next]_vars, JobInv
  PROVE  queue' \in Seq(Request)
<1>1. CASE JobMoves \/ JobHit \/ WorkerDone
  BY <1>1 DEF JobMoves, JobHit, WorkerDone, Quiet, JobInv
<1>2. CASE JobStops \/ StopsAll
  BY <1>2, QueueCleared DEF JobStops, ClearQueue, StopsAll
<1>3. CASE WorkerTake
  BY <1>3, QueueTaken DEF WorkerTake, JobInv
<1>4. ASSUME NEW r \in Request, Interrupts(r) \/ Enqueues(r) \/ Prepares(r)
      PROVE  queue' \in Seq(Request)
  BY <1>4, QueueJoined, QueueReplaced DEF Interrupts, Enqueues, Prepares, JobInv
<1> QED
  BY <1>1, <1>2, <1>3, <1>4, StepKinds

\* Only the job's own unload is between a job that is left and its place.
LEMMA UnloadStepInv ==
  ASSUME [Next]_vars, JobInv
  PROVE  /\ upc' \in [Unloader -> {"idle", "gather", "load", "io", "retire"}]
         /\ upc'["job"] # "idle" => jpc' = "unload"
<1> USE DEF JobInv, Unloader
<1>1. ASSUME NEW u \in {"job", "producer"}, EngineStep(u)
      PROVE  UNCHANGED upc /\ (UNCHANGED jpc \/ jpc = "load")
  BY <1>1 DEF EngineStep, Ensure, Retired, Spawn, Boot, Aborted, Loading, Loaded, LoadFailed,
       Stay, EngineUnchanged, clerk
<1>2. ASSUME NEW u \in Unloader, UnloadStep(u)
      PROVE  /\ \/ \E s \in {"idle", "io", "retire"} : upc' = [upc EXCEPT ![u] = s]
                \/ UNCHANGED upc
             /\ \/ UNCHANGED jpc /\ (u = "job" => upc["job"] # "idle")
                \/ u = "job" /\ upc' = [upc EXCEPT ![u] = "idle"]
  BY <1>2 DEF UnloadStep, UnloadLocked, UnloadBegins, UnloadEnds, Unloaded, Depart, Unloads
<1>3. CASE ProducerStep \/ ProcessStep
  BY <1>3 DEF ProducerStep, ProduceNext, SendSegment, ReadAnswer, PutChunk, Finish,
     ProducerCancelled, ProducerUnchanged, ProcessStep, clerk
<1>4. CASE JobStart \/ JobStarted \/ Consume \/ Feed \/ Drain \/ Reaped \/ Quit
  BY <1>4 DEF JobStart, JobStarted, Consume, Feed, Drain, Reaped, Quit, clerk
<1>5. CASE Join
  <2>1. /\ jpc = "join"
        /\ \/ UNCHANGED upc
           \/ jpc' = "unload" /\ upc' = [upc EXCEPT !["job"] = "load"]
    BY <1>5 DEF Join, AskUnload
  <2> QED
    BY <2>1
<1>6. CASE JobCancelled
  BY <1>6 DEF JobCancelled, Struck
<1>7. CASE TickerUnload \/ Unload \/ Gathered \/ Reload
  <2>1. /\ UNCHANGED jpc
        /\ \/ UNCHANGED upc
           \/ \E u \in Unloader \ {"job"}, s \in {"gather", "load"} : upc' = [upc EXCEPT ![u] = s]
    BY <1>7 DEF TickerUnload, Unload, Gathered, Reload, AskUnload, CommandUnchanged
  <2> QED
    BY <2>1
<1>8. CASE WorkerTake \/ WorkerDone \/ ClientStep \/ Stop \/ ClosingStep \/ ShutdownRequested
           \/ IdleExit \/ Rest \/ UNCHANGED vars
  BY <1>8 DEF WorkerTake, WorkerDone, ClientStep, Arrive, Refuse, Accept, Stop, CommandUnchanged,
     ClosingStep, BeginShutdown, DrainTimeout, EngineShutdown, Closed, ShutdownRequested, IdleExit,
     Rest, vars, clerk
<1> QED
  BY <1>1, <1>2, <1>3, <1>4, <1>5, <1>6, <1>7, <1>8 DEF Next, JobStep, ControlStep

LEMMA JobInvStep ==
  ASSUME [Next]_vars, JobInv
  PROVE  JobInv'
<1> USE NoneAssumption
<1>1. CASE JobMoves
  BY <1>1, QueueStep, UnloadStepInv DEF JobMoves, Quiet, Body, JobInv
<1>2. CASE JobStops
  BY <1>2, QueueStep, UnloadStepInv DEF JobStops, ClearQueue, Body, JobInv
<1>3. CASE JobHit
  BY <1>3, QueueStep, UnloadStepInv DEF JobHit, Quiet, Body, JobInv
<1>4. CASE WorkerTake
  <2>1. Head(queue) \in Request
    BY <1>4, HeadAndTail DEF WorkerTake, JobInv
  <2> QED
    BY <1>4, <2>1, QueueStep, UnloadStepInv DEF WorkerTake, JobInv, requests
<1>5. CASE WorkerDone
  BY <1>5, QueueStep, UnloadStepInv DEF WorkerDone, JobInv, requests, jobState
<1>6. CASE StopsAll
  <2>1. place' \in [Request -> {"new", "rejected", "accepted"} \cup Mode]
    BY <1>6 DEF StopsAll, JobInv
  <2>2. Stops({})
    BY <1>6 DEF StopsAll
  <2> QED
    BY <2>1, <2>2, StopsEvents, QueueStep, UnloadStepInv DEF Stops, JobInv
<1>7. ASSUME NEW r \in Request, Interrupts(r) PROVE JobInv'
  <2>1. Stops({r}) /\ place' = [place EXCEPT ![r] = "accepted"]
    BY <1>7 DEF Interrupts
  <2> QED
    BY <2>1, StopsEvents, QueueStep, UnloadStepInv DEF Stops, JobInv
<1>8. ASSUME NEW r \in Request, Enqueues(r) \/ Prepares(r) PROVE JobInv'
  <2>1. place' \in [Request -> {"new", "rejected", "accepted"} \cup Mode]
    BY <1>8 DEF Enqueues, Prepares, JobInv
  <2>2. UNCHANGED <<event, cur, jpc, outcome>>
    BY <1>8 DEF Enqueues, Prepares
  <2> QED
    BY <2>1, <2>2, QueueStep, UnloadStepInv DEF JobInv
<1> QED
  BY <1>1, <1>2, <1>3, <1>4, <1>5, <1>6, <1>7, <1>8, StepKinds

LEMMA EndInvStep ==
  ASSUME [Next]_vars, JobInv, StopInv, EndInv
  PROVE  EndInv'
<1> USE NoneAssumption DEF EndInv, EndReported, Left, JobInv
<1>1. CASE JobMoves
  <2>1. Queued' = Queued
    BY <1>1 DEF JobMoves, Quiet, Queued
  <2> QED
    BY <1>1, <2>1 DEF JobMoves, Quiet, Body
<1>2. CASE JobStops
  <2>1. Queued' = {}
    BY <1>2, QueueCleared DEF JobStops, ClearQueue
  <2>2. \A r \in Request : event[r] # "none" \/ r \in Queued => event'[r] # "none"
    BY <1>2 DEF JobStops, ClearQueue
  <2> QED
    BY <1>2, <2>1, <2>2 DEF JobStops, Body
<1>3. CASE JobHit
  <2>1. Queued' = Queued
    BY <1>3 DEF JobHit, Quiet, Queued
  <2> QED
    BY <1>3, <2>1 DEF JobHit, Quiet, Body
<1>4. CASE WorkerTake
  BY <1>4, QueueTaken DEF WorkerTake, requests
<1>5. CASE WorkerDone
  <2>1. Queued' = Queued
    BY <1>5 DEF WorkerDone, Queued
  <2> QED
    BY <1>5, <2>1 DEF WorkerDone, requests, jobState
<1>6. CASE StopsAll
  <2>1. Queued' = {} /\ Stops({})
    BY <1>6, QueueCleared DEF StopsAll
  <2>2. \A r \in Request : place'[r] = "accepted" => place[r] = "accepted"
    BY <1>6 DEF StopsAll
  <2>3. \A r \in Request : event[r] # "none" \/ r \in Queued => event'[r] # "none"
    BY <2>1, StopsEvents
  <2> QED
    BY <2>1, <2>2, <2>3 DEF Stops
<1>7. ASSUME NEW r \in Request, Interrupts(r) PROVE EndInv'
  <2>1. Queued' = {r} /\ Stops({r})
    BY <1>7, QueueReplaced DEF Interrupts
  <2>2. \A q \in Request : place'[q] = "accepted" => q = r \/ place[q] = "accepted"
    BY <1>7 DEF Interrupts
  <2>3. \A q \in Request : event[q] # "none" \/ q \in Queued => event'[q] # "none"
    BY <2>1, StopsEvents
  <2> QED
    BY <2>1, <2>2, <2>3 DEF Stops
<1>8. ASSUME NEW r \in Request, Enqueues(r) PROVE EndInv'
  <2>1. \A q \in Request : place'[q] = "accepted" => place[q] = "accepted" \/ (q = r /\ r \in Queued')
    BY <1>8, QueueJoined DEF Enqueues
  <2>2. Queued \subseteq Queued'
    <3>1. queue' = Append(queue, r) \/ UNCHANGED queue
      BY <1>8 DEF Enqueues
    <3>2. CASE queue' = Append(queue, r)
      BY <3>2, QueueJoined
    <3>3. CASE UNCHANGED queue
      BY <3>3 DEF Queued
    <3> QED
      BY <3>1, <3>2, <3>3
  <2>3. UNCHANGED <<event, cur, jpc, struck, overtaken>> /\ r \in fresh
    BY <1>8 DEF Enqueues
  <2> HIDE DEF JobInv
  <2> QED
    BY <2>1, <2>2, <2>3
<1>9. ASSUME NEW r \in Request, Prepares(r) PROVE EndInv'
  <2>1. Queued' = Queued
    BY <1>9 DEF Prepares, Queued
  <2>2. \A q \in Request : place'[q] = "accepted" => place[q] = "accepted"
    BY <1>9 DEF Prepares, Mode
  <2> QED
    BY <1>9, <2>1, <2>2 DEF Prepares
<1> QED
  BY <1>1, <1>2, <1>3, <1>4, <1>5, <1>6, <1>7, <1>8, <1>9, StepKinds

LEMMA StopInvStep ==
  ASSUME [Next]_vars, JobInv, StopInv
  PROVE  StopInv'
<1> USE NoneAssumption DEF StopInv, JobInv, Preparing, Mode
<1>1. CASE JobMoves
  <2>1. Queued' = Queued
    BY <1>1 DEF JobMoves, Quiet, Queued
  <2> QED
    BY <1>1, <2>1 DEF JobMoves, Quiet, Body
<1>2. CASE JobStops
  <2>1. Queued' = {}
    BY <1>2, QueueCleared DEF JobStops, ClearQueue
  <2> QED
    BY <1>2, <2>1 DEF JobStops, Body
<1>3. CASE JobHit
  <2>1. Queued' = Queued
    BY <1>3 DEF JobHit, Quiet, Queued
  <2> QED
    BY <1>3, <2>1 DEF JobHit, Quiet, Body
<1>4. CASE WorkerTake
  <2>1. Queued = Queued' \cup {cur'}
    BY <1>4, QueueTaken DEF WorkerTake
  <2> QED
    BY <1>4, <2>1 DEF WorkerTake, requests
<1>5. CASE WorkerDone
  <2>1. Queued' = Queued
    BY <1>5 DEF WorkerDone, Queued
  <2> QED
    BY <1>5, <2>1 DEF WorkerDone, requests, jobState, Body
<1>6. CASE StopsAll
  <2>1. Queued' = {} /\ Stops({})
    BY <1>6, QueueCleared DEF StopsAll
  <2>2. \A r \in Request : place[r] # "new" => place'[r] # "new"
    BY <1>6 DEF StopsAll
  <2>3. cur # None => place'[cur] = "accepted"
    BY <1>6 DEF StopsAll
  <2>4. jpc' \in Body => (cancelling' => hit') /\ (cur' \in overtaken' => hit')
    BY <2>1 DEF Stops, Running, Body
  <2> QED
    BY <2>1, <2>2, <2>3, <2>4 DEF Stops
<1>7. ASSUME NEW r \in Request, Interrupts(r) PROVE StopInv'
  <2>1. Queued' = {r} /\ Stops({r}) /\ r \notin overtaken /\ r # cur
    BY <1>7, QueueReplaced DEF Interrupts
  <2>2. \A q \in Request : place[q] # "new" => place'[q] # "new"
    BY <1>7 DEF Interrupts
  <2>3. cur # None => place'[cur] = place[cur]
    BY <1>7, <2>1 DEF Interrupts
  <2>4. jpc' \in Body => (cancelling' => hit') /\ (cur' \in overtaken' => hit')
    BY <2>1 DEF Stops, Running, Body
  <2>5. /\ fresh' = {} /\ r \notin overtaken' /\ cur' = cur /\ place'[r] = "accepted"
        /\ overtaken' \subseteq overtaken \cup {q \in Request : place[q] # "new"}
    BY <2>1, <1>7 DEF Stops, Interrupts
  <2> QED
    BY <2>1, <2>2, <2>3, <2>4, <2>5
<1>8. ASSUME NEW r \in Request, Enqueues(r) PROVE StopInv'
  <2>1. r # cur /\ r \notin Queued /\ r \notin overtaken
    BY <1>8 DEF Enqueues
  <2>2. \A q \in Request : place'[q] = place[q] \/ (q = r /\ place'[q] \in {"accepted", "rejected"})
    BY <1>8 DEF Enqueues
  <2>3. \A q \in Queued' : q \in Queued \/ (q = r /\ place'[r] = "accepted")
    BY <1>8, QueueJoined DEF Enqueues, Queued
  <2> QED
    BY <1>8, <2>1, <2>2, <2>3 DEF Enqueues
<1>9. ASSUME NEW r \in Request, Prepares(r) PROVE StopInv'
  <2>1. Queued' = Queued /\ r # cur
    BY <1>9 DEF Prepares, Queued
  <2>2. \A q \in Request : place'[q] = place[q] \/ (q = r /\ place'[q] # "new")
    BY <1>9 DEF Prepares
  <2>3. place[r] = "new" => r \notin overtaken
    OBVIOUS
  <2> QED
    BY <1>9, <2>1, <2>2, <2>3 DEF Prepares
<1> QED
  BY <1>1, <1>2, <1>3, <1>4, <1>5, <1>6, <1>7, <1>8, <1>9, StepKinds

LEMMA FeedInvStep ==
  ASSUME [Next]_vars, JobInv, FeedInv
  PROVE  FeedInv'
<1> USE DEF FeedInv, Producing
<1>1. ASSUME NEW u \in {"job", "producer"}, EngineStep(u) PROVE FeedInv'
  <2>1. /\ UNCHANGED chunks
        /\ \/ UNCHANGED <<jpc, ppc>>
           \/ jpc' \in {"start", "done"}
           \/ ppc' \in {"wait", "fail"} /\ UNCHANGED jpc
    BY <1>1 DEF EngineStep, Ensure, Retired, Spawn, Boot, Aborted, Loading, Loaded, LoadFailed,
       Stay, EngineUnchanged
  <2> QED
    BY <2>1
<1>2. ASSUME NEW u \in Unloader, UnloadStep(u) PROVE FeedInv'
  <2>1. UNCHANGED <<chunks, ppc>> /\ (UNCHANGED jpc \/ jpc' = "drain")
    BY <1>2 DEF UnloadStep, UnloadLocked, UnloadBegins, UnloadEnds, Unloaded, Depart, producer
  <2> QED
    BY <2>1
<1>3. CASE ProduceNext \/ SendSegment \/ ReadAnswer \/ ProducerCancelled
  <2>1. UNCHANGED <<chunks, jpc>> /\ (jpc = "reap" \/ ppc' \in {"close", "wait", "load", "fail", "read", "put"})
    BY <1>3 DEF ProduceNext, SendSegment, ReadAnswer, ProducerCancelled, ProducerUnchanged
  <2> QED
    BY <2>1
<1>4. CASE PutChunk
  <2>1. chunks' \in Seq({"pcm", "end"}) /\ ppc' = "next"
    BY <1>4 DEF PutChunk
  <2> QED
    BY <2>1
<1>5. CASE Finish
  <2>1. chunks' = Append(chunks, "end")
    BY <1>5 DEF Finish
  <2>2. chunks' # <<>> /\ chunks'[Len(chunks')] = "end" /\ chunks' \in Seq({"pcm", "end"})
    BY <2>1
  <2> QED
    BY <2>2
<1>6. CASE Consume
  <2>1. chunks # <<>> /\ chunks' = Tail(chunks) /\ UNCHANGED ppc /\ jpc = "consume"
    BY <1>6 DEF Consume
  <2>2. chunks' \in Seq({"pcm", "end"})
    BY <2>1, HeadAndTail
  <2>3. CASE jpc' = "join"
    BY <2>2, <2>3
  <2>4. CASE Producing
    BY <2>1, <2>2, <2>4
  <2>5. CASE ~Producing /\ jpc' # "join"
    <3>1. Head(chunks) = "pcm" /\ chunks[Len(chunks)] = "end"
      BY <1>6, <2>1, <2>5 DEF Consume
    <3>2. Len(chunks') = Len(chunks) - 1 /\ Len(chunks) \in Nat \ {0} /\ Head(chunks) = chunks[1]
      BY <2>1, HeadAndTail
    <3>3. Len(chunks) # 1
      BY <3>1, <3>2
    <3>4. chunks'[Len(chunks')] = chunks[Len(chunks') + 1]
      BY <2>1, <3>2, <3>3, HeadAndTail
    <3> QED
      BY <2>2, <3>1, <3>2, <3>3, <3>4
  <2> QED
    BY <2>3, <2>4, <2>5
<1>7. CASE JobStart \/ JobStarted \/ Feed \/ Join \/ Drain \/ Reaped \/ Quit \/ JobCancelled
  <2>1. /\ UNCHANGED chunks
        /\ \/ jpc' = "consume" /\ ppc' = "next"
           \/ jpc' = "consume" /\ jpc = "feed" /\ UNCHANGED ppc
           \/ jpc' \notin {"consume", "feed"}
    BY <1>7 DEF JobStart, JobStarted, Feed, Join, Drain, Reaped, Quit, JobCancelled, Struck, Cleanup,
       producer
  <2> QED
    BY <2>1
<1>8. CASE WorkerTake \/ WorkerDone
  <2>1. jpc' \notin {"consume", "feed"} /\ (chunks' = chunks \/ chunks' = <<>>)
    BY <1>8 DEF WorkerTake, WorkerDone, producer
  <2>2. <<>> \in Seq({"pcm", "end"})
    OBVIOUS
  <2> QED
    BY <2>1, <2>2
<1>9. CASE ProcessStep \/ TickerUnload \/ ClientStep \/ ControlStep \/ ClosingStep
           \/ ShutdownRequested \/ IdleExit \/ Rest \/ UNCHANGED vars
  <2>1. UNCHANGED <<chunks, jpc, ppc>>
    BY <1>9 DEF ProcessStep, TickerUnload, ClientStep, Arrive, Refuse, Accept, ControlStep, Stop,
     Unload, Gathered, Reload, CommandUnchanged, ClosingStep, BeginShutdown, DrainTimeout,
     EngineShutdown, Closed, ShutdownRequested, IdleExit, Rest, vars, producer
  <2> QED
    BY <2>1
<1> QED
  BY <1>1, <1>2, <1>3, <1>4, <1>5, <1>6, <1>7, <1>8, <1>9 DEF Next, JobStep, ProducerStep

-----------------------------------------------------------------------------
(* The theorems about requests, jobs and the player.                         *)

LEMMA InitInv == Init => IInv
<1> SUFFICES ASSUME Init PROVE IInv
  OBVIOUS
<1>1. Queued = {}
  BY DEF Init, Queued
<1>2. JobInv
  BY NoneAssumption DEF Init, JobInv, Unloader
<1>3. EndInv /\ StopInv
  BY <1>1 DEF Init, EndInv, EndReported, Left, StopInv, Body
<1>4. FeedInv
  BY DEF Init, FeedInv
<1> QED
  BY <1>2, <1>3, <1>4 DEF IInv

LEMMA NextInv == IInv /\ [Next]_vars => IInv'
BY JobInvStep, EndInvStep, StopInvStep, FeedInvStep DEF IInv

THEOREM Invariance == Spec => []IInv
BY InitInv, NextInv, PTL DEF Spec

\* Every job that has left the daemon was answered, or its task was hit where
\* run_job sends nothing.
THEOREM EveryEndIsReported == Spec => []EndReported
<1>1. IInv => EndReported
  BY DEF IInv, EndInv
<1> QED
  BY <1>1, Invariance, PTL

\* The consumer of a job never waits for a chunk that its producer will not put.
THEOREM ConsumerFed == Spec => []ConsumerIsFed
<1>1. IInv => ConsumerIsFed
  BY DEF IInv, FeedInv, ConsumerIsFed
<1> QED
  BY <1>1, Invariance, PTL

\* Nothing of what a stop found in the daemon is given to the player afterwards.
LEMMA SilentStep ==
  ASSUME IInv, [Next]_vars, jpc = "consume", jpc' = "feed"
  PROVE  cur \notin overtaken
BY StepKinds DEF IInv, StopInv, JobMoves, JobStops, JobHit, WorkerTake, WorkerDone, StopsAll, Stops,
   Interrupts, Enqueues, Prepares, Body

THEOREM SilentAfterStop == Spec => StoppedIsSilent
<1>1. IInv /\ [Next]_vars => [jpc = "consume" /\ jpc' = "feed" => cur \notin overtaken]_vars
  BY SilentStep
<1> QED
  BY <1>1, Invariance, PTL DEF Spec, StoppedIsSilent

-----------------------------------------------------------------------------
(* The queue of a lock.                                                      *)

Waiter == Unloader \cup {"producer"}

\* A lock's queue: every task at most once, and exactly the given ones.
Lines(q, askers) == q \in Seq(Waiter) /\ IsInjective(q) /\ ToSet(q) = askers

LEMMA Joins ==
  ASSUME NEW q, NEW A, Lines(q, A), NEW w \in Waiter \ A
  PROVE  /\ Lines(Append(q, w), A \cup {w})
         /\ \A x : Holds(q, x) => Holds(Append(q, w), x)
<1> DEFINE s == Append(q, w)
<1>1. /\ q \in Seq(Waiter) /\ s \in Seq(Waiter) /\ Len(q) \in Nat /\ Len(s) = Len(q) + 1
      /\ s[Len(q) + 1] = w /\ \A i \in 1 .. Len(q) : s[i] = q[i]
  BY DEF Lines
<1>2. DOMAIN q = 1 .. Len(q) /\ DOMAIN s = 1 .. (Len(q) + 1)
  BY <1>1
<1>3. \A i \in 1 .. Len(q) : q[i] \in A
  BY <1>2 DEF Lines, ToSet
<1>4. IsInjective(s)
  BY <1>1, <1>2, <1>3 DEF Lines, IsInjective
<1>5. ToSet(s) = A \cup {w}
  BY <1>1, <1>2, <1>3 DEF Lines, ToSet
<1>6. \A x : Holds(q, x) => Holds(s, x)
  BY <1>1 DEF Holds
<1> QED
  BY <1>1, <1>4, <1>5, <1>6 DEF Lines

LEMMA Holders ==
  ASSUME NEW q, NEW A, Lines(q, A), NEW w, Holds(q, w)
  PROVE  w \in A /\ \A x : Holds(q, x) => x = w
BY HeadAndTail DEF Holds, Lines, ToSet

LEMMA Passes ==
  ASSUME NEW q, NEW A, Lines(q, A), NEW w, Holds(q, w)
  PROVE  Lines(Tail(q), A \ {w})
<1> DEFINE s == Tail(q)
<1>1. /\ s \in Seq(Waiter) /\ Len(s) = Len(q) - 1 /\ Len(q) \in Nat \ {0}
      /\ w = q[1] /\ \A i \in 1 .. Len(s) : s[i] = q[i + 1]
  BY HeadAndTail DEF Lines, Holds
<1>2. DOMAIN q = 1 .. Len(q) /\ DOMAIN s = 1 .. Len(s)
  BY <1>1 DEF Lines
<1>3. IsInjective(s)
  BY <1>1, <1>2 DEF Lines, IsInjective
<1>4. ASSUME NEW x \in A \ {w} PROVE x \in ToSet(s)
  <2>1. PICK i \in 1 .. Len(q) : q[i] = x
    BY <1>2 DEF Lines, ToSet
  <2>2. i # 1 /\ i - 1 \in 1 .. Len(s) /\ s[i - 1] = x
    BY <1>1, <2>1
  <2> QED
    BY <1>2, <2>2 DEF ToSet
<1>5. ToSet(s) \subseteq A \ {w}
  BY <1>1, <1>2 DEF Lines, ToSet, IsInjective
<1> QED
  BY <1>1, <1>3, <1>4, <1>5 DEF Lines

LEMMA Leaves ==
  ASSUME NEW q, NEW A, Lines(q, A), NEW w
  PROVE  /\ Lines(RemoveFirst(q, w), A \ {w})
         /\ \A x : x # w /\ Holds(q, x) => Holds(RemoveFirst(q, w), x)
<1>0. q \in Seq(Waiter) /\ Len(q) \in Nat /\ DOMAIN q = 1 .. Len(q)
  BY DEF Lines
<1>1. CASE \A i \in 1 .. Len(q) : q[i] # w
  <2>1. RemoveFirst(q, w) = q /\ w \notin A
    BY <1>0, <1>1 DEF RemoveFirst, Lines, ToSet
  <2> QED
    BY <2>1 DEF Lines
<1>2. ASSUME NEW k \in 1 .. Len(q), q[k] = w
      PROVE  /\ Lines(RemoveFirst(q, w), A \ {w})
             /\ \A x : x # w /\ Holds(q, x) => Holds(RemoveFirst(q, w), x)
  <2> DEFINE I == {i \in 1 .. Len(q) : q[i] = w}
             s == SubSeq(q, 1, k - 1) \o SubSeq(q, k + 1, Len(q))
  <2>1. I = {k} /\ \A i \in 1 .. Len(q) : q[i] = w => i = k
    BY <1>0, <1>2 DEF Lines, IsInjective
  <2>2. Min(I) = k
    BY <2>1 DEF Min
  <2>3. SelectInSeq(q, LAMBDA v : v = w) = k
    BY <2>1, <2>2 DEF SelectInSeq
  <2>4. RemoveFirst(q, w) = s
    BY <1>2, <2>3 DEF RemoveFirst, RemoveAt
  <2>5. /\ SubSeq(q, 1, k - 1) \in Seq(Waiter) /\ Len(SubSeq(q, 1, k - 1)) = k - 1
        /\ \A i \in 1 .. k - 1 : SubSeq(q, 1, k - 1)[i] = q[i]
    <3>1. k - 1 \in Int /\ 1 \in Int /\ \A i \in 1 .. k - 1 : q[i] \in Waiter
      BY <1>0
    <3> QED
      BY <1>0, <3>1, SubSeqProperties
  <2>6. /\ SubSeq(q, k + 1, Len(q)) \in Seq(Waiter)
        /\ Len(SubSeq(q, k + 1, Len(q))) = Len(q) - k
        /\ \A i \in 1 .. Len(q) - k : SubSeq(q, k + 1, Len(q))[i] = q[k + i]
    <3>1. k + 1 \in Int /\ Len(q) \in Int /\ \A i \in k + 1 .. Len(q) : q[i] \in Waiter
      BY <1>0
    <3>2. /\ SubSeq(q, k + 1, Len(q)) \in Seq(Waiter)
          /\ Len(SubSeq(q, k + 1, Len(q))) = IF k + 1 <= Len(q) THEN Len(q) - (k + 1) + 1 ELSE 0
          /\ \A i \in 1 .. Len(q) - (k + 1) + 1 : SubSeq(q, k + 1, Len(q))[i] = q[k + 1 + i - 1]
      BY <3>1, SubSeqProperties
    <3>3. \A i \in 1 .. Len(q) - k : i \in 1 .. Len(q) - (k + 1) + 1 /\ k + 1 + i - 1 = k + i
      BY <1>0
    <3>4. Len(SubSeq(q, k + 1, Len(q))) = Len(q) - k
      <4>1. CASE k + 1 <= Len(q)
        <5>1. Len(q) - (k + 1) + 1 = Len(q) - k
          BY <1>0
        <5> QED
          BY <3>2, <4>1, <5>1
      <4>2. CASE ~(k + 1 <= Len(q))
        <5>1. k = Len(q)
          <6>1. k \in Nat /\ k <= Len(q) /\ Len(q) \in Nat
            BY <1>0
          <6> QED
            BY <4>2, <6>1
        <5> QED
          BY <1>0, <3>2, <4>2, <5>1
      <4> QED
        BY <4>1, <4>2
    <3> QED
      BY <3>2, <3>3, <3>4
  <2>13. /\ s \in Seq(Waiter) /\ Len(s) = Len(q) - 1
         /\ \A i \in 1 .. Len(s) : s[i] = IF i < k THEN q[i] ELSE q[i + 1]
    <3> DEFINE s1 == SubSeq(q, 1, k - 1)
               s2 == SubSeq(q, k + 1, Len(q))
    <3>1. /\ s1 \in Seq(Waiter) /\ Len(s1) = k - 1 /\ \A i \in 1 .. k - 1 : s1[i] = q[i]
          /\ s2 \in Seq(Waiter) /\ Len(s2) = Len(q) - k
          /\ \A i \in 1 .. Len(q) - k : s2[i] = q[k + i]
      BY <2>5, <2>6
    <3> HIDE DEF s1, s2
    <3>2. /\ s1 \o s2 \in Seq(Waiter) /\ Len(s1 \o s2) = Len(q) - 1
          /\ \A i \in 1 .. Len(s1 \o s2) :
               (s1 \o s2)[i] = IF i <= k - 1 THEN s1[i] ELSE s2[i - (k - 1)]
      <4>1. /\ s1 \o s2 \in Seq(Waiter) /\ Len(s1 \o s2) = Len(s1) + Len(s2)
            /\ \A i \in 1 .. Len(s1) + Len(s2) :
                 (s1 \o s2)[i] = IF i <= Len(s1) THEN s1[i] ELSE s2[i - Len(s1)]
        BY <3>1, ConcatProperties
      <4>2. Len(s1) + Len(s2) = Len(q) - 1
        BY <1>0, <3>1
      <4> QED
        BY <3>1, <4>1, <4>2
    <3>3. \A i \in 1 .. Len(q) - 1 : i >= k => i - (k - 1) \in 1 .. Len(q) - k /\ k + (i - (k - 1)) = i + 1
      BY <1>0
    <3>4. \A i \in 1 .. Len(q) - 1 :
               (s1 \o s2)[i] = IF i < k THEN q[i] ELSE q[i + 1]
      BY <1>0, <3>1, <3>2, <3>3
    <3> QED
      BY <3>2, <3>4 DEF s1, s2
  <2> HIDE DEF s
  <2>7. /\ s \in Seq(Waiter) /\ Len(s) = Len(q) - 1 /\ DOMAIN s = 1 .. Len(s)
        /\ \A i \in 1 .. Len(s) : s[i] = IF i < k THEN q[i] ELSE q[i + 1]
    BY <2>13
  <2>8. \A i \in DOMAIN s : (IF i < k THEN i ELSE i + 1) \in (1 .. Len(q)) \ {k}
    BY <1>0, <2>7
  <2>9. IsInjective(s)
    BY <1>0, <2>7, <2>8 DEF Lines, IsInjective
  <2>10. ToSet(s) \subseteq A \ {w}
    BY <1>0, <2>1, <2>7, <2>8 DEF Lines, ToSet
  <2>11. ASSUME NEW x \in A \ {w} PROVE x \in ToSet(s)
    <3>1. PICK i \in 1 .. Len(q) : q[i] = x
      BY <1>0 DEF Lines, ToSet
    <3>2. CASE i < k
      BY <1>0, <2>7, <3>1, <3>2 DEF ToSet
    <3>3. CASE i > k
      <4>1. i - 1 \in DOMAIN s /\ s[i - 1] = x
        BY <1>0, <2>7, <3>1, <3>3
      <4> QED
        BY <4>1 DEF ToSet
    <3> QED
      BY <1>2, <3>1, <3>2, <3>3
  <2>12. ASSUME NEW x, x # w, Holds(q, x) PROVE Holds(s, x)
    <3>1. q[1] = x /\ k # 1 /\ Len(q) > 1
      BY <1>0, <1>2, <2>12, HeadAndTail DEF Holds
    <3>2. s # <<>> /\ s[1] = x
      BY <1>0, <2>7, <3>1
    <3> QED
      BY <2>7, <3>2, HeadAndTail DEF Holds
  <2> QED
    BY <2>4, <2>7, <2>9, <2>10, <2>11, <2>12 DEF Lines
<1> QED
  BY <1>1, <1>2

-----------------------------------------------------------------------------
(* The two locks.                                                            *)

Locked == {"load", "io", "retire"}

\* Who asked for the load lock and for the pipe, and has not yet left it.
LoadAskers == {w \in Waiter : \/ w \in Unloader /\ upc[w] \in Locked
                              \/ w = "job" /\ jpc = "load"
                              \/ w = "producer" /\ ppc = "load"}
PipeAskers == {w \in Waiter : \/ w \in Unloader /\ upc[w] \in {"io", "retire"}
                              \/ w = "producer" /\ ppc \in {"wait", "read"}}

\* Which places of the producer and of an unload go with a place of the job, and
\* what a shutdown has emptied.
PlaceInv ==
  /\ jpc \in {"none", "created", "load", "start"} => ppc = "none"
  /\ jpc \in {"unload", "drain", "quit", "done"} => ~Producing
  /\ jpc = "unload" => upc["job"] \in Locked
  /\ upc["job"] # "gather" /\ upc["ticker"] # "gather"
  /\ left \in 0 .. Segments /\ (ppc \in {"load", "wait", "read", "put"} => left > 0)
  /\ ~Serving => queue = <<>>
  /\ phase \in {"unloading", "closed"} => cur = None

\* Everybody who asked stands in line once, and who is past a lock holds it.
LockInv ==
  /\ Lines(loadQ, LoadAskers) /\ Lines(ioQ, PipeAskers)
  /\ \A u \in Unloader : upc[u] \in {"io", "retire"} => Holds(loadQ, u)
  /\ \A u \in Unloader : upc[u] = "retire" => Holds(ioQ, u)
  /\ ppc = "read" => Holds(ioQ, "producer")
  /\ lstep # "none" => \/ Holds(loadQ, "job") /\ jpc = "load"
                       \/ Holds(loadQ, "producer") /\ ppc = "load"

\* Somebody waits for a process that was told to exit, and keeps the others out.
ExitInv ==
  "unloading" \in exiting => \/ lstep \in {"retire", "abort"}
                             \/ \E u \in Unloader : upc[u] = "retire"
                             \/ phase \in {"unloading", "closed"}

\* A process has the present configuration unless a reload is pending, and one
\* that a job waits for or uses is no older than the job.
ConfigInv ==
  /\ cfg \in Nat /\ wcfg \in Nat /\ jcfg \in Nat /\ jcfg <= cfg
  /\ worker \in {"starting", "ready"} /\ ~pending => wcfg = cfg
  /\ lstep \in {"retire", "spawn", "abort"} => worker = "none"
  /\ lstep = "boot" /\ worker = "starting" => wcfg >= jcfg
  /\ jpc \in {"start", "consume", "feed"} /\ worker = "ready" => wcfg >= jcfg

-----------------------------------------------------------------------------
(* The places of the job, its producer and the unloads.                      *)

LEMMA PlaceStep ==
  ASSUME [Next]_vars, JobInv, PlaceInv
  PROVE  PlaceInv'
<1> USE SizeAssumption, NoneAssumption DEF PlaceInv, Producing, Serving, Locked
<1>1. ASSUME NEW u \in {"job", "producer"}, EngineStep(u) PROVE PlaceInv'
  <2>1. /\ UNCHANGED <<upc, left, phase, queue, cur>>
        /\ \/ UNCHANGED <<jpc, ppc>>
           \/ jpc = "load" /\ jpc' \in {"start", "done"} /\ UNCHANGED ppc
           \/ ppc = "load" /\ ppc' \in {"wait", "fail"} /\ UNCHANGED jpc
    BY <1>1 DEF EngineStep, Ensure, Retired, Spawn, Boot, Aborted, Loading, Loaded, LoadFailed,
       Stay, EngineUnchanged, clerk, setting, current
  <2> QED
    BY <2>1 DEF JobInv
<1>2. ASSUME NEW u \in Unloader, UnloadStep(u) PROVE PlaceInv'
  <2>1. /\ UNCHANGED <<ppc, left, phase, queue, cur>>
        /\ \E s \in {"idle", "io", "retire"} :
             /\ upc' = [upc EXCEPT ![u] = s]
             /\ \/ UNCHANGED jpc /\ (u = "job" => s # "idle")
                \/ u = "job" /\ upc[u] \in Locked /\ jpc' = "drain" /\ s = "idle"
    BY <1>2 DEF UnloadStep, UnloadLocked, UnloadBegins, UnloadEnds, Unloaded, Depart, Unloads,
       producer, setting, current
  <2>2. jpc' = "drain" \/ UNCHANGED jpc
    BY <2>1
  <2>3. jpc' = "unload" => upc'["job"] \in Locked
    BY <2>1 DEF JobInv, Unloader
  <2>4. upc'["job"] # "gather" /\ upc'["ticker"] # "gather"
    BY <2>1 DEF JobInv, Unloader
  <2>5. jpc' # jpc => jpc = "unload"
    BY <2>1 DEF JobInv, Unloader
  <2> QED
    BY <2>1, <2>2, <2>3, <2>4, <2>5
<1>3. CASE ProducerStep
  <2>1. /\ UNCHANGED <<jpc, upc, phase, queue, cur>>
        /\ Producing
        /\ left' \in 0 .. Segments
        /\ ppc' \in {"load", "wait", "read", "put"} => left' = left /\ left > 0
    BY <1>3 DEF ProducerStep, ProduceNext, SendSegment, ReadAnswer, PutChunk, Finish,
       ProducerCancelled, ProducerUnchanged, clerk, setting, current
  <2> QED
    BY <2>1
<1>4. CASE JobStart \/ JobStarted \/ Consume \/ Feed \/ Drain \/ Reaped \/ Quit
  <2>1. /\ UNCHANGED <<upc, phase, cur>> /\ (queue' = queue \/ queue' = <<>>)
        /\ \/ UNCHANGED <<ppc, left>>
           \/ ppc' = "next" /\ left' = Segments /\ jpc' = "consume"
        /\ \/ jpc = "created" /\ jpc' = "load"
           \/ jpc \in {"start", "feed"} /\ jpc' = "consume"
           \/ jpc = "consume" /\ jpc' \in {"feed", "join"}
           \/ jpc \in {"start", "feed", "drain"} /\ jpc' \in {"reap", "quit"}
              /\ (Producing => jpc' = "reap") /\ UNCHANGED ppc
           \/ jpc = "reap" /\ ~Producing /\ jpc' = "quit"
           \/ jpc = "quit" /\ jpc' = "done"
    BY <1>4 DEF JobStart, JobStarted, Consume, Feed, Drain, Reaped, Quit, Cleanup, KeepQueue,
       ClearQueue, JobUnchanged, producer, clerk, setting, current
  <2> QED
    BY <2>1
<1>5. CASE Join
  <2>1. /\ jpc = "join" /\ ~Producing /\ UNCHANGED <<phase, cur, queue, ppc, left>>
        /\ \/ jpc' \in {"drain", "quit"} /\ UNCHANGED upc
           \/ jpc' = "unload" /\ upc' = [upc EXCEPT !["job"] = "load"]
    BY <1>5 DEF Join, Cleanup, AskUnload, KeepQueue, JobUnchanged, producer, setting, current
  <2> QED
    BY <2>1 DEF JobInv, Unloader
<1>6. CASE JobCancelled
  <2>1. /\ UNCHANGED <<phase, cur, queue, ppc, left>>
        /\ \/ jpc \in {"created", "quit", "load"} /\ jpc' = "done" /\ UNCHANGED upc
           \/ jpc \in {"start", "consume", "feed", "join", "drain"} /\ UNCHANGED upc
              /\ jpc' = IF Producing THEN "reap" ELSE "quit"
           \/ jpc = "unload" /\ jpc' = "quit" /\ upc' = [upc EXCEPT !["job"] = "idle"]
    BY <1>6 DEF JobCancelled, Struck, Cleanup, producer, setting, current
  <2> QED
    BY <2>1 DEF JobInv, Unloader
<1>7. CASE WorkerTake \/ WorkerDone
  <2>1. /\ UNCHANGED <<upc, phase>>
        /\ \/ cur = None /\ queue # <<>> /\ jpc' = "created" /\ UNCHANGED <<ppc, left>>
           \/ /\ jpc = "done" /\ cur' = None /\ jpc' = "none" /\ ppc' = "none" /\ left' = 0
              /\ UNCHANGED queue
    BY <1>7 DEF WorkerTake, WorkerDone, producer, clerk, setting
  <2> QED
    BY <2>1 DEF JobInv
<1>8. CASE ClientStep \/ ControlStep \/ TickerUnload
  <2>1. /\ UNCHANGED <<jpc, ppc, left, phase, cur>> /\ Serving
    BY <1>8 DEF ClientStep, Arrive, Refuse, Accept, ControlStep, Stop, Unload, Gathered, Reload,
       Command, CommandUnchanged, TickerUnload, producer, setting, current
  <2>2. \/ UNCHANGED upc
        \/ \E s \in {"gather", "load"} : upc' = [upc EXCEPT !["control"] = s]
        \/ upc' = [upc EXCEPT !["ticker"] = "load"]
    BY <1>8 DEF ClientStep, Arrive, Refuse, Accept, ControlStep, Stop, Unload, Gathered, Reload,
       CommandUnchanged, TickerUnload, AskUnload, clerk
  <2>3. upc'["job"] = upc["job"] /\ upc'["ticker"] # "gather"
    BY <2>2 DEF JobInv, Unloader
  <2> QED
    BY <2>1, <2>3
<1>9. CASE ClosingStep \/ ShutdownRequested \/ IdleExit
  <2>1. /\ UNCHANGED <<jpc, ppc, left, upc, cur>> /\ (UNCHANGED queue \/ queue' = <<>>)
        /\ \/ phase = "serving" /\ phase' = "closing"
           \/ phase' = "draining" /\ queue' = <<>>
           \/ phase = "draining" /\ phase' = "expired"
           \/ phase \in {"draining", "expired"} /\ phase' = "unloading" /\ cur = None
           \/ phase = "unloading" /\ phase' = "closed"
    BY <1>9 DEF ClosingStep, BeginShutdown, ClearQueue, DrainTimeout, EngineShutdown, Closed,
       ShutdownRequested, IdleExit, producer, clerk, current
  <2> QED
    BY <2>1
<1>10. CASE ProcessStep \/ Rest \/ UNCHANGED vars
  <2>1. UNCHANGED <<jpc, ppc, left, upc, cur, queue, phase>>
    BY <1>10 DEF ProcessStep, Rest, vars, producer, clerk, current, setting
  <2> QED
    BY <2>1
<1> QED
  BY <1>1, <1>2, <1>3, <1>4, <1>5, <1>6, <1>7, <1>8, <1>9, <1>10 DEF Next, JobStep

-----------------------------------------------------------------------------
(* Steps by what they do to the locks.                                       *)

\* Nobody asks for a lock or leaves one.
LockQuiet ==
  /\ UNCHANGED <<loadQ, ioQ, lstep>>
  /\ jpc = "load" <=> jpc' = "load"
  /\ ppc' = ppc \/ {ppc, ppc'} \cap {"load", "wait", "read"} = {}
  /\ \A u \in Unloader : upc'[u] = upc[u] \/ {upc[u], upc'[u]} \cap Locked = {}

\* The holder of the load lock takes a step within ensure_loaded, or is done.
LoadGoesOn(u) ==
  /\ Holds(loadQ, u) /\ UNCHANGED <<jpc, ppc, upc, loadQ, ioQ>>
  /\ \/ u = "job" /\ jpc = "load"
     \/ u = "producer" /\ ppc = "load"
LoadIsDone(u) ==
  /\ Holds(loadQ, u) /\ loadQ' = Tail(loadQ) /\ lstep' = "none" /\ UNCHANGED upc
  /\ \/ u = "job" /\ jpc = "load" /\ jpc' \in {"start", "done"} /\ UNCHANGED <<ppc, ioQ>>
     \/ u = "producer" /\ ppc = "load" /\ ppc' = "fail" /\ UNCHANGED <<jpc, ioQ>>
     \/ u = "producer" /\ ppc = "load" /\ ppc' = "wait" /\ ioQ' = Append(ioQ, u)
        /\ UNCHANGED jpc

\* u asks for the load lock in order to unload the engine.
UnloadAsked(u) ==
  /\ loadQ' = Append(loadQ, u) /\ upc[u] \notin Locked /\ upc' = [upc EXCEPT ![u] = "load"]
  /\ UNCHANGED <<ioQ, lstep, ppc>> /\ (jpc = "load" <=> jpc' = "load") /\ (u = "job" => jpc = "join")

\* A task that was cancelled leaves them.
Cancelled(w) ==
  /\ LeaveLocks(w)
  /\ \/ w = "job" /\ jpc = "load" /\ jpc' = "done" /\ UNCHANGED <<upc, ppc>>
     \/ w = "producer" /\ Producing /\ ppc' = "failed" /\ UNCHANGED <<upc, jpc>>
     \/ w \in Unloader /\ upc' = [upc EXCEPT ![w] = "idle"] /\ UNCHANGED ppc
        /\ jpc # "load" /\ jpc' # "load" /\ w = "job"
     \/ w \in Unloader /\ upc' = [upc EXCEPT ![w] = "idle"] /\ UNCHANGED <<ppc, jpc>> /\ w # "job"

LEMMA LockKinds ==
  ASSUME [Next]_vars, JobInv, PlaceInv
  PROVE  \/ LockQuiet \/ JobStart \/ ProduceNext \/ SendSegment \/ ReadAnswer
         \/ \E w \in Waiter : LoadGoesOn(w) \/ LoadIsDone(w) \/ Cancelled(w)
         \/ \E u \in Unloader : UnloadAsked(u) \/ UnloadLocked(u) \/ UnloadBegins(u) \/ UnloadEnds(u)
<1> USE DEF Waiter, Unloader, Locked
<1>1. ASSUME NEW u \in {"job", "producer"}, EngineStep(u) PROVE LoadGoesOn(u) \/ LoadIsDone(u)
  BY <1>1 DEF EngineStep, Ensure, Retired, Spawn, Boot, Aborted, Loading, Loaded, LoadFailed,
     Stay, EngineUnchanged, clerk, LoadGoesOn, LoadIsDone
<1>2. ASSUME NEW u \in Unloader, Depart(u) PROVE Cancelled(u)
  BY <1>2 DEF Depart, Cancelled, producer
<1>3. CASE PutChunk \/ Finish
  BY <1>3 DEF PutChunk, Finish, ProducerUnchanged, locks, clerk, LockQuiet
<1>4. CASE ProducerCancelled
  <2>1. Cancelled("producer")
    BY <1>4 DEF ProducerCancelled, ProducerUnchanged, clerk, Cancelled
  <2> QED
    BY <2>1
<1>5. CASE JobStarted \/ Consume \/ Feed \/ Drain \/ Reaped \/ Quit
  <2>1. /\ UNCHANGED <<loadQ, ioQ, lstep, upc>> /\ jpc # "load" /\ jpc' # "load"
        /\ UNCHANGED ppc \/ (jpc = "start" /\ ppc' = "next")
    BY <1>5 DEF JobStarted, Consume, Feed, Drain, Reaped, Quit, Cleanup, KeepQueue, JobUnchanged,
       producer, clerk, locks
  <2> QED
    BY <2>1 DEF LockQuiet, PlaceInv
<1>6. CASE Join
  <2>1. UnloadAsked("job") \/ LockQuiet
    BY <1>6 DEF Join, Cleanup, AskUnload, producer, UnloadAsked, LockQuiet, JobInv
  <2> QED
    BY <2>1
<1>7. CASE JobCancelled
  <2>1. Cancelled("job") \/ LockQuiet
    BY <1>7 DEF JobCancelled, Struck, Cleanup, producer, Cancelled, LockQuiet
  <2> QED
    BY <2>1
<1>8. CASE WorkerTake \/ WorkerDone
  <2>1. /\ UNCHANGED <<loadQ, ioQ, lstep, upc>> /\ jpc # "load" /\ jpc' # "load"
        /\ UNCHANGED ppc \/ (jpc = "done" /\ ppc' = "none")
    BY <1>8 DEF WorkerTake, WorkerDone, producer, locks, clerk, JobInv
  <2> QED
    BY <2>1 DEF LockQuiet, PlaceInv, Producing
<1>9. CASE ControlStep \/ TickerUnload
  <2>1. UNCHANGED <<ioQ, lstep, jpc, ppc>>
    BY <1>9 DEF ControlStep, Stop, Unload, Gathered, Reload, CommandUnchanged, TickerUnload, producer
  <2>2. \/ UNCHANGED <<upc, loadQ>>
        \/ upc["control"] = "idle" /\ upc' = [upc EXCEPT !["control"] = "gather"] /\ UNCHANGED loadQ
        \/ \E u \in {"control", "ticker"} : upc[u] \notin Locked /\ AskUnload(u)
    BY <1>9 DEF ControlStep, Stop, Unload, Gathered, Reload, CommandUnchanged, TickerUnload, clerk
  <2>3. CASE UNCHANGED <<upc, loadQ>>
    BY <2>1, <2>3 DEF LockQuiet
  <2>4. CASE upc["control"] = "idle" /\ upc' = [upc EXCEPT !["control"] = "gather"] /\ UNCHANGED loadQ
    BY <2>1, <2>4 DEF LockQuiet, JobInv
  <2>5. ASSUME NEW u \in {"control", "ticker"}, upc[u] \notin Locked, AskUnload(u)
        PROVE  UnloadAsked(u)
    BY <2>1, <2>5 DEF AskUnload, UnloadAsked
  <2> QED
    BY <2>2, <2>3, <2>4, <2>5
<1>10. CASE ClientStep \/ ClosingStep \/ ShutdownRequested \/ IdleExit \/ ProcessStep \/ Rest
            \/ UNCHANGED vars
  <2>1. UNCHANGED <<loadQ, ioQ, lstep, upc, jpc, ppc>>
    BY <1>10 DEF ClientStep, Arrive, Refuse, Accept, ClosingStep, BeginShutdown, DrainTimeout,
       EngineShutdown, Closed, ShutdownRequested, IdleExit, ProcessStep, Rest, vars, producer, locks,
       clerk
  <2> QED
    BY <2>1 DEF LockQuiet
<1> QED
  BY <1>1, <1>2, <1>3, <1>4, <1>5, <1>6, <1>7, <1>8, <1>9, <1>10 DEF Next, JobStep, ProducerStep,
     UnloadStep

\* No step lets anybody past a lock that somebody else holds.
LEMMA LockStep ==
  ASSUME [Next]_vars, JobInv, PlaceInv, LockInv
  PROVE  LockInv'
<1> USE DEF Waiter, Unloader, Locked
<1>0. /\ DOMAIN upc = Unloader
      /\ "job" \in PipeAskers => upc["job"] \in {"io", "retire"} /\ jpc = "unload"
  BY DEF JobInv, PipeAskers
<1>1. CASE LockQuiet
  <2>1. LoadAskers' = LoadAskers /\ PipeAskers' = PipeAskers
    BY <1>1 DEF LockQuiet, LoadAskers, PipeAskers
  <2>2. \A x : Holds(loadQ, x)' = Holds(loadQ, x) /\ Holds(ioQ, x)' = Holds(ioQ, x)
    BY <1>1 DEF LockQuiet, Holds
  <2>3. UNCHANGED <<loadQ, ioQ, lstep>>
    BY <1>1 DEF LockQuiet
  <2>4. \A u \in Unloader : upc'[u] \in {"io", "retire"} => upc[u] = upc'[u]
    BY <1>1 DEF LockQuiet
  <2>5. /\ ppc' = "read" => ppc = "read"
        /\ ppc = "load" => ppc' = "load"
        /\ jpc = "load" => jpc' = "load"
    BY <1>1 DEF LockQuiet
  <2> QED
    BY <2>1, <2>2, <2>3, <2>4, <2>5 DEF LockInv
<1>2. CASE JobStart
  <2>1. /\ jpc = "created" /\ jpc' = "load" /\ loadQ' = Append(loadQ, "job")
        /\ UNCHANGED <<ppc, ioQ, lstep, upc>>
    BY <1>2 DEF JobStart, producer
  <2>2. "job" \notin LoadAskers /\ LoadAskers' = LoadAskers \cup {"job"} /\ PipeAskers' = PipeAskers
    BY <2>1 DEF LoadAskers, PipeAskers, JobInv
  <2>3. Lines(loadQ', LoadAskers') /\ \A x : Holds(loadQ, x) => Holds(loadQ', x)
    BY <2>1, <2>2, Joins DEF LockInv
  <2> QED
    BY <2>1, <2>2, <2>3 DEF LockInv, Holds
<1>3. CASE ProduceNext
  <2>1. /\ ppc = "next" /\ UNCHANGED <<jpc, upc, lstep>>
        /\ \/ ppc' = "close" /\ UNCHANGED <<loadQ, ioQ>>
           \/ ppc' = "wait" /\ ioQ' = Append(ioQ, "producer") /\ UNCHANGED loadQ
           \/ ppc' = "load" /\ loadQ' = Append(loadQ, "producer") /\ UNCHANGED ioQ
    BY <1>3 DEF ProduceNext, ProducerUnchanged, clerk
  <2>2. "producer" \notin LoadAskers /\ "producer" \notin PipeAskers
    BY <2>1 DEF LoadAskers, PipeAskers
  <2>3. /\ LoadAskers' = IF ppc' = "load" THEN LoadAskers \cup {"producer"} ELSE LoadAskers
        /\ PipeAskers' = IF ppc' = "wait" THEN PipeAskers \cup {"producer"} ELSE PipeAskers
    BY <2>1 DEF LoadAskers, PipeAskers
  <2>4. Lines(loadQ', LoadAskers') /\ \A x : Holds(loadQ, x) => Holds(loadQ', x)
    <3>1. CASE ppc' = "load"
      <4>1. loadQ' = Append(loadQ, "producer") /\ LoadAskers' = LoadAskers \cup {"producer"}
        BY <2>1, <2>3, <3>1
      <4> QED
        BY <2>2, <4>1, Joins DEF LockInv
    <3>2. CASE ppc' # "load"
      BY <2>1, <2>3, <3>2 DEF LockInv
    <3> QED
      BY <3>1, <3>2
  <2>5. Lines(ioQ', PipeAskers') /\ \A x : Holds(ioQ, x) => Holds(ioQ', x)
    <3>1. CASE ppc' = "wait"
      <4>1. ioQ' = Append(ioQ, "producer") /\ PipeAskers' = PipeAskers \cup {"producer"}
        BY <2>1, <2>3, <3>1
      <4> QED
        BY <2>2, <4>1, Joins DEF LockInv
    <3>2. CASE ppc' # "wait"
      BY <2>1, <2>3, <3>2 DEF LockInv
    <3> QED
      BY <3>1, <3>2
  <2> QED
    BY <2>1, <2>4, <2>5 DEF LockInv
<1>4. CASE SendSegment \/ ReadAnswer
  <2>1. /\ Holds(ioQ, "producer") /\ UNCHANGED <<jpc, upc, loadQ, lstep>>
        /\ \/ ppc = "wait" /\ ppc' = "read" /\ UNCHANGED ioQ
           \/ ppc \in {"wait", "read"} /\ ppc' \in {"put", "fail"} /\ ioQ' = Tail(ioQ)
    BY <1>4 DEF SendSegment, ReadAnswer, ProducerUnchanged, clerk, LockInv
  <2>2. LoadAskers' = LoadAskers
    BY <2>1 DEF LoadAskers
  <2>3. PipeAskers' = IF ppc' = "read" THEN PipeAskers ELSE PipeAskers \ {"producer"}
    BY <2>1 DEF PipeAskers
  <2>4. Lines(ioQ', PipeAskers')
    <3>1. CASE ppc' = "read"
      BY <2>1, <2>3, <3>1 DEF LockInv
    <3>2. CASE ppc' # "read"
      <4>1. ioQ' = Tail(ioQ) /\ PipeAskers' = PipeAskers \ {"producer"}
        BY <2>1, <2>3, <3>2
      <4> QED
        BY <2>1, <4>1, Passes DEF LockInv
    <3> QED
      BY <3>1, <3>2
  <2>5. \A u \in Unloader : upc[u] # "retire"
    BY <2>1, Holders DEF LockInv
  <2> QED
    BY <2>1, <2>2, <2>4, <2>5 DEF LockInv, Holds
<1>5. ASSUME NEW w \in Waiter, LoadGoesOn(w) PROVE LockInv'
  <2>1. LoadAskers' = LoadAskers /\ PipeAskers' = PipeAskers
    BY <1>5 DEF LoadGoesOn, LoadAskers, PipeAskers
  <2> QED
    BY <1>5, <2>1 DEF LoadGoesOn, LockInv, Holds
<1>6. ASSUME NEW w \in Waiter, LoadIsDone(w) PROVE LockInv'
  <2>1. /\ Holds(loadQ, w) /\ loadQ' = Tail(loadQ) /\ lstep' = "none" /\ UNCHANGED upc
        /\ \/ w = "job" /\ jpc = "load" /\ jpc' # "load" /\ UNCHANGED <<ppc, ioQ>>
           \/ w = "producer" /\ ppc = "load" /\ ppc' = "fail" /\ UNCHANGED <<jpc, ioQ>>
           \/ w = "producer" /\ ppc = "load" /\ ppc' = "wait" /\ ioQ' = Append(ioQ, w)
              /\ UNCHANGED jpc
    BY <1>6 DEF LoadIsDone
  <2>2. \A u \in Unloader : upc[u] \notin {"io", "retire"}
    <3>1. w = "job" => upc["job"] \notin Locked
      BY <2>1 DEF JobInv
    <3> QED
      BY <2>1, <3>1, Holders DEF LockInv
  <2>3. LoadAskers' = LoadAskers \ {w}
    BY <2>1 DEF LoadAskers, JobInv
  <2>4. Lines(loadQ', LoadAskers')
    BY <2>1, <2>3, Passes DEF LockInv
  <2>5. Lines(ioQ', PipeAskers')
    <3>1. CASE ppc' = "wait" /\ ioQ' = Append(ioQ, "producer")
      <4>1. "producer" \notin PipeAskers /\ PipeAskers' = PipeAskers \cup {"producer"}
        BY <2>1, <3>1 DEF PipeAskers, PlaceInv
      <4> QED
        BY <3>1, <4>1, Joins DEF LockInv
    <3>2. CASE UNCHANGED ioQ
      <4>1. PipeAskers' = PipeAskers
        BY <2>1, <3>2 DEF PipeAskers
      <4> QED
        BY <3>2, <4>1 DEF LockInv
    <3> QED
      BY <2>1, <3>1, <3>2
  <2>6. ppc' # "read"
    BY <2>1 DEF PlaceInv
  <2> QED
    BY <2>1, <2>2, <2>4, <2>5, <2>6 DEF LockInv
<1>7. ASSUME NEW w \in Waiter, Cancelled(w) PROVE LockInv'
  <2>1. /\ loadQ' = RemoveFirst(loadQ, w) /\ ioQ' = RemoveFirst(ioQ, w)
        /\ lstep' = IF Holds(loadQ, w) THEN "none" ELSE lstep
    BY <1>7 DEF Cancelled, LeaveLocks
  <2>2. LoadAskers' = LoadAskers \ {w} /\ PipeAskers' = PipeAskers \ {w}
    <3>1. CASE w = "producer"
      BY <1>7, <3>1 DEF Cancelled, LoadAskers, PipeAskers
    <3>2. CASE w = "job"
      BY <1>0, <1>7, <3>2 DEF Cancelled, LoadAskers, PipeAskers, JobInv
    <3>3. CASE w \in {"control", "ticker"}
      BY <1>0, <1>7, <3>3 DEF Cancelled, LoadAskers, PipeAskers
    <3> QED
      BY <3>1, <3>2, <3>3
  <2>3. /\ Lines(loadQ', LoadAskers') /\ Lines(ioQ', PipeAskers')
        /\ \A x : x # w /\ Holds(loadQ, x) => Holds(loadQ', x)
        /\ \A x : x # w /\ Holds(ioQ, x) => Holds(ioQ', x)
    BY <2>1, <2>2, Leaves DEF LockInv
  <2>4. \A u \in Unloader : upc'[u] \in {"io", "retire"} => u # w /\ upc'[u] = upc[u]
    BY <1>0, <1>7 DEF Cancelled, JobInv
  <2>5. ppc' = "read" => ppc = "read" /\ w # "producer"
    BY <1>7 DEF Cancelled
  <2>6. /\ w # "producer" => ppc' = ppc
        /\ w # "job" => jpc' = jpc
    BY <1>7 DEF Cancelled
  <2>7. lstep' # "none" => lstep # "none" /\ ~Holds(loadQ, w)
    BY <2>1
  <2> QED
    BY <2>3, <2>4, <2>5, <2>6, <2>7 DEF LockInv
<1>8. ASSUME NEW u \in Unloader, UnloadAsked(u) PROVE LockInv'
  <2>1. /\ loadQ' = Append(loadQ, u) /\ upc[u] \notin Locked /\ upc' = [upc EXCEPT ![u] = "load"]
        /\ UNCHANGED <<ioQ, lstep, ppc>> /\ (jpc = "load" <=> jpc' = "load")
        /\ u = "job" => jpc = "join"
    BY <1>8 DEF UnloadAsked
  <2>2. u \notin LoadAskers /\ LoadAskers' = LoadAskers \cup {u} /\ PipeAskers' = PipeAskers
    BY <1>0, <2>1 DEF LoadAskers, PipeAskers
  <2>3. Lines(loadQ', LoadAskers') /\ \A x : Holds(loadQ, x) => Holds(loadQ', x)
    BY <2>1, <2>2, Joins DEF LockInv
  <2>4. \A v \in Unloader : upc'[v] \in {"io", "retire"} => upc'[v] = upc[v]
    BY <1>0, <2>1
  <2> QED
    BY <2>1, <2>2, <2>3, <2>4 DEF LockInv, Holds
<1>9. ASSUME NEW u \in Unloader, UnloadLocked(u) PROVE LockInv'
  <2>1. /\ Holds(loadQ, u) /\ upc[u] = "load" /\ upc' = [upc EXCEPT ![u] = "io"]
        /\ ioQ' = Append(ioQ, u) /\ UNCHANGED <<jpc, ppc, loadQ, lstep>>
    BY <1>9 DEF UnloadLocked, Unloads, producer
  <2>2. LoadAskers' = LoadAskers /\ u \notin PipeAskers /\ PipeAskers' = PipeAskers \cup {u}
    BY <1>0, <2>1 DEF LoadAskers, PipeAskers
  <2>3. Lines(ioQ', PipeAskers') /\ \A x : Holds(ioQ, x) => Holds(ioQ', x)
    BY <2>1, <2>2, Joins DEF LockInv
  <2>4. \A v \in Unloader : upc'[v] = IF v = u THEN "io" ELSE upc[v]
    BY <1>0, <2>1
  <2> QED
    BY <2>1, <2>2, <2>3, <2>4 DEF LockInv, Holds
<1>10. ASSUME NEW u \in Unloader, UnloadBegins(u) \/ UnloadEnds(u) PROVE LockInv'
  <2>1. /\ Holds(loadQ, u) /\ Holds(ioQ, u) /\ upc[u] \in {"io", "retire"}
        /\ UNCHANGED <<ppc, lstep>>
        /\ \/ upc' = [upc EXCEPT ![u] = "retire"] /\ UNCHANGED <<jpc, loadQ, ioQ>>
           \/ /\ upc' = [upc EXCEPT ![u] = "idle"] /\ loadQ' = Tail(loadQ) /\ ioQ' = Tail(ioQ)
              /\ jpc' = IF u = "job" THEN "drain" ELSE jpc
    BY <1>10 DEF UnloadBegins, UnloadEnds, Unloaded, Unloads, producer, LockInv
  <2>2. CASE upc' = [upc EXCEPT ![u] = "retire"] /\ UNCHANGED <<jpc, loadQ, ioQ>>
    <3>1. LoadAskers' = LoadAskers /\ PipeAskers' = PipeAskers
      BY <1>0, <2>1, <2>2 DEF LoadAskers, PipeAskers
    <3>2. \A v \in Unloader : upc'[v] = IF v = u THEN "retire" ELSE upc[v]
      BY <1>0, <2>2
    <3> QED
      BY <2>1, <2>2, <3>1, <3>2 DEF LockInv, Holds
  <2>3. CASE upc' # [upc EXCEPT ![u] = "retire"] \/ ~UNCHANGED <<jpc, loadQ, ioQ>>
    <3>1. /\ upc' = [upc EXCEPT ![u] = "idle"] /\ loadQ' = Tail(loadQ) /\ ioQ' = Tail(ioQ)
          /\ jpc' = IF u = "job" THEN "drain" ELSE jpc
      BY <2>1, <2>3
    <3>2. \A v \in Unloader : upc'[v] = IF v = u THEN "idle" ELSE upc[v]
      BY <1>0, <3>1
    <3>3. u = "job" => jpc = "unload"
      BY <2>1 DEF JobInv
    <3>4. LoadAskers' = LoadAskers \ {u} /\ PipeAskers' = PipeAskers \ {u}
      BY <2>1, <3>1, <3>2, <3>3 DEF LoadAskers, PipeAskers
    <3>5. Lines(loadQ', LoadAskers') /\ Lines(ioQ', PipeAskers')
      BY <2>1, <3>1, <3>4, Passes DEF LockInv
    <3>6. \A v \in Unloader : upc'[v] \notin {"io", "retire"}
      BY <2>1, <3>2, Holders DEF LockInv
    <3>7. ppc # "read"
      BY <2>1, Holders DEF LockInv
    <3>8. lstep = "none"
      BY <2>1, <3>3, Holders DEF LockInv
    <3> QED
      BY <2>1, <3>5, <3>6, <3>7, <3>8 DEF LockInv
  <2> QED
    BY <2>2, <2>3
<1> QED
  BY <1>1, <1>2, <1>3, <1>4, <1>5, <1>6, <1>7, <1>8, <1>9, <1>10, LockKinds

-----------------------------------------------------------------------------
(* The synthesis process.                                                    *)

\* Only ensure_loaded starts a process or completes the start of one.
LEMMA OtherSteps ==
  ASSUME [Next]_vars, JobInv, PlaceInv, LockInv,
         \A u \in {"job", "producer"} : ~EngineStep(u)
  PROVE  /\ \/ worker' = worker /\ exiting' \subseteq exiting \cup {"abandoned"}
            \/ worker' = "none"
            \/ worker \in {"starting", "ready"} /\ worker' = "dead"
         /\ lstep' = lstep \/ lstep' = "none"
         /\ UNCHANGED wcfg
         /\ (UNCHANGED <<cfg, pending>>) \/ (cfg' = cfg + 1 /\ pending')
         /\ \/ UNCHANGED jcfg
            \/ jcfg' = cfg /\ cfg' = cfg /\ lstep = "none" /\ jpc' = "created"
         /\ jpc' \in {"start", "consume", "feed"} => jpc \in {"start", "consume", "feed"}
<1> USE DEF process, current, setting, locks
<1>1. ASSUME NEW u \in Unloader, UnloadStep(u)
      PROVE  /\ \/ worker' = worker /\ exiting' \subseteq exiting \cup {"abandoned"}
                \/ worker' = "none"
             /\ lstep' = lstep \/ lstep' = "none"
             /\ UNCHANGED <<wcfg, cfg, pending, jcfg>>
             /\ jpc' = jpc \/ jpc' = "drain"
  <2>1. CASE UnloadLocked(u) \/ UnloadBegins(u) \/ UnloadEnds(u)
    BY <2>1 DEF UnloadLocked, UnloadBegins, UnloadEnds, Unloaded
  <2>2. CASE Depart(u)
    BY <2>2 DEF Depart, LeaveLocks
  <2> QED
    BY <1>1, <2>1, <2>2 DEF UnloadStep
<1>2. CASE ProduceNext \/ SendSegment \/ ReadAnswer \/ PutChunk \/ Finish
  BY <1>2 DEF ProduceNext, SendSegment, ReadAnswer, PutChunk, Finish, ProducerUnchanged
<1>3. CASE ProducerCancelled
  BY <1>3 DEF ProducerCancelled, ProducerUnchanged, LeaveLocks
<1>4. CASE JobStart \/ JobStarted \/ Consume \/ Feed \/ Join \/ Drain \/ Reaped \/ Quit
  <2>1. (worker' = worker /\ exiting' = exiting) \/ worker' = "none"
    BY <1>4 DEF JobStart, JobStarted, Consume, Feed, Join, Drain, Reaped, Quit, Cleanup, Interrupt
  <2>2. /\ UNCHANGED <<lstep, wcfg, cfg, pending, jcfg>>
        /\ jpc' \in {"start", "consume", "feed"} => jpc \in {"start", "consume", "feed"}
    BY <1>4 DEF JobStart, JobStarted, Consume, Feed, Join, Drain, Reaped, Quit, Cleanup, JobUnchanged
  <2> QED
    BY <2>1, <2>2
<1>5. CASE JobCancelled
  <2>1. /\ UNCHANGED <<wcfg, cfg, pending, jcfg>> /\ jpc' \in {"done", "reap", "quit"}
        /\ lstep' = lstep \/ lstep' = "none"
    BY <1>5 DEF JobCancelled, Struck, Cleanup, LeaveLocks
  <2>2. \/ worker' = worker /\ exiting' \subseteq exiting \cup {"abandoned"}
        \/ worker' = "none"
    BY <1>5 DEF JobCancelled, Struck, Cleanup, LeaveLocks, Interrupt
  <2> QED
    BY <2>1, <2>2
<1>6. CASE WorkerTake
  <2>1. jpc = "none" /\ ppc = "none"
    BY <1>6 DEF WorkerTake, JobInv, PlaceInv
  <2>2. lstep = "none"
    BY <2>1 DEF LockInv
  <2> QED
    BY <1>6, <2>2 DEF WorkerTake
<1>7. CASE WorkerDone
  BY <1>7 DEF WorkerDone
<1>8. CASE ClientStep \/ ControlStep \/ TickerUnload
  <2>1. (worker' = worker /\ exiting' = exiting) \/ worker' = "none"
    BY <1>8 DEF ClientStep, Arrive, Refuse, Accept, StopAll, CancelJob, Interrupt, ControlStep, Stop,
       Unload, Gathered, Reload, TickerUnload
  <2>2. /\ UNCHANGED <<lstep, wcfg, jcfg, jpc>>
        /\ (UNCHANGED <<cfg, pending>>) \/ (cfg' = cfg + 1 /\ pending')
    BY <1>8 DEF ClientStep, Arrive, Refuse, Accept, StopAll, ControlStep, Stop, Unload, Gathered,
       Reload, CommandUnchanged, TickerUnload, Command
  <2> QED
    BY <2>1, <2>2
<1>9. CASE ClosingStep \/ ShutdownRequested \/ IdleExit \/ ProcessStep \/ Rest \/ UNCHANGED vars
  <2>1. \/ worker' = worker /\ exiting' \subseteq exiting
        \/ worker' = "none"
        \/ worker \in {"starting", "ready"} /\ worker' = "dead"
    BY <1>9 DEF ClosingStep, BeginShutdown, CancelJob, Interrupt, DrainTimeout, EngineShutdown, Closed,
       ShutdownRequested, IdleExit, ProcessStep, Rest, vars
  <2>2. UNCHANGED <<lstep, wcfg, cfg, pending, jcfg, jpc>>
    BY <1>9 DEF ClosingStep, BeginShutdown, DrainTimeout, EngineShutdown, Closed, ShutdownRequested,
       IdleExit, ProcessStep, Rest, vars
  <2> QED
    BY <2>1, <2>2
<1> QED
  BY <1>1, <1>2, <1>3, <1>4, <1>5, <1>6, <1>7, <1>8, <1>9 DEF Next, JobStep, ProducerStep

\* What runs was started with the present configuration or is due to be replaced.
LEMMA ConfigStep ==
  ASSUME [Next]_vars, JobInv, PlaceInv, LockInv, ConfigInv
  PROVE  ConfigInv'
<1>1. ASSUME NEW u \in {"job", "producer"}, EngineStep(u) PROVE ConfigInv'
  <2>1. UNCHANGED <<cfg, jcfg>> /\ (jpc' = jpc \/ jpc' = "done" \/ jpc' = "start")
    BY <1>1 DEF EngineStep, Ensure, Retired, Spawn, Boot, Aborted, Loading, Loaded, LoadFailed,
       Stay, EngineUnchanged, current, setting
  <2>2. CASE Ensure(u)
    BY <2>1, <2>2 DEF Ensure, Loaded, Stay, ConfigInv
  <2>3. CASE Retired(u) \/ Aborted(u)
    BY <2>1, <2>3 DEF Retired, Aborted, LoadFailed, Stay, process, ConfigInv
  <2>4. CASE Spawn(u)
    BY <2>1, <2>4 DEF Spawn, LoadFailed, Stay, ConfigInv
  <2>5. CASE Boot(u)
    BY <2>1, <2>5 DEF Boot, Loaded, LoadFailed, Stay, ConfigInv
  <2> QED
    BY <1>1, <2>2, <2>3, <2>4, <2>5 DEF EngineStep
<1>2. ASSUME \A u \in {"job", "producer"} : ~EngineStep(u) PROVE ConfigInv'
  <2>1. worker' \in {"starting", "ready"} => worker' = worker
    BY <1>2, OtherSteps
  <2>2. worker = "none" => worker' = "none"
    BY <1>2, OtherSteps
  <2>3. /\ lstep' = lstep \/ lstep' = "none"
        /\ UNCHANGED wcfg
        /\ (UNCHANGED <<cfg, pending>>) \/ (cfg' = cfg + 1 /\ pending')
        /\ \/ UNCHANGED jcfg
           \/ jcfg' = cfg /\ cfg' = cfg /\ lstep = "none" /\ jpc' = "created"
        /\ jpc' \in {"start", "consume", "feed"} => jpc \in {"start", "consume", "feed"}
    BY <1>2, OtherSteps
  <2> QED
    BY <2>1, <2>2, <2>3 DEF ConfigInv
<1> QED
  BY <1>1, <1>2

\* Whoever leaves gives up the exit it waited for.
LEMMA ExitStep ==
  ASSUME [Next]_vars, JobInv, PlaceInv, LockInv, ExitInv
  PROVE  ExitInv'
<1> USE DEF ExitInv, process, setting, locks, clerk, Unloader
<1>0. DOMAIN upc = Unloader
  BY DEF JobInv
<1>1. ASSUME NEW u \in {"job", "producer"}, EngineStep(u) PROVE ExitInv'
  <2>1. UNCHANGED <<upc, phase>>
    BY <1>1 DEF EngineStep, Ensure, Retired, Spawn, Boot, Aborted, EngineUnchanged
  <2>2. CASE Ensure(u)
    BY <2>1, <2>2 DEF Ensure
  <2>3. CASE Retired(u) \/ Aborted(u)
    BY <2>3 DEF Retired, Aborted
  <2>4. CASE Spawn(u)
    BY <2>1, <2>4 DEF Spawn
  <2>5. CASE Boot(u)
    BY <2>1, <2>5 DEF Boot
  <2> QED
    BY <1>1, <2>2, <2>3, <2>4, <2>5 DEF EngineStep
<1>2. ASSUME NEW u \in Unloader, UnloadLocked(u) PROVE ExitInv'
  <2>1. UNCHANGED <<exiting, lstep, phase>> /\ upc[u] = "load" /\ upc' = [upc EXCEPT ![u] = "io"]
    BY <1>2 DEF UnloadLocked, Unloads
  <2> QED
    BY <1>0, <2>1
<1>3. ASSUME NEW u \in Unloader, UnloadBegins(u) PROVE ExitInv'
  <2>1. /\ UNCHANGED <<lstep, phase>> /\ upc[u] = "io"
        /\ \/ upc' = [upc EXCEPT ![u] = "retire"]
           \/ upc' = [upc EXCEPT ![u] = "idle"] /\ UNCHANGED exiting
    BY <1>3 DEF UnloadBegins, Unloads, Unloaded
  <2> QED
    BY <1>0, <2>1
<1>4. ASSUME NEW u \in Unloader, UnloadEnds(u) PROVE ExitInv'
  BY <1>4 DEF UnloadEnds
<1>5. ASSUME NEW w \in Waiter, Cancelled(w), UNCHANGED phase PROVE ExitInv'
  <2> SUFFICES ASSUME "unloading" \in exiting', phase \notin {"unloading", "closed"}
               PROVE  lstep' \in {"retire", "abort"} \/ \E u \in Unloader : upc'[u] = "retire"
    BY <1>5
  <2>1. /\ lstep' = IF Holds(loadQ, w) THEN "none" ELSE lstep
        /\ "unloading" \in exiting
        /\ Holds(loadQ, w) => lstep \notin {"retire", "abort"}
        /\ w \in Unloader /\ upc[w] = "retire" => Holds(loadQ, w) /\ lstep = "spawn"
    BY <1>5 DEF Cancelled, LeaveLocks, LockInv
  <2>2. ~(w \in Unloader /\ upc[w] = "retire")
    <3> SUFFICES ASSUME w \in Unloader, upc[w] = "retire" PROVE FALSE
      OBVIOUS
    <3>1. Holds(loadQ, w) /\ lstep = "spawn"
      BY <2>1
    <3>2. w = "job" /\ jpc = "load"
      BY <3>1, Holders DEF LockInv
    <3> QED
      BY <3>2 DEF JobInv
  <2>3. \A u \in Unloader : u # w => upc'[u] = upc[u]
    BY <1>0, <1>5 DEF Cancelled
  <2> QED
    BY <2>1, <2>2, <2>3
<1>6. CASE ProducerCancelled
  <2>1. Cancelled("producer") /\ UNCHANGED phase
    BY <1>6 DEF ProducerCancelled, ProducerUnchanged, Cancelled
  <2> QED
    BY <1>5, <2>1 DEF Waiter
<1>7. CASE JobCancelled
  <2>1. \/ Cancelled("job") /\ UNCHANGED phase
        \/ UNCHANGED <<lstep, upc, phase>> /\ ("unloading" \in exiting' => "unloading" \in exiting)
    BY <1>7 DEF JobCancelled, Struck, Cleanup, Interrupt, Cancelled, producer
  <2> QED
    BY <1>5, <2>1 DEF Waiter
<1>8. ASSUME NEW u \in Unloader, Depart(u) PROVE ExitInv'
  <2>1. Cancelled(u) /\ UNCHANGED phase
    BY <1>8 DEF Depart, Cancelled, producer
  <2> QED
    BY <1>5, <2>1 DEF Waiter
<1>9. CASE \/ ProduceNext \/ SendSegment \/ ReadAnswer \/ PutChunk \/ Finish \/ JobStart \/ JobStarted
           \/ Consume \/ Feed \/ Drain \/ Reaped \/ Quit \/ WorkerTake \/ WorkerDone \/ ClientStep
  <2>1. UNCHANGED <<lstep, upc, phase>>
    BY <1>9 DEF ProduceNext, SendSegment, ReadAnswer, PutChunk, Finish, ProducerUnchanged, JobStart,
       JobStarted, Consume, Feed, Drain, Reaped, Quit, JobUnchanged, WorkerTake, WorkerDone,
       ClientStep, Arrive, Refuse, Accept
  <2>2. "unloading" \in exiting' => "unloading" \in exiting
    BY <1>9 DEF ProduceNext, SendSegment, ReadAnswer, PutChunk, Finish, ProducerUnchanged, JobStart,
       JobStarted, Consume, Feed, Drain, Reaped, Quit, WorkerTake, WorkerDone, Cleanup, Interrupt,
       ClientStep, Arrive, Refuse, Accept, StopAll, CancelJob
  <2> QED
    BY <2>1, <2>2
<1>10. CASE Join \/ ControlStep \/ TickerUnload
  <2>1. UNCHANGED <<lstep, phase>>
    BY <1>10 DEF Join, JobUnchanged, ControlStep, Stop, Unload, Gathered, Reload, CommandUnchanged,
       TickerUnload
  <2>2. "unloading" \in exiting' => "unloading" \in exiting
    BY <1>10 DEF Join, Cleanup, Interrupt, ControlStep, Stop, StopAll, CancelJob, Unload, Gathered,
       Reload, TickerUnload
  <2>3. \/ UNCHANGED upc
        \/ \E u \in Unloader, s \in {"gather", "load"} :
             upc[u] # "retire" /\ upc' = [upc EXCEPT ![u] = s]
    BY <1>10 DEF Join, AskUnload, ControlStep, Stop, Unload, Gathered, Reload, TickerUnload, JobInv
  <2> QED
    BY <1>0, <2>1, <2>2, <2>3
<1>11. CASE ClosingStep \/ ShutdownRequested \/ IdleExit \/ ProcessStep \/ Rest \/ UNCHANGED vars
  <2>1. UNCHANGED <<lstep, upc>>
    BY <1>11 DEF ClosingStep, BeginShutdown, DrainTimeout, EngineShutdown, Closed,
       ShutdownRequested, IdleExit, ProcessStep, Rest, vars
  <2>2. /\ "unloading" \in exiting' => "unloading" \in exiting \/ phase' = "unloading"
        /\ phase \in {"unloading", "closed"} => phase' \in {"unloading", "closed"}
    BY <1>11 DEF ClosingStep, BeginShutdown, CancelJob, Interrupt, DrainTimeout, EngineShutdown,
       Closed, ShutdownRequested, IdleExit, ProcessStep, Rest, vars
  <2> QED
    BY <2>1, <2>2
<1> QED
  BY <1>1, <1>2, <1>3, <1>4, <1>6, <1>7, <1>8, <1>9, <1>10, <1>11 DEF Next, JobStep, ProducerStep,
     UnloadStep

\* A new process is started only when the old ones are gone or abandoned.
LEMMA WorkerStep ==
  ASSUME [Next]_vars, JobInv, PlaceInv, LockInv, ExitInv, OneWorker,
         exiting \subseteq {"reaped", "unloading", "abandoned"}
  PROVE  OneWorker'
<1> USE DEF OneWorker
<1>1. ASSUME NEW u \in {"job", "producer"}, EngineStep(u), ~Spawn(u) PROVE OneWorker'
  BY <1>1 DEF EngineStep, Ensure, Retired, Boot, Aborted, Stay, process
<1>2. ASSUME NEW u \in {"job", "producer"}, Spawn(u) PROVE OneWorker'
  <2>1. /\ Holds(loadQ, u) /\ lstep = "spawn" /\ "reaped" \notin exiting /\ UNCHANGED exiting
        /\ u = "job" => jpc = "load"
        /\ u = "producer" => ppc = "load"
    BY <1>2 DEF Spawn, Loading
  <2>2. phase \notin {"unloading", "closed"}
    BY <2>1 DEF JobInv, PlaceInv
  <2>3. \A v \in Unloader : upc[v] # "retire"
    <3> SUFFICES ASSUME NEW v \in Unloader, upc[v] = "retire" PROVE FALSE
      OBVIOUS
    <3>1. v = u
      BY <2>1, Holders DEF LockInv
    <3> QED
      BY <2>1, <3>1 DEF JobInv, Unloader
  <2>4. "unloading" \notin exiting
    BY <2>1, <2>2, <2>3 DEF ExitInv
  <2> QED
    BY <2>1, <2>4
<1>3. ASSUME \A u \in {"job", "producer"} : ~EngineStep(u) PROVE OneWorker'
  BY <1>3, OtherSteps
<1> QED
  BY <1>1, <1>2, <1>3

-----------------------------------------------------------------------------
(* Type correctness: what the invariants above leave open.                   *)

JobTypes ==
  /\ jpc \in {"none", "created", "load", "start", "consume", "feed", "join", "unload",
              "drain", "reap", "quit", "done"}
  /\ cancelling \in BOOLEAN /\ hit \in BOOLEAN /\ played \in BOOLEAN
  /\ fresh \subseteq Request /\ overtaken \subseteq Request /\ struck \subseteq Request

QueueTypes ==
  /\ Len(queue) <= MaxQueue /\ Len(chunks) <= Prefetch
  /\ ppc \in {"none", "next", "load", "wait", "read", "put", "close", "fail", "done", "failed"}

ProcessTypes ==
  /\ worker \in {"none", "starting", "ready", "dead"}
  /\ exiting \subseteq {"reaped", "unloading", "abandoned"}
  /\ lstep \in {"none", "retire", "spawn", "boot", "abort"}
  /\ pending \in BOOLEAN /\ ujob \in Request \cup {None}
  /\ controls \in 0 .. MaxControls
  /\ phase \in {"serving", "closing", "draining", "expired", "unloading", "closed"}

LEMMA JobTypesStep ==
  ASSUME [Next]_vars, JobInv, JobTypes
  PROVE  JobTypes'
<1> USE DEF JobTypes, requests, jobState
<1>1. ASSUME NEW u \in {"job", "producer"}, EngineStep(u) PROVE JobTypes'
  BY <1>1 DEF EngineStep, Ensure, Retired, Spawn, Boot, Aborted, Loading, Loaded, LoadFailed,
     Stay, EngineUnchanged
<1>2. ASSUME NEW u \in Unloader, UnloadStep(u) PROVE JobTypes'
  BY <1>2 DEF UnloadStep, UnloadLocked, UnloadBegins, UnloadEnds, Unloaded, Depart
<1>3. CASE ProducerStep
  BY <1>3 DEF ProducerStep, ProduceNext, SendSegment, ReadAnswer, PutChunk, Finish,
     ProducerCancelled, ProducerUnchanged
<1>4. CASE JobStart \/ JobStarted \/ Consume \/ Feed \/ Join \/ Drain \/ Reaped \/ Quit
  BY <1>4 DEF JobStart, JobStarted, Consume, Feed, Join, Drain, Reaped, Quit, Cleanup, JobUnchanged
<1>5. CASE JobCancelled
  <2>1. jpc # "none"
    BY <1>5 DEF JobCancelled, Struck
  <2>2. cur \in Request
    BY <2>1 DEF JobInv
  <2> QED
    BY <1>5, <2>2 DEF JobCancelled, Struck, Cleanup
<1>6. CASE WorkerTake \/ WorkerDone
  BY <1>6 DEF WorkerTake, WorkerDone
<1>7. CASE ClientStep
  BY <1>7 DEF ClientStep, Arrive, Refuse, Accept, StopAll, CancelJob
<1>8. CASE ControlStep \/ TickerUnload
  BY <1>8 DEF ControlStep, Stop, StopAll, CancelJob, Unload, Gathered, Reload, CommandUnchanged,
     TickerUnload
<1>9. CASE ClosingStep \/ ShutdownRequested \/ IdleExit \/ ProcessStep \/ Rest \/ UNCHANGED vars
  BY <1>9 DEF ClosingStep, BeginShutdown, CancelJob, DrainTimeout, EngineShutdown, Closed,
     ShutdownRequested, IdleExit, ProcessStep, Rest, vars
<1> QED
  BY <1>1, <1>2, <1>3, <1>4, <1>5, <1>6, <1>7, <1>8, <1>9 DEF Next, JobStep

LEMMA QueueTypesStep ==
  ASSUME [Next]_vars, JobInv, FeedInv, QueueTypes
  PROVE  QueueTypes'
<1> USE SizeAssumption DEF QueueTypes, producer
<1>0. Len(queue) \in Nat /\ Len(chunks) \in Nat /\ queue \in Seq(Request) /\ chunks \in Seq({"pcm", "end"})
  BY DEF JobInv, FeedInv
<1>1. ASSUME NEW u \in {"job", "producer"}, EngineStep(u) PROVE QueueTypes'
  BY <1>1 DEF EngineStep, Ensure, Retired, Spawn, Boot, Aborted, Loading, Loaded, LoadFailed,
     Stay, EngineUnchanged
<1>2. ASSUME NEW u \in Unloader, UnloadStep(u) PROVE QueueTypes'
  BY <1>2 DEF UnloadStep, UnloadLocked, UnloadBegins, UnloadEnds, Unloaded, Depart
<1>3. CASE ProducerStep
  <2>1. /\ UNCHANGED queue
        /\ \/ UNCHANGED chunks
           \/ Len(chunks) < Prefetch /\ \E c \in {"pcm", "end"} : chunks' = Append(chunks, c)
        /\ ppc' \in {"none", "next", "load", "wait", "read", "put", "close", "fail", "done", "failed"}
    BY <1>3 DEF ProducerStep, ProduceNext, SendSegment, ReadAnswer, PutChunk, Finish,
       ProducerCancelled, ProducerUnchanged
  <2> QED
    BY <1>0, <2>1
<1>4. CASE JobStart \/ JobStarted \/ Feed \/ Join \/ Drain \/ Reaped \/ Quit
  <2>1. /\ UNCHANGED queue \/ queue' = <<>>
        /\ UNCHANGED chunks /\ ppc' \in {ppc, "next"}
    BY <1>4 DEF JobStart, JobStarted, Feed, Join, Drain, Reaped, Quit, KeepQueue, ClearQueue
  <2> QED
    BY <2>1
<1>5. CASE Consume
  <2>1. Len(chunks') = Len(chunks) - 1 /\ UNCHANGED <<queue, ppc>>
    BY <1>0, <1>5, HeadAndTail DEF Consume, KeepQueue
  <2> QED
    BY <1>0, <2>1
<1>6. CASE JobCancelled
  BY <1>6 DEF JobCancelled
<1>7. CASE WorkerTake
  <2>1. Len(queue') = Len(queue) - 1 /\ UNCHANGED <<chunks, ppc>>
    BY <1>0, <1>7, HeadAndTail DEF WorkerTake
  <2> QED
    BY <1>0, <2>1
<1>8. CASE WorkerDone
  <2>1. queue' = queue /\ chunks' = <<>> /\ ppc' = "none"
    BY <1>8 DEF WorkerDone
  <2> QED
    BY <2>1
<1>9. CASE ClientStep
  <2>1. /\ UNCHANGED <<chunks, ppc>>
        /\ \/ UNCHANGED queue
           \/ \E r \in Request : queue' = <<r>>
           \/ Len(queue) < MaxQueue /\ \E r \in Request : queue' = Append(queue, r)
    BY <1>9 DEF ClientStep, Arrive, Refuse, Accept
  <2>2. \/ Len(queue') = Len(queue)
        \/ Len(queue') = 1
        \/ Len(queue) < MaxQueue /\ Len(queue') = Len(queue) + 1
    BY <1>0, <2>1
  <2>3. Len(queue') <= MaxQueue
    <3>1. Len(queue) \in Nat /\ MaxQueue \in Nat /\ 1 <= MaxQueue
      BY <1>0
    <3>2. Len(queue) <= MaxQueue
      OBVIOUS
    <3>3. Len(queue) < MaxQueue => Len(queue) + 1 <= MaxQueue
      BY <3>1
    <3> QED
      BY <2>2, <3>1, <3>2, <3>3
  <2> QED
    BY <2>1, <2>3
<1>10. CASE ControlStep \/ TickerUnload \/ ClosingStep \/ ShutdownRequested \/ IdleExit
            \/ ProcessStep \/ Rest \/ UNCHANGED vars
  <2>1. UNCHANGED <<chunks, ppc>> /\ (UNCHANGED queue \/ queue' = <<>>)
    BY <1>10 DEF ControlStep, Stop, Unload, Gathered, Reload, CommandUnchanged, TickerUnload,
       ClearQueue, ClosingStep, BeginShutdown, DrainTimeout, EngineShutdown, Closed,
       ShutdownRequested, IdleExit, ProcessStep, Rest, vars
  <2> QED
    BY <2>1
<1> QED
  BY <1>1, <1>2, <1>3, <1>4, <1>5, <1>6, <1>7, <1>8, <1>9, <1>10 DEF Next, JobStep

LEMMA InterruptTypes ==
  ASSUME ProcessTypes, Interrupt
  PROVE  /\ worker' \in {"none", "starting", "ready", "dead"}
         /\ exiting' \subseteq {"reaped", "unloading", "abandoned"}
BY DEF ProcessTypes, Interrupt

LEMMA ProcessTypesStep ==
  ASSUME [Next]_vars, JobInv, ProcessTypes
  PROVE  ProcessTypes'
<1> USE SizeAssumption DEF ProcessTypes, process, clerk, setting, locks
<1>1. ASSUME NEW u \in {"job", "producer"}, EngineStep(u) PROVE ProcessTypes'
  <2>1. UNCHANGED <<ujob, controls, phase>>
    BY <1>1 DEF EngineStep, Ensure, Retired, Spawn, Boot, Aborted, EngineUnchanged
  <2>2. /\ pending' \in BOOLEAN
        /\ worker' \in {"none", "starting", "ready", "dead"}
        /\ exiting' \subseteq {"reaped", "unloading", "abandoned"}
        /\ lstep' \in {"none", "retire", "spawn", "boot", "abort"}
    BY <1>1 DEF EngineStep, Ensure, Retired, Spawn, Boot, Aborted, Loaded, LoadFailed, Stay
  <2> QED
    BY <2>1, <2>2
<1>2. ASSUME NEW u \in Unloader, UnloadStep(u) PROVE ProcessTypes'
  BY <1>2 DEF UnloadStep, UnloadLocked, UnloadBegins, UnloadEnds, Unloaded, Depart, LeaveLocks
<1>3. CASE ProducerStep
  BY <1>3 DEF ProducerStep, ProduceNext, SendSegment, ReadAnswer, PutChunk, Finish,
     ProducerCancelled, ProducerUnchanged, LeaveLocks
<1>4. CASE JobStart \/ JobStarted \/ Consume \/ Feed \/ Join \/ Drain \/ Reaped \/ Quit
  <2>1. CASE JobStart \/ Consume \/ Reaped \/ Quit
    BY <2>1 DEF JobStart, Consume, Reaped, Quit, JobUnchanged
  <2>2. CASE JobStarted \/ Feed \/ Join \/ Drain
    <3>1. UNCHANGED <<pending, ujob, lstep, controls, phase>>
      BY <2>2 DEF JobStarted, Feed, Join, Drain, JobUnchanged
    <3>2. UNCHANGED <<worker, exiting>> \/ \E o \in {"error", "cancelled", "finished"} : Cleanup(o)
      BY <2>2 DEF JobStarted, Feed, Join, Drain
    <3>3. UNCHANGED <<worker, exiting>> \/ Interrupt
      BY <3>2 DEF Cleanup
    <3> QED
      BY <3>1, <3>3, InterruptTypes
  <2> QED
    BY <1>4, <2>1, <2>2
<1>5. CASE JobCancelled
  <2>1. UNCHANGED <<ujob, controls, phase>> /\ pending' \in BOOLEAN
    BY <1>5 DEF JobCancelled
  <2>2. /\ \/ UNCHANGED <<worker, exiting>>
           \/ Interrupt
           \/ UNCHANGED worker /\ LeaveLocks("job")
        /\ UNCHANGED lstep \/ LeaveLocks("job")
    BY <1>5 DEF JobCancelled, Struck, Cleanup
  <2>3. ASSUME LeaveLocks("job")
        PROVE  exiting' \subseteq exiting \cup {"abandoned"} /\ lstep' \in {"none", lstep}
    <3>1. lstep' \in {"none", lstep}
      BY <2>3 DEF LeaveLocks
    <3>2. exiting' = exiting \/ \E waited : exiting' = (exiting \ waited) \cup {"abandoned"}
      BY <2>3 DEF LeaveLocks
    <3> QED
      BY <3>1, <3>2
  <2> QED
    BY <2>1, <2>2, <2>3, InterruptTypes
<1>6. CASE WorkerTake \/ WorkerDone
  BY <1>6 DEF WorkerTake, WorkerDone
<1>7. CASE ClientStep
  <2>1. UNCHANGED <<pending, ujob, lstep, controls, phase>>
    BY <1>7 DEF ClientStep, Arrive, Refuse, Accept
  <2>2. UNCHANGED <<worker, exiting>> \/ Interrupt
    BY <1>7 DEF ClientStep, Arrive, Refuse, Accept, StopAll, CancelJob
  <2> QED
    BY <2>1, <2>2, InterruptTypes
<1>8. CASE ControlStep \/ TickerUnload
  <2>1. UNCHANGED <<lstep, phase>>
    BY <1>8 DEF ControlStep, Stop, Unload, Gathered, Reload, CommandUnchanged, TickerUnload
  <2>2. /\ pending' \in BOOLEAN
        /\ ujob' \in {ujob, cur, None}
        /\ UNCHANGED controls \/ (controls < MaxControls /\ controls' = controls + 1)
    BY <1>8 DEF ControlStep, Stop, Unload, Gathered, Reload, TickerUnload, Command
  <2>3. /\ worker' \in {"none", "starting", "ready", "dead"}
        /\ exiting' \subseteq {"reaped", "unloading", "abandoned"}
    BY <1>8 DEF ControlStep, Stop, Unload, Gathered, Reload, TickerUnload, StopAll, CancelJob, Interrupt
  <2> QED
    BY <2>1, <2>2, <2>3 DEF JobInv
<1>9. CASE ClosingStep
  <2>1. /\ UNCHANGED <<pending, ujob, lstep, controls>>
        /\ phase' \in {"draining", "expired", "unloading", "closed"}
    BY <1>9 DEF ClosingStep, BeginShutdown, DrainTimeout, EngineShutdown, Closed
  <2>2. \/ UNCHANGED <<worker, exiting>> \/ Interrupt
        \/ worker' = "none" /\ exiting' \in {exiting, exiting \cup {"unloading"}}
    BY <1>9 DEF ClosingStep, BeginShutdown, CancelJob, DrainTimeout, EngineShutdown, Closed
  <2> QED
    BY <2>1, <2>2, InterruptTypes
<1>10. CASE ShutdownRequested \/ IdleExit
  BY <1>10 DEF ShutdownRequested, IdleExit
<1>11. CASE ProcessStep
  BY <1>11 DEF ProcessStep
<1>12. CASE Rest \/ UNCHANGED vars
  BY <1>12 DEF Rest, vars
<1> QED
  BY <1>1, <1>2, <1>3, <1>4, <1>5, <1>6, <1>7, <1>8, <1>9, <1>10, <1>11, <1>12
  DEF Next, JobStep

-----------------------------------------------------------------------------
(* The theorems about the engine.                                            *)

TypeInv == JobTypes /\ QueueTypes /\ ProcessTypes
EngineInv == TypeInv /\ PlaceInv /\ LockInv /\ ExitInv /\ ConfigInv /\ OneWorker

LEMMA InitEngineInv == Init => EngineInv
<1> SUFFICES ASSUME Init PROVE EngineInv
  OBVIOUS
<1> USE SizeAssumption DEF Init
<1>1. TypeInv
  <2>1. JobTypes
    BY DEF JobTypes
  <2>2. QueueTypes
    BY DEF QueueTypes
  <2>3. ProcessTypes
    <3>1. controls \in 0 .. MaxControls
      OBVIOUS
    <3>2. /\ worker = "none" /\ exiting = {} /\ lstep = "none" /\ pending = FALSE /\ ujob = None
          /\ phase = "serving"
      OBVIOUS
    <3> QED
      BY <3>1, <3>2 DEF ProcessTypes
  <2> QED
    BY <2>1, <2>2, <2>3 DEF TypeInv
<1>2. PlaceInv
  BY DEF PlaceInv, Producing, Serving, Unloader
<1>3. LoadAskers = {} /\ PipeAskers = {}
  BY DEF LoadAskers, PipeAskers, Locked
<1>4. Lines(<<>>, {})
  BY DEF Lines, IsInjective, ToSet
<1>5. LockInv
  BY <1>3, <1>4 DEF LockInv
<1>6. ExitInv /\ ConfigInv /\ OneWorker
  BY DEF ExitInv, ConfigInv, OneWorker
<1> QED
  BY <1>1, <1>2, <1>5, <1>6 DEF EngineInv

LEMMA NextEngineInv == IInv /\ EngineInv /\ [Next]_vars => EngineInv'
<1> SUFFICES ASSUME IInv, EngineInv, [Next]_vars PROVE EngineInv'
  OBVIOUS
<1>1. TypeInv'
  BY JobTypesStep, QueueTypesStep, ProcessTypesStep DEF IInv, EngineInv, TypeInv
<1>2. OneWorker'
  BY WorkerStep DEF IInv, EngineInv, TypeInv, ProcessTypes
<1>3. PlaceInv' /\ LockInv' /\ ExitInv' /\ ConfigInv'
  BY PlaceStep, LockStep, ExitStep, ConfigStep DEF IInv, EngineInv
<1> QED
  BY <1>1, <1>2, <1>3 DEF EngineInv

THEOREM EngineInvariance == Spec => [](IInv /\ EngineInv)
BY InitInv, NextInv, InitEngineInv, NextEngineInv, PTL DEF Spec

\* Every variable stays in its range; the queues keep to their limits.
THEOREM TypeCorrect == Spec => []TypeOK
<1>1. IInv /\ EngineInv => TypeOK
  BY DEF IInv, JobInv, FeedInv, EngineInv, TypeInv, JobTypes, QueueTypes, ProcessTypes, PlaceInv,
     LockInv, Lines, Waiter, ConfigInv, TypeOK
<1> QED
  BY <1>1, EngineInvariance, PTL

\* While a synthesis process runs, the daemon waits for no older one to exit.
THEOREM OneProcess == Spec => []OneWorker
<1>1. EngineInv => OneWorker
  BY DEF EngineInv
<1> QED
  BY <1>1, EngineInvariance, PTL

\* A job that began after a reload is not spoken by a process started before it.
THEOREM FreshEngine == Spec => []FreshConfig
<1>1. EngineInv => FreshConfig
  BY DEF EngineInv, ConfigInv, FreshConfig
<1> QED
  BY <1>1, EngineInvariance, PTL
=============================================================================
