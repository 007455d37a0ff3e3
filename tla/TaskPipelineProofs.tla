------------------------- MODULE TaskPipelineProofs -------------------------
(* Proofs about TaskPipeline, for every number of tasks, every history of     *)
(* profiles, and any number of passes and faults.                            *)
EXTENDS TaskPipeline, TLAPS

\* The places at which the pipeline is with the task cur.
TaskPC == {"condition", "once", "notifying", "launch", "spawn", "running", "ended", "killing",
           "decide", "backoff", "marking"}

\* What is known at each place.
PlaceInv ==
  /\ pc # "idle" => runs > 0
  /\ pc \in TaskPC => cur \in Task
  /\ pc \in {"once", "notifying", "marking"} => plan[cur].once # "no"
  /\ pc = "notifying" => marker[cur] # None
  /\ pc = "marking" => status[cur] = "success"
  /\ pc = "resolve" => status = [t \in Task |-> "pending"]
  /\ pc \in {"resolve", "finalising"} => again = <<>>

\* A quit is remembered by the abort flag, as long as the run lasts.
QuitInv ==
  /\ quit \/ why = "cancel" \/ pc = "cancelling" => abort
  /\ \A t \in Task : reason[t] \in {"aborted", "cancelled"} => abort

\* Nobody is forgotten: a task without an outcome is still to be visited, was
\* deferred, or is the one at hand.
Elems(q) == {q[i] : i \in 1 .. Len(q)}
Waiting == Elems(queue) \cup Elems(again) \cup (IF pc \in TaskPC THEN {cur} ELSE {})
SettledInv ==
  /\ pc \in TaskPC \cup {"next", "finalising"} =>
       \A t \in Task : status[t] \in Terminal \/ t \in Waiting
  /\ pc \in {"report", "closing", "finished"} => TailIsSettled

\* The state database follows the outcomes, and exit code 0 is of a complete run.
RecordInv ==
  \A t \in Task : status[t] \in Terminal /\ t \notin unsaved => record[t] = status[t]
ExitInv == pc \in {"closing", "finished"} => SuccessIsComplete

\* Exit code 0 comes from the present attempt, and its content is in done.
CodeInv ==
  pc = "backoff" \/ (pc = "spawn" /\ attempt # 1) \/ (pc = "killing" /\ why # "cancel") =>
    rc # 0
DoneInv ==
  (pc \in {"ended", "decide"} /\ rc = 0) \/ pc = "marking" => content[cur] \in done[cur]

\* Checksums are those of this run's scripts, and markers name what ran.
ChecksumInv == \A t \in Task : checksum[t] \in {content[t], Unread}
EarnedInv == \A t \in Task : Earned(t)

\* A task that is owed a marker has it, unless the pipeline is about to write it or
\* was cancelled, which its exit code tells.
OwedInv ==
  pc \notin {"idle", "cancelling"} /\ (pc = "finished" => exit = 0) =>
    \A t \in Task : Owed(t) /\ ~(pc = "marking" /\ t = cur) =>
      marker[t] # None /\ marker[t].sum = checksum[t]

\* Between the look at the marker and the last attempt nothing marks the task, and
\* a failure that stops the run, any but one outside the execution of a task, lets no
\* task be visited: it sets the flag, or the pipeline is already settling the rest.
SettlingPC == {"erring", "cancelling", "idle"}
Stopper(t) == status[t] = "failed" /\ reason[t] # "lifecycle"
StartPC == {"launch", "spawn", "running", "ended", "killing", "decide", "backoff"}
UnmarkedInv == pc \in StartPC /\ plan[cur].once # "no" => ~Marked(cur)
StoppedInv ==
  strict /\ (\E t \in Task : Stopper(t)) =>
    pc \notin TaskPC /\ (abort \/ pc \in SettlingPC)

\* Where deferred tasks have not been looked at since: while no task of
\* this pass has run, the facts are those by which the deferred ones were put off.
LookPC == {"next", "condition", "once", "notifying", "launch"}
DeferredInv ==
  pc \in LookPC /\ ~progressed =>
    \A i \in 1 .. Len(again) : ~Met(again[i])

IInv ==
  /\ TypeOK /\ PlaceInv /\ QuitInv /\ SettledInv /\ RecordInv /\ ExitInv
  /\ CodeInv /\ DoneInv /\ ChecksumInv /\ EarnedInv /\ OwedInv /\ UnmarkedInv
  /\ StoppedInv /\ DeferredInv /\ NoMissedTask

\* No task of any profile runs as root.
Unprivileged ==
  \A h \in Histories : \A i \in 1 .. Len(h), t \in Task : ~h[i][t].root

-----------------------------------------------------------------------------
(* The steps, for each part of the invariant.                                *)

\* What the fields of the line at hand range over.
PlanFields ==
  /\ plan[cur].retry \in Nat /\ plan[cur].flips \subseteq Facts
  /\ plan[cur].once \in OnceModes

\* The profile of the run is well formed.
LEMMA PlanType ==
  ASSUME ManifestType, PlaceInv
  PROVE  /\ pc # "idle" => plan \in [Task -> TaskSpec]
         /\ pc \in TaskPC => PlanFields
<1>1. profiles \in Seq([Task -> TaskSpec])
  BY PlanAssumption DEF ManifestType
<1>2. runs > 0 => runs \in 1 .. Len(profiles)
  BY <1>1 DEF ManifestType
<1> QED
  BY <1>1, <1>2 DEF plan, PlaceInv, TaskPC, TaskSpec, PlanFields

\* Under Unprivileged the task at hand does not run as root.
LEMMA PlanUnprivileged ==
  ASSUME Unprivileged, ManifestType, PlaceInv, pc \in TaskPC
  PROVE  ~plan[cur].root
<1>1. profiles \in Seq([Task -> TaskSpec])
  BY PlanAssumption DEF ManifestType
<1>2. runs \in 1 .. Len(profiles)
  BY <1>1 DEF ManifestType, PlaceInv, TaskPC
<1> QED
  BY <1>2 DEF plan, PlaceInv, Unprivileged, ManifestType

\* A queue of tasks stays one.
LEMMA HeadTail ==
  ASSUME NEW q \in Seq(Task), q # <<>>
  PROVE  Head(q) \in Task /\ Tail(q) \in Seq(Task)
OBVIOUS

\* A visit takes the head out of the tasks waiting.
LEMMA ElemsHeadTail ==
  ASSUME NEW q \in Seq(Task), q # <<>>
  PROVE  Elems(q) = {Head(q)} \cup Elems(Tail(q))
<1>1. Len(q) \in Nat /\ Len(q) > 0 /\ Len(Tail(q)) = Len(q) - 1 /\ Head(q) = q[1]
  OBVIOUS
<1>2. \A i \in 1 .. Len(q) - 1 : Tail(q)[i] = q[i + 1]
  BY <1>1
<1>3. \A i \in 1 .. Len(q) : i = 1 \/ (i - 1 \in 1 .. Len(q) - 1 /\ q[i] = Tail(q)[i - 1])
  BY <1>1, <1>2
<1>4. Elems(q) \subseteq {Head(q)} \cup Elems(Tail(q))
  BY <1>1, <1>3 DEF Elems
<1>5. Head(q) \in Elems(q)
  BY <1>1 DEF Elems
<1>6. ASSUME NEW i \in 1 .. Len(q) - 1
      PROVE  Tail(q)[i] \in Elems(q)
  <2>1. i + 1 \in 1 .. Len(q)
    BY <1>1
  <2> QED
    BY <1>2, <2>1 DEF Elems
<1> QED
  BY <1>1, <1>4, <1>5, <1>6 DEF Elems

\* What a deferred task adds at the end of its queue.
LEMMA AppendAt ==
  ASSUME NEW q \in Seq(Task), NEW t \in Task
  PROVE  \A i \in 1 .. Len(Append(q, t)) :
           Append(q, t)[i] = t \/ (i \in 1 .. Len(q) /\ Append(q, t)[i] = q[i])
<1>1. Len(q) \in Nat /\ Len(Append(q, t)) = Len(q) + 1
  OBVIOUS
<1>2. \A i \in 1 .. Len(q) : Append(q, t)[i] = q[i]
  OBVIOUS
<1>3. Append(q, t)[Len(q) + 1] = t
  OBVIOUS
<1>4. \A i \in 1 .. Len(Append(q, t)) : i \in 1 .. Len(q) \/ i = Len(q) + 1
  BY <1>1
<1> QED
  BY <1>2, <1>3, <1>4

\* A deferred task still waits.
LEMMA ElemsAppend ==
  ASSUME NEW q \in Seq(Task), NEW t \in Task
  PROVE  Elems(Append(q, t)) = Elems(q) \cup {t}
<1>1. Len(q) \in Nat /\ Len(Append(q, t)) = Len(q) + 1
  OBVIOUS
<1>2. \A i \in 1 .. Len(q) : Append(q, t)[i] = q[i]
  OBVIOUS
<1>3. Append(q, t)[Len(q) + 1] = t
  OBVIOUS
<1> QED
  BY <1>1, <1>2, <1>3 DEF Elems

\* The end of a pass joins the two queues.
LEMMA ElemsConcat ==
  ASSUME NEW p \in Seq(Task), NEW q \in Seq(Task)
  PROVE  Elems(p \o q) = Elems(p) \cup Elems(q)
<1>1. Len(p) \in Nat /\ Len(q) \in Nat /\ Len(p \o q) = Len(p) + Len(q)
  OBVIOUS
<1>2. \A i \in 1 .. Len(p) : (p \o q)[i] = p[i]
  OBVIOUS
<1>3. \A i \in 1 .. Len(q) : (p \o q)[Len(p) + i] = q[i]
  OBVIOUS
<1>4. \A i \in 1 .. Len(p \o q) :
        \/ i \in 1 .. Len(p)
        \/ i - Len(p) \in 1 .. Len(q) /\ (p \o q)[i] = q[i - Len(p)]
  BY <1>1, <1>2, <1>3
<1>5. \A i \in 1 .. Len(q) : Len(p) + i \in 1 .. Len(p \o q)
  BY <1>1
<1>6. Elems(p \o q) \subseteq Elems(p) \cup Elems(q)
  BY <1>2, <1>4 DEF Elems
<1>7. Elems(p) \subseteq Elems(p \o q)
  <2>1. \A i \in 1 .. Len(p) : i \in 1 .. Len(p \o q)
    BY <1>1
  <2> QED
    BY <1>2, <2>1 DEF Elems
<1>8. Elems(q) \subseteq Elems(p \o q)
  BY <1>3, <1>5 DEF Elems
<1> QED
  BY <1>6, <1>7, <1>8

\* In an empty queue nobody waits.
LEMMA ElemsEmpty ==
  Elems(<<>>) = {}
BY DEF Elems

\* A run begins with every task waiting.
LEMMA ElemsWhole ==
  Elems([i \in 1 .. N |-> i]) = Task
BY PlanAssumption DEF Elems, Task

\* The first pass is a queue of tasks.
LEMMA WholeQueue ==
  [i \in 1 .. N |-> i] \in Seq(Task)
BY PlanAssumption DEF Task

\* The three answers of the once database.
LEMMA ReadMarkerCases ==
  ASSUME ReadMarker
  PROVE  \/ /\ CheckMarkerStatus(cur) = "run" /\ pc' = "launch"
            /\ UNCHANGED <<outcome, record, unsaved, progressed, faults>>
         \/ /\ CheckMarkerStatus(cur) = "skip" /\ Settle(cur, "skipped", "once") /\ Return
         \/ /\ CheckMarkerStatus(cur) = "notify_sealed" /\ pc' = "notifying"
            /\ UNCHANGED <<outcome, record, unsaved, progressed, faults>>
<1>1. CheckMarkerStatus(cur) \in {"run", "skip", "notify_sealed"}
  BY DEF CheckMarkerStatus
<1>2. CASE CheckMarkerStatus(cur) = "run"
  BY <1>2 DEF ReadMarker
<1>3. CASE CheckMarkerStatus(cur) = "skip"
  BY <1>3 DEF ReadMarker
<1>4. CASE CheckMarkerStatus(cur) = "notify_sealed"
  BY <1>4 DEF ReadMarker
<1> QED
  BY <1>1, <1>2, <1>3, <1>4

\* A settled task, recorded or not.
LEMMA SettleEffect ==
  ASSUME NEW t \in Task, NEW s \in Terminal, NEW w, Settle(t, s, w),
         record \in [Task -> Terminal \cup {None}], unsaved \subseteq Task, faults \in 0 ..
         MaxFaults
  PROVE  /\ status' = [status EXCEPT ![t] = s] /\ reason' = [reason EXCEPT ![t] = w]
         /\ record' \in [Task -> Terminal \cup {None}] /\ unsaved' \subseteq Task
         /\ faults' \in 0 .. MaxFaults
         /\ \A u \in Task : u # t => record'[u] = record[u] /\ (u \in unsaved' <=> u \in unsaved)
         /\ record'[t] = s \/ t \in unsaved'
BY BoundAssumption DEF Settle, Status, Record, RecordFails, Fault

\* A new run takes the next profile, and scripts keep a content.
LEMMA ManifestTypeStep ==
  ASSUME ManifestType, Next
  PROVE  ManifestType'
<1> USE NameAssumption DEF ManifestType, manifest
<1>1. CASE Start
  <2>1. Len(profiles) \in Nat
    <3>1. profiles \in Seq([Task -> TaskSpec])
      BY PlanAssumption
    <3> QED
      BY <3>1
  <2>2. profiles' = profiles /\ runs' = runs + 1 /\ runs < Len(profiles)
    BY <1>1 DEF Start
  <2>3. runs' \in 0 .. Len(profiles')
    BY <2>1, <2>2
  <2>4. content' \in [Task -> Contents] /\ checksum' \in [Task -> Contents \cup {Unread}]
    BY <1>1 DEF Start
  <2> QED
    BY <1>1, <2>2, <2>3, <2>4 DEF Start
<1>2. CASE Resolve
  BY <1>2 DEF Resolve
<1>3. CASE ResolveFails \/ VisitTask \/ SkipAborted \/ EndPass \/ FinalizeRemaining \/ AllFinal
  \/ EvaluateCondition \/ LifecycleError \/ ReadMarker \/ ReadMarkerFails \/ NotifySealed \/
  Launch \/ Spawn \/ SpawnFails \/ InternalError \/ Fork \/ ChildEnds \/ TimesOut \/ EndGroup \/
  KillGroup \/ BackOff \/ Retry \/ Complete \/ Fail \/ MarkSuccess \/ Report \/ Close \/
  SettleError \/ CloseError \/ CancelTail \/ CloseCancelled \/ Quit \/ Cancelled \/
  PipelineError \/ Crash
  BY <1>3 DEF ResolveFails, VisitTask, SkipAborted, Settle, Status, Record, RecordFails,
    EndPass, FinalizeRemaining, AllFinal, EvaluateCondition, LifecycleError, Return, ReadMarker,
    ReadMarkerFails, NotifySealed, Launch, Spawn, SpawnFails, InternalError, Fork, ChildEnds,
    Works, Succeeds, TimesOut, EndGroup, Survivors, KillGroup, BackOff, Retry, Complete, Fail,
    MarkSuccess, Report, Close, SettleError, CloseError, CancelTail, CloseCancelled, Quit,
    Cancelled, Awaiting, ChildUp, PipelineError, Crash
<1> QED
  BY <1>1, <1>2, <1>3 DEF Next, Step

\* What a success writes is a row of the once database.
LEMMA RowType ==
  ASSUME TypeOK, PlaceInv, PlanFields, pc = "marking"
  PROVE  [sum |-> checksum[cur], mode |-> plan[cur].once,
          notified |-> IF marker[cur] = None THEN Unread ELSE marker[cur].notified] \in Marker
<1>1. cur \in Task /\ plan[cur].once \in OnceModes \ {"no"}
  BY DEF PlaceInv, TaskPC, PlanFields
<1>2. checksum[cur] \in Contents \cup {Unread} /\ marker[cur] \in Marker \cup {None}
  BY <1>1 DEF TypeOK, ManifestType, DatabaseType
<1> DEFINE kept == IF marker[cur] = None THEN Unread ELSE marker[cur].notified
<1>3. kept \in Contents \cup {Unread}
  BY <1>2 DEF Marker
<1> HIDE DEF kept
<1>4. [sum |-> checksum[cur], mode |-> plan[cur].once, notified |-> kept] \in Marker
  BY <1>1, <1>2, <1>3 DEF Marker
<1> QED
  BY <1>4 DEF kept

\* The once database stays one.
LEMMA MarkerTypeStep ==
  ASSUME TypeOK, PlaceInv, pc \in TaskPC => PlanFields, Next
  PROVE  marker' \in [Task -> Marker \cup {None}]
<1> USE NameAssumption DEF TypeOK, DatabaseType, databases
<1>1. CASE NotifySealed
  <2>1. cur \in Task /\ marker[cur] \in Marker
    BY <1>1 DEF NotifySealed, PlaceInv, TaskPC
  <2>2. checksum[cur] \in Contents \cup {Unread}
    BY <2>1 DEF ManifestType
  <2>3. [marker[cur] EXCEPT !.notified = checksum[cur]] \in Marker
    BY <2>1, <2>2 DEF Marker
  <2>4. CASE marker' = [marker EXCEPT ![cur].notified = checksum[cur]]
    BY <2>3, <2>4
  <2>5. CASE UNCHANGED marker
    BY <2>5
  <2> QED
    BY <1>1, <2>4, <2>5 DEF NotifySealed
<1>2. CASE MarkSuccess
  <2> DEFINE row == [sum |-> checksum[cur], mode |-> plan[cur].once,
                     notified |-> IF marker[cur] = None THEN Unread ELSE marker[cur].notified]
  <2>1. row \in Marker
    BY <1>2, RowType DEF MarkSuccess, TaskPC
  <2>2. marker' = [marker EXCEPT ![cur] = row] \/ marker' = marker
    BY <1>2 DEF MarkSuccess
  <2> QED
    BY <2>1, <2>2
<1>3. CASE Start \/ Resolve \/ ResolveFails \/ VisitTask \/ SkipAborted \/ EndPass \/
  FinalizeRemaining \/ AllFinal \/ EvaluateCondition \/ LifecycleError \/ ReadMarker \/
  ReadMarkerFails \/ Launch \/ Spawn \/ SpawnFails \/ InternalError \/ Fork \/ ChildEnds \/
  TimesOut \/ EndGroup \/ KillGroup \/ BackOff \/ Retry \/ Complete \/ Fail \/ Report \/ Close
  \/ SettleError \/ CloseError \/ CancelTail \/ CloseCancelled \/ Quit \/ Cancelled \/
  PipelineError \/ Crash
  BY <1>3 DEF Start, Resolve, ResolveFails, VisitTask, SkipAborted, Settle, Status, Record,
    RecordFails, EndPass, FinalizeRemaining, AllFinal, EvaluateCondition, LifecycleError,
    Return, ReadMarker, ReadMarkerFails, Launch, Spawn, SpawnFails, InternalError, Fork,
    ChildEnds, Works, Succeeds, TimesOut, EndGroup, Survivors, KillGroup, BackOff, Retry,
    Complete, Fail, Report, Close, SettleError, CloseError, CancelTail, CloseCancelled, Quit,
    Cancelled, Awaiting, ChildUp, PipelineError, Crash
<1> QED
  BY <1>1, <1>2, <1>3 DEF Next, Step

\* The state database stays one.
LEMMA RecordTypeStep ==
  ASSUME TypeOK, PlaceInv, Next
  PROVE  record' \in [Task -> Terminal \cup {None}] /\ unsaved' \subseteq Task
<1> USE DEF TypeOK, DatabaseType, databases, Terminal, PlaceInv, TaskPC
<1>1. CASE Start
  BY <1>1 DEF Start
<1>2. CASE SkipAborted
  <2>1. Head(queue) \in Task
    BY <1>2, HeadTail DEF SkipAborted, LoopType
  <2>2. Settle(Head(queue), "skipped", "aborted")
    BY <1>2 DEF SkipAborted
  <2> QED
    BY <2>1, <2>2, SettleEffect
<1>3. CASE FinalizeRemaining
  <2>1. Head(queue) \in Task
    BY <1>3, HeadTail DEF FinalizeRemaining, LoopType
  <2>2. Settle(Head(queue), "skipped", IF abort THEN "aborted" ELSE "never met")
    BY <1>3 DEF FinalizeRemaining
  <2> QED
    BY <2>1, <2>2, SettleEffect
<1>4. CASE LifecycleError
  BY <1>4 DEF LifecycleError, Status, Return
<1>5. CASE ReadMarker
  <2>1. cur \in Task
    BY <1>5 DEF ReadMarker, PlaceInv, TaskPC
  <2>2. CASE Settle(cur, "skipped", "once")
    BY <2>1, <2>2, SettleEffect
  <2>3. CASE UNCHANGED <<record, unsaved, faults>>
    BY <2>3
  <2> QED
    BY <1>5, <2>2, <2>3, ReadMarkerCases
<1>6. CASE ReadMarkerFails
  BY <1>6 DEF ReadMarkerFails, Status, Return
<1>7. CASE NotifySealed
  BY <1>7 DEF NotifySealed, Status, Return
<1>8. CASE Launch
  <2>1. cur \in Task
    BY <1>8 DEF Launch, PlaceInv, TaskPC
  <2>2. CASE Settle(cur, "skipped", "unrunnable")
    BY <2>1, <2>2, SettleEffect
  <2>3. CASE UNCHANGED <<record, unsaved, faults>>
    BY <2>3
  <2> QED
    BY <1>8, <2>2, <2>3 DEF Launch
<1>9. CASE InternalError
  BY <1>9 DEF InternalError, Status, Return
<1>10. CASE Complete
  <2>1. cur \in Task
    BY <1>10 DEF Complete, PlaceInv, TaskPC
  <2>2. CASE Settle(cur, "success", "")
    BY <2>1, <2>2, SettleEffect
  <2>3. CASE UNCHANGED <<record, unsaved, faults>>
    BY <2>3
  <2> QED
    BY <1>10, <2>2, <2>3 DEF Complete
<1>11. CASE Fail
  <2>1. cur \in Task
    BY <1>11 DEF Fail, PlaceInv, TaskPC
  <2>2. CASE Settle(cur, "skipped", "ignored")
    BY <2>1, <2>2, SettleEffect
  <2>3. CASE Settle(cur, "failed", "failed")
    BY <2>1, <2>3, SettleEffect
  <2>4. CASE UNCHANGED <<record, unsaved, faults>>
    BY <2>4
  <2> QED
    BY <1>11, <2>2, <2>3, <2>4 DEF Fail
<1>12. CASE MarkSuccess
  BY <1>12 DEF MarkSuccess, Return
<1>13. CASE SettleError
  BY <1>13, SettleEffect DEF SettleError
<1>14. CASE CancelTail
  BY <1>14, SettleEffect DEF CancelTail
<1>15. CASE Resolve \/ ResolveFails \/ VisitTask \/ EndPass \/ AllFinal \/ EvaluateCondition \/
  Spawn \/ SpawnFails \/ Fork \/ ChildEnds \/ TimesOut \/ EndGroup \/ KillGroup \/ BackOff \/
  Retry \/ Report \/ Close \/ CloseError \/ CloseCancelled \/ Quit \/ Cancelled \/ PipelineError
  \/ Crash
  BY <1>15 DEF Resolve, ResolveFails, VisitTask, EndPass, AllFinal, EvaluateCondition, Spawn,
    SpawnFails, Fork, ChildEnds, Works, Succeeds, TimesOut, EndGroup, Survivors, KillGroup,
    BackOff, Retry, Report, Close, CloseError, CloseCancelled, Quit, Cancelled, Awaiting,
    ChildUp, PipelineError, Crash
<1> QED
  BY <1>1, <1>2, <1>3, <1>4, <1>5, <1>6, <1>7, <1>8, <1>9, <1>10, <1>11, <1>12, <1>13, <1>14,
    <1>15 DEF Next, Step

\* Statuses and reasons stay such.
LEMMA OutcomeTypeStep ==
  ASSUME TypeOK, PlaceInv, Next
  PROVE  OutcomeType'
<1> USE DEF TypeOK, LoopType, OutcomeType, outcome, Terminal, PlaceInv, TaskPC
<1>1. CASE Start
  BY <1>1 DEF Start
<1>2. CASE SkipAborted
  <2>1. Head(queue) \in Task /\ Tail(queue) \in Seq(Task)
    BY <1>2, HeadTail DEF SkipAborted, TypeOK, LoopType
  <2> QED
    BY <1>2, <2>1 DEF SkipAborted, Settle, Status
<1>3. CASE FinalizeRemaining
  <2>1. Head(queue) \in Task /\ Tail(queue) \in Seq(Task)
    BY <1>3, HeadTail DEF FinalizeRemaining, TypeOK, LoopType
  <2> QED
    BY <1>3, <2>1 DEF FinalizeRemaining, Settle, Status
<1>4. CASE LifecycleError
  BY <1>4 DEF LifecycleError, Status, Return
<1>5. CASE ReadMarker
  BY <1>5, ReadMarkerCases DEF ReadMarker, Settle, Status
<1>6. CASE ReadMarkerFails
  BY <1>6 DEF ReadMarkerFails, Status, Return
<1>7. CASE NotifySealed
  BY <1>7 DEF NotifySealed, Status, Return
<1>8. CASE Launch
  BY <1>8 DEF Launch, Settle, Status, Record, RecordFails, Return
<1>9. CASE InternalError
  BY <1>9 DEF InternalError, Status, Return
<1>10. CASE Complete
  BY <1>10 DEF Complete, Settle, Status, Record, RecordFails, Return
<1>11. CASE Fail
  BY <1>11 DEF Fail, Settle, Status, Record, RecordFails, Return
<1>12. CASE SettleError
  BY <1>12 DEF SettleError, Settle, Status, Record, RecordFails
<1>13. CASE CancelTail
  BY <1>13 DEF CancelTail, Settle, Status, Record, RecordFails
<1>14. CASE Resolve \/ ResolveFails \/ VisitTask \/ EndPass \/ AllFinal \/ EvaluateCondition \/
  Spawn \/ SpawnFails \/ Fork \/ ChildEnds \/ TimesOut \/ EndGroup \/ KillGroup \/ BackOff \/
  Retry \/ MarkSuccess \/ Report \/ Close \/ CloseError \/ CloseCancelled \/ Quit \/ Cancelled
  \/ PipelineError \/ Crash
  BY <1>14 DEF Resolve, ResolveFails, VisitTask, EndPass, AllFinal, EvaluateCondition, Spawn,
    SpawnFails, Fork, ChildEnds, Works, Succeeds, TimesOut, EndGroup, Survivors, KillGroup,
    BackOff, Retry, MarkSuccess, Return, Report, Close, CloseError, CloseCancelled, Quit,
    Cancelled, Awaiting, ChildUp, PipelineError, Crash
<1> QED
  BY <1>1, <1>2, <1>3, <1>4, <1>5, <1>6, <1>7, <1>8, <1>9, <1>10, <1>11, <1>12, <1>13, <1>14 DEF
    Next, Step

\* The loop over the tasks stays one.
LEMMA LoopTypeStep ==
  ASSUME LoopType, PlaceInv, Next
  PROVE  LoopType'
<1> USE BoundAssumption DEF LoopType, loop, PlaceInv, TaskPC
<1>1. CASE Start
  <2>1. <<>> \in Seq(Task)
    OBVIOUS
  <2>2. queue' = <<>> /\ again' = <<>> /\ cur' = 0 /\ pass' = 0 /\ progressed' = FALSE
    BY <1>1 DEF Start
  <2>3. pass' \in 0 .. MaxPasses
    BY <2>2, BoundAssumption
  <2> QED
    BY <2>1, <2>2, <2>3
<1>2. CASE Resolve
  BY <1>2, WholeQueue DEF Resolve
<1>3. CASE ResolveFails
  BY <1>3, WholeQueue DEF ResolveFails
<1>4. CASE VisitTask
  <2>1. Head(queue) \in Task /\ Tail(queue) \in Seq(Task)
    BY <1>4, HeadTail DEF VisitTask, TypeOK, LoopType
  <2> QED
    BY <1>4, <2>1 DEF VisitTask
<1>5. CASE SkipAborted
  <2>1. Head(queue) \in Task /\ Tail(queue) \in Seq(Task)
    BY <1>5, HeadTail DEF SkipAborted, TypeOK, LoopType
  <2> QED
    BY <1>5, <2>1 DEF SkipAborted
<1>6. CASE EndPass
  BY <1>6 DEF EndPass
<1>7. CASE FinalizeRemaining
  <2>1. Head(queue) \in Task /\ Tail(queue) \in Seq(Task)
    BY <1>7, HeadTail DEF FinalizeRemaining, TypeOK, LoopType
  <2> QED
    BY <1>7, <2>1 DEF FinalizeRemaining
<1>8. CASE EvaluateCondition
  BY <1>8 DEF EvaluateCondition
<1>9. CASE LifecycleError
  BY <1>9 DEF LifecycleError, Status, Return
<1>10. CASE ReadMarker
  BY <1>10, ReadMarkerCases DEF ReadMarker, Return
<1>11. CASE ReadMarkerFails
  BY <1>11 DEF ReadMarkerFails, Status, Return
<1>12. CASE NotifySealed
  BY <1>12 DEF NotifySealed, Status, Return
<1>13. CASE Launch
  BY <1>13 DEF Launch, Return
<1>14. CASE InternalError
  BY <1>14 DEF InternalError, Status, Return
<1>15. CASE Complete
  BY <1>15 DEF Complete, Return
<1>16. CASE Fail
  BY <1>16 DEF Fail, Return
<1>17. CASE MarkSuccess
  BY <1>17 DEF MarkSuccess, Return
<1>18. CASE AllFinal \/ Spawn \/ SpawnFails \/ Fork \/ ChildEnds \/ TimesOut \/ EndGroup \/
  KillGroup \/ BackOff \/ Retry \/ Report \/ Close \/ SettleError \/ CloseError \/ CancelTail \/
  CloseCancelled \/ Quit \/ Cancelled \/ PipelineError \/ Crash
  BY <1>18 DEF AllFinal, Spawn, SpawnFails, Fork, ChildEnds, Works, Succeeds, TimesOut,
    EndGroup, Survivors, KillGroup, BackOff, Retry, Report, Close, SettleError, Settle, Status,
    Record, RecordFails, CloseError, CancelTail, CloseCancelled, Quit, Cancelled, Awaiting,
    ChildUp, PipelineError, Crash
<1> QED
  BY <1>1, <1>2, <1>3, <1>4, <1>5, <1>6, <1>7, <1>8, <1>9, <1>10, <1>11, <1>12, <1>13, <1>14,
    <1>15, <1>16, <1>17, <1>18 DEF Next, Step

\* Attempts are counted.
LEMMA AttemptTypeStep ==
  ASSUME attempt \in Nat, PlaceInv, pc \in TaskPC => PlanFields, Next
  PROVE  attempt' \in Nat
<1> USE DEF child
<1>1. CASE Start
  BY <1>1 DEF Start
<1>2. CASE Launch
  BY <1>2 DEF Launch
<1>3. CASE SpawnFails
  <2>1. plan[cur].retry \in Nat
    BY <1>3 DEF SpawnFails, TaskPC, PlanFields
  <2> QED
    BY <1>3, <2>1 DEF SpawnFails
<1>4. CASE Retry
  BY <1>4 DEF Retry
<1>5. CASE Resolve \/ ResolveFails \/ VisitTask \/ SkipAborted \/ EndPass \/ FinalizeRemaining
  \/ AllFinal \/ EvaluateCondition \/ LifecycleError \/ ReadMarker \/ ReadMarkerFails \/
  NotifySealed \/ Spawn \/ InternalError \/ Fork \/ ChildEnds \/ TimesOut \/ EndGroup \/
  KillGroup \/ BackOff \/ Complete \/ Fail \/ MarkSuccess \/ Report \/ Close \/ SettleError \/
  CloseError \/ CancelTail \/ CloseCancelled \/ Quit \/ Cancelled \/ PipelineError \/ Crash
  BY <1>5 DEF Resolve, ResolveFails, VisitTask, SkipAborted, Settle, Status, Record,
    RecordFails, EndPass, FinalizeRemaining, AllFinal, EvaluateCondition, LifecycleError,
    Return, ReadMarker, ReadMarkerFails, NotifySealed, Spawn, InternalError, Fork, ChildEnds,
    Works, Succeeds, TimesOut, EndGroup, Survivors, KillGroup, BackOff, Complete, Fail,
    MarkSuccess, Report, Close, SettleError, CloseError, CancelTail, CloseCancelled, Quit,
    Cancelled, Awaiting, ChildUp, PipelineError, Crash
<1> QED
  BY <1>1, <1>2, <1>3, <1>4, <1>5 DEF Next, Step

\* The exit code and the cause of a kill.
LEMMA ExitTypeStep ==
  ASSUME rc \in {0, 1, 124}, why \in {"", "timeout", "cancel"}, Next
  PROVE  rc' \in {0, 1, 124} /\ why' \in {"", "timeout", "cancel"}
<1> USE DEF child
<1>1. CASE Start
  BY <1>1 DEF Start
<1>2. CASE Launch
  BY <1>2 DEF Launch
<1>3. CASE Spawn
  BY <1>3 DEF Spawn
<1>4. CASE SpawnFails
  BY <1>4 DEF SpawnFails
<1>5. CASE ChildEnds
  BY <1>5 DEF ChildEnds, Works, Succeeds
<1>6. CASE TimesOut
  BY <1>6 DEF TimesOut
<1>7. CASE Cancelled
  BY <1>7 DEF Cancelled, Awaiting, ChildUp
<1>8. CASE Resolve \/ ResolveFails \/ VisitTask \/ SkipAborted \/ EndPass \/ FinalizeRemaining
  \/ AllFinal \/ EvaluateCondition \/ LifecycleError \/ ReadMarker \/ ReadMarkerFails \/
  NotifySealed \/ InternalError \/ Fork \/ EndGroup \/ KillGroup \/ BackOff \/ Retry \/ Complete
  \/ Fail \/ MarkSuccess \/ Report \/ Close \/ SettleError \/ CloseError \/ CancelTail \/
  CloseCancelled \/ Quit \/ PipelineError \/ Crash
  BY <1>8 DEF Resolve, ResolveFails, VisitTask, SkipAborted, Settle, Status, Record,
    RecordFails, EndPass, FinalizeRemaining, AllFinal, EvaluateCondition, LifecycleError,
    Return, ReadMarker, ReadMarkerFails, NotifySealed, InternalError, Fork, EndGroup, Survivors,
    KillGroup, Works, Succeeds, BackOff, Retry, Complete, Fail, MarkSuccess, Report, Close,
    SettleError, CloseError, CancelTail, CloseCancelled, Quit, PipelineError, Crash
<1> QED
  BY <1>1, <1>2, <1>3, <1>4, <1>5, <1>6, <1>7, <1>8 DEF Next, Step

\* The process group of a task.
LEMMA GroupTypeStep ==
  ASSUME group \subseteq {"leader", "fork"}, Next
  PROVE  group' \subseteq {"leader", "fork"}
<1> USE DEF child
<1>1. CASE Start
  BY <1>1 DEF Start
<1>2. CASE Spawn
  BY <1>2 DEF Spawn
<1>3. CASE Fork
  BY <1>3 DEF Fork
<1>4. CASE ChildEnds
  BY <1>4 DEF ChildEnds, Works, Succeeds
<1>5. CASE EndGroup
  BY <1>5 DEF EndGroup, Survivors
<1>6. CASE KillGroup
  BY <1>6 DEF KillGroup, Works, Succeeds, Survivors
<1>7. CASE Crash
  BY <1>7 DEF Crash
<1>8. CASE Resolve \/ ResolveFails \/ VisitTask \/ SkipAborted \/ EndPass \/ FinalizeRemaining
  \/ AllFinal \/ EvaluateCondition \/ LifecycleError \/ ReadMarker \/ ReadMarkerFails \/
  NotifySealed \/ Launch \/ SpawnFails \/ InternalError \/ TimesOut \/ BackOff \/ Retry \/
  Complete \/ Fail \/ MarkSuccess \/ Report \/ Close \/ SettleError \/ CloseError \/ CancelTail
  \/ CloseCancelled \/ Quit \/ Cancelled \/ PipelineError
  BY <1>8 DEF Resolve, ResolveFails, VisitTask, SkipAborted, Settle, Status, Record,
    RecordFails, EndPass, FinalizeRemaining, AllFinal, EvaluateCondition, LifecycleError,
    Return, ReadMarker, ReadMarkerFails, NotifySealed, Launch, SpawnFails, InternalError,
    TimesOut, BackOff, Retry, Complete, Fail, MarkSuccess, Report, Close, SettleError,
    CloseError, CancelTail, CloseCancelled, Quit, Cancelled, Awaiting, ChildUp, PipelineError
<1> QED
  BY <1>1, <1>2, <1>3, <1>4, <1>5, <1>6, <1>7, <1>8 DEF Next, Step

\* What children do to the world.
LEMMA WorldTypeStep ==
  ASSUME facts \in SUBSET Facts, done \in [Task -> SUBSET Contents], content \in [Task ->
         Contents], PlaceInv, pc \in TaskPC => PlanFields, Next
  PROVE  facts' \in SUBSET Facts /\ done' \in [Task -> SUBSET Contents]
<1> USE DEF child
<1>1. CASE ChildEnds
  <2>1. cur \in Task /\ plan[cur].flips \subseteq Facts
    BY <1>1 DEF ChildEnds, PlaceInv, PlanFields, TaskPC
  <2>2. content[cur] \in Contents
    BY <2>1
  <2>3. facts' \in SUBSET Facts
    BY <1>1, <2>1 DEF ChildEnds, Works
  <2>4. done' \in [Task -> SUBSET Contents]
    BY <1>1, <2>1, <2>2 DEF ChildEnds, Succeeds
  <2> QED
    BY <2>3, <2>4
<1>2. CASE KillGroup
  <2>1. cur \in Task /\ plan[cur].flips \subseteq Facts
    BY <1>2 DEF KillGroup, PlaceInv, PlanFields, TaskPC
  <2>2. content[cur] \in Contents
    BY <2>1
  <2>3. facts' \in SUBSET Facts
    BY <1>2, <2>1 DEF KillGroup, Works
  <2>4. done' \in [Task -> SUBSET Contents]
    BY <1>2, <2>1, <2>2 DEF KillGroup, Succeeds
  <2> QED
    BY <2>3, <2>4
<1>3. CASE Start \/ Resolve \/ ResolveFails \/ VisitTask \/ SkipAborted \/ EndPass \/
  FinalizeRemaining \/ AllFinal \/ EvaluateCondition \/ LifecycleError \/ ReadMarker \/
  ReadMarkerFails \/ NotifySealed \/ Launch \/ Spawn \/ SpawnFails \/ InternalError \/ Fork \/
  TimesOut \/ EndGroup \/ BackOff \/ Retry \/ Complete \/ Fail \/ MarkSuccess \/ Report \/ Close
  \/ SettleError \/ CloseError \/ CancelTail \/ CloseCancelled \/ Quit \/ Cancelled \/
  PipelineError \/ Crash
  BY <1>3 DEF Start, Resolve, ResolveFails, VisitTask, SkipAborted, Settle, Status, Record,
    RecordFails, EndPass, FinalizeRemaining, AllFinal, EvaluateCondition, LifecycleError,
    Return, ReadMarker, ReadMarkerFails, NotifySealed, Launch, Spawn, SpawnFails, InternalError,
    Fork, TimesOut, EndGroup, Survivors, BackOff, Retry, Complete, Fail, MarkSuccess, Report,
    Close, SettleError, CloseError, CancelTail, CloseCancelled, Quit, Cancelled, Awaiting,
    ChildUp, PipelineError, Crash
<1> QED
  BY <1>1, <1>2, <1>3 DEF Next, Step

\* No more faults than allowed.
LEMMA FaultsTypeStep ==
  ASSUME TypeOK, PlaceInv, Next
  PROVE  faults' \in 0 .. MaxFaults
<1> USE BoundAssumption DEF TypeOK, DatabaseType, Terminal
<1>1. CASE Resolve
  BY <1>1 DEF Resolve, Fault
<1>2. CASE ResolveFails
  BY <1>2 DEF ResolveFails, Fault
<1>3. CASE SkipAborted
  <2>1. Head(queue) \in Task
    BY <1>3, HeadTail DEF SkipAborted, LoopType
  <2>2. Settle(Head(queue), "skipped", "aborted")
    BY <1>3 DEF SkipAborted
  <2> QED
    BY <2>1, <2>2, SettleEffect
<1>4. CASE FinalizeRemaining
  <2>1. Head(queue) \in Task
    BY <1>4, HeadTail DEF FinalizeRemaining, LoopType
  <2>2. Settle(Head(queue), "skipped", IF abort THEN "aborted" ELSE "never met")
    BY <1>4 DEF FinalizeRemaining
  <2> QED
    BY <2>1, <2>2, SettleEffect
<1>5. CASE LifecycleError
  BY <1>5 DEF LifecycleError, Fault
<1>6. CASE ReadMarker
  <2>1. cur \in Task
    BY <1>6 DEF ReadMarker, PlaceInv, TaskPC
  <2>2. CASE Settle(cur, "skipped", "once")
    BY <2>1, <2>2, SettleEffect
  <2>3. CASE UNCHANGED <<record, unsaved, faults>>
    BY <2>3
  <2> QED
    BY <1>6, <2>2, <2>3, ReadMarkerCases
<1>7. CASE ReadMarkerFails
  BY <1>7 DEF ReadMarkerFails, Fault
<1>8. CASE NotifySealed
  BY <1>8 DEF NotifySealed, Fault
<1>9. CASE Launch
  <2>1. cur \in Task
    BY <1>9 DEF Launch, PlaceInv, TaskPC
  <2>2. CASE Settle(cur, "skipped", "unrunnable")
    BY <2>1, <2>2, SettleEffect
  <2>3. CASE UNCHANGED <<record, unsaved, faults>>
    BY <2>3
  <2> QED
    BY <1>9, <2>2, <2>3 DEF Launch
<1>10. CASE SpawnFails
  BY <1>10 DEF SpawnFails, Fault
<1>11. CASE InternalError
  BY <1>11 DEF InternalError, Fault
<1>12. CASE Complete
  <2>1. cur \in Task
    BY <1>12 DEF Complete, PlaceInv, TaskPC
  <2>2. CASE Settle(cur, "success", "")
    BY <2>1, <2>2, SettleEffect
  <2>3. CASE UNCHANGED <<record, unsaved, faults>>
    BY <2>3
  <2> QED
    BY <1>12, <2>2, <2>3 DEF Complete
<1>13. CASE Fail
  <2>1. cur \in Task
    BY <1>13 DEF Fail, PlaceInv, TaskPC
  <2>2. CASE Settle(cur, "skipped", "ignored")
    BY <2>1, <2>2, SettleEffect
  <2>3. CASE Settle(cur, "failed", "failed")
    BY <2>1, <2>3, SettleEffect
  <2>4. CASE UNCHANGED <<record, unsaved, faults>>
    BY <2>4
  <2> QED
    BY <1>13, <2>2, <2>3, <2>4 DEF Fail
<1>14. CASE MarkSuccess
  BY <1>14 DEF MarkSuccess, Fault
<1>15. CASE SettleError
  BY <1>15, SettleEffect DEF SettleError
<1>16. CASE CancelTail
  BY <1>16, SettleEffect DEF CancelTail
<1>17. CASE PipelineError
  BY <1>17 DEF PipelineError, Fault
<1>18. CASE Crash
  BY <1>18 DEF Crash, Fault
<1>19. CASE Start \/ VisitTask \/ EndPass \/ AllFinal \/ EvaluateCondition \/ Spawn \/ Fork \/
  ChildEnds \/ TimesOut \/ EndGroup \/ KillGroup \/ BackOff \/ Retry \/ Report \/ Close \/
  CloseError \/ CloseCancelled \/ Quit \/ Cancelled
  BY <1>19 DEF Start, VisitTask, EndPass, AllFinal, EvaluateCondition, Spawn, Fork, ChildEnds,
    Works, Succeeds, TimesOut, EndGroup, Survivors, KillGroup, BackOff, Retry, Report, Close,
    CloseError, CloseCancelled, Quit, Cancelled, Awaiting, ChildUp
<1> QED
  BY <1>1, <1>2, <1>3, <1>4, <1>5, <1>6, <1>7, <1>8, <1>9, <1>10, <1>11, <1>12, <1>13, <1>14,
    <1>15, <1>16, <1>17, <1>18, <1>19 DEF Next, Step

\* The places of the pipeline.
LEMMA PlaceTypeStep ==
  ASSUME PlaceType, Next
  PROVE  PlaceType'
<1> USE DEF PlaceType
<1>1. CASE ReadMarker
  BY <1>1, ReadMarkerCases DEF Return
<1>2. CASE Launch
  BY <1>2 DEF Launch, Return
<1>3. CASE Complete
  BY <1>3 DEF Complete, Return
<1>4. CASE Fail
  BY <1>4 DEF Fail, Return
<1>5. CASE Start \/ Resolve \/ ResolveFails \/ VisitTask \/ SkipAborted \/ EndPass \/
  FinalizeRemaining \/ AllFinal \/ EvaluateCondition \/ LifecycleError \/ ReadMarkerFails \/
  NotifySealed \/ Spawn \/ SpawnFails \/ InternalError \/ Fork \/ ChildEnds \/ TimesOut \/
  EndGroup \/ KillGroup \/ BackOff \/ Retry \/ MarkSuccess \/ Report \/ Close \/ SettleError \/
  CloseError \/ CancelTail \/ CloseCancelled \/ Quit \/ Cancelled \/ PipelineError \/ Crash
  BY <1>5 DEF Start, Resolve, ResolveFails, VisitTask, SkipAborted, Settle, Status, Record,
    RecordFails, EndPass, FinalizeRemaining, AllFinal, EvaluateCondition, LifecycleError,
    Return, ReadMarkerFails, NotifySealed, Spawn, SpawnFails, InternalError, Fork, ChildEnds,
    Works, Succeeds, TimesOut, EndGroup, Survivors, KillGroup, BackOff, Retry, MarkSuccess,
    Report, Close, SettleError, CloseError, CancelTail, CloseCancelled, Quit, Cancelled,
    Awaiting, ChildUp, PipelineError, Crash
<1> QED
  BY <1>1, <1>2, <1>3, <1>4, <1>5 DEF Next, Step

\* The flags and the exit code of the updater.
LEMMA EndingTypeStep ==
  ASSUME EndingType, Next
  PROVE  EndingType'
<1> USE DEF EndingType, ending
<1>1. CASE Start
  BY <1>1 DEF Start
<1>2. CASE ResolveFails
  BY <1>2 DEF ResolveFails
<1>3. CASE InternalError
  BY <1>3 DEF InternalError
<1>4. CASE Fail
  BY <1>4 DEF Fail
<1>5. CASE Report
  BY <1>5 DEF Report
<1>6. CASE CloseError
  BY <1>6 DEF CloseError
<1>7. CASE CloseCancelled
  BY <1>7 DEF CloseCancelled
<1>8. CASE Quit
  BY <1>8 DEF Quit
<1>9. CASE Cancelled
  BY <1>9 DEF Cancelled, Awaiting, ChildUp
<1>10. CASE Resolve \/ VisitTask \/ SkipAborted \/ EndPass \/ FinalizeRemaining \/ AllFinal
  BY <1>10 DEF Resolve, VisitTask, SkipAborted, EndPass, FinalizeRemaining, AllFinal
<1>11. CASE EvaluateCondition \/ LifecycleError \/ ReadMarker \/ ReadMarkerFails \/ NotifySealed
  BY <1>11 DEF EvaluateCondition, LifecycleError, ReadMarker, ReadMarkerFails, NotifySealed
<1>12. CASE Launch \/ Spawn \/ SpawnFails \/ Fork \/ ChildEnds \/ TimesOut \/ EndGroup \/ KillGroup
  BY <1>12 DEF Launch, Spawn, SpawnFails, Fork, ChildEnds, TimesOut, EndGroup, KillGroup
<1>13. CASE BackOff \/ Retry \/ Complete \/ MarkSuccess \/ Close \/ SettleError \/ CancelTail
  BY <1>13 DEF BackOff, Retry, Complete, MarkSuccess, Close, SettleError, CancelTail
<1>14. CASE PipelineError \/ Crash
  BY <1>14 DEF PipelineError, Crash
<1> QED
  BY <1>1, <1>2, <1>3, <1>4, <1>5, <1>6, <1>7, <1>8, <1>9, <1>10, <1>11, <1>12, <1>13, <1>14
  DEF Next, Step

\* What is known at each place, kept by every step.
LEMMA PlaceStep ==
  ASSUME TypeOK, PlaceInv, Next
  PROVE  PlaceInv'
<1> USE DEF PlaceInv, TaskPC, plan, manifest, databases, outcome, loop
<1>1. CASE Start
  <2>1. runs \in Nat
    BY DEF TypeOK, ManifestType
  <2>2. runs' = runs + 1
    BY <1>1 DEF Start
  <2>3. runs' > 0
    BY <2>1, <2>2
  <2> QED
    BY <1>1, <2>3 DEF Start
<1>2. CASE Resolve
  BY <1>2 DEF Resolve
<1>3. CASE ResolveFails
  BY <1>3 DEF ResolveFails
<1>4. CASE VisitTask
  <2>1. Head(queue) \in Task /\ Tail(queue) \in Seq(Task)
    BY <1>4, HeadTail DEF VisitTask, TypeOK, LoopType
  <2> QED
    BY <1>4, <2>1 DEF VisitTask
<1>5. CASE SkipAborted
  <2>1. Head(queue) \in Task /\ Tail(queue) \in Seq(Task)
    BY <1>5, HeadTail DEF SkipAborted, TypeOK, LoopType
  <2> QED
    BY <1>5, <2>1 DEF SkipAborted, Settle, Status, Record, RecordFails
<1>6. CASE EndPass
  BY <1>6 DEF EndPass
<1>7. CASE FinalizeRemaining
  <2>1. Head(queue) \in Task /\ Tail(queue) \in Seq(Task)
    BY <1>7, HeadTail DEF FinalizeRemaining, TypeOK, LoopType
  <2> QED
    BY <1>7, <2>1 DEF FinalizeRemaining, Settle, Status, Record, RecordFails
<1>8. CASE EvaluateCondition
  BY <1>8 DEF EvaluateCondition
<1>9. CASE LifecycleError
  BY <1>9 DEF LifecycleError, Status, Return
<1>10. CASE ReadMarker
  <2>1. CheckMarkerStatus(cur) = "notify_sealed" => marker[cur] # None
    BY DEF CheckMarkerStatus
  <2> QED
    BY <1>10, <2>1, ReadMarkerCases DEF ReadMarker, Settle, Status, Return
<1>11. CASE ReadMarkerFails
  BY <1>11 DEF ReadMarkerFails, Status, Return
<1>12. CASE NotifySealed
  BY <1>12 DEF NotifySealed, Status, Return
<1>13. CASE Launch
  BY <1>13 DEF Launch, Settle, Status, Record, RecordFails, Return
<1>14. CASE InternalError
  BY <1>14 DEF InternalError, Status, Return
<1>15. CASE Complete
  BY <1>15 DEF Complete, Settle, Status, Return, TypeOK, OutcomeType
<1>16. CASE Fail
  BY <1>16 DEF Fail, Settle, Status, Record, RecordFails, Return
<1>17. CASE MarkSuccess
  BY <1>17 DEF MarkSuccess, Return
<1>18. CASE SettleError
  BY <1>18 DEF SettleError, Settle, Status, Record, RecordFails
<1>19. CASE CancelTail
  BY <1>19 DEF CancelTail, Settle, Status, Record, RecordFails
<1>20. CASE AllFinal \/ Spawn \/ SpawnFails \/ Fork \/ ChildEnds \/ TimesOut \/ EndGroup \/
  KillGroup \/ BackOff \/ Retry \/ Report \/ Close \/ CloseError \/ CloseCancelled \/ Quit \/
  Cancelled \/ PipelineError \/ Crash
  BY <1>20 DEF AllFinal, Spawn, SpawnFails, Fork, ChildEnds, Works, Succeeds, TimesOut,
    EndGroup, Survivors, KillGroup, BackOff, Retry, Report, Close, CloseError, CloseCancelled,
    Quit, Cancelled, Awaiting, ChildUp, PipelineError, Crash
<1> QED
  BY <1>1, <1>2, <1>3, <1>4, <1>5, <1>6, <1>7, <1>8, <1>9, <1>10, <1>11, <1>12, <1>13, <1>14,
    <1>15, <1>16, <1>17, <1>18, <1>19, <1>20 DEF Next, Step

\* A quit is remembered: abort is never taken back in a run.
LEMMA QuitStep ==
  ASSUME TypeOK, PlaceInv, QuitInv, Next
  PROVE  QuitInv'
<1> USE DEF QuitInv, TypeOK, OutcomeType, outcome, child, ending, Terminal
<1>1. CASE Start
  BY <1>1 DEF Start
<1>2. CASE ResolveFails
  BY <1>2 DEF ResolveFails
<1>3. CASE SkipAborted
  <2>1. Head(queue) \in Task /\ Tail(queue) \in Seq(Task)
    BY <1>3, HeadTail DEF SkipAborted, TypeOK, LoopType
  <2> QED
    BY <1>3, <2>1 DEF SkipAborted, Settle, Status, Record, RecordFails
<1>4. CASE FinalizeRemaining
  <2>1. Head(queue) \in Task /\ Tail(queue) \in Seq(Task)
    BY <1>4, HeadTail DEF FinalizeRemaining, TypeOK, LoopType
  <2> QED
    BY <1>4, <2>1 DEF FinalizeRemaining, Settle, Status, Record, RecordFails
<1>5. CASE LifecycleError
  BY <1>5 DEF LifecycleError, Status, Return
<1>6. CASE ReadMarker
  BY <1>6, ReadMarkerCases DEF ReadMarker, Settle, Status, Return, PlaceInv, TaskPC
<1>7. CASE ReadMarkerFails
  BY <1>7 DEF ReadMarkerFails, Status, Return
<1>8. CASE NotifySealed
  BY <1>8 DEF NotifySealed, Status, Return
<1>9. CASE Launch
  BY <1>9 DEF Launch, Settle, Status, Record, RecordFails, Return
<1>10. CASE InternalError
  BY <1>10 DEF InternalError, Status, Return
<1>11. CASE TimesOut
  BY <1>11 DEF TimesOut
<1>12. CASE KillGroup
  BY <1>12 DEF KillGroup, Works, Succeeds, Survivors
<1>13. CASE Complete
  BY <1>13 DEF Complete, Settle, Status, Record, RecordFails, Return
<1>14. CASE Fail
  BY <1>14 DEF Fail, Settle, Status, Record, RecordFails, Return
<1>15. CASE Report
  BY <1>15 DEF Report
<1>16. CASE SettleError
  BY <1>16 DEF SettleError, Settle, Status, Record, RecordFails
<1>17. CASE CloseError
  BY <1>17 DEF CloseError
<1>18. CASE CancelTail
  BY <1>18 DEF CancelTail, Settle, Status, Record, RecordFails
<1>19. CASE CloseCancelled
  BY <1>19 DEF CloseCancelled
<1>20. CASE Quit
  BY <1>20 DEF Quit
<1>21. CASE Cancelled
  BY <1>21 DEF Cancelled, Awaiting, ChildUp
<1>22. CASE PipelineError
  BY <1>22 DEF PipelineError
<1>23. CASE Crash
  BY <1>23 DEF Crash
<1>24. CASE Resolve \/ VisitTask \/ EndPass \/ AllFinal \/ EvaluateCondition \/ Spawn \/
  SpawnFails \/ Fork \/ ChildEnds \/ EndGroup \/ BackOff \/ Retry \/ MarkSuccess \/ Close
  <2>1. UNCHANGED <<reason, abort, quit, why>> /\ (pc' = "cancelling" => pc = "cancelling")
    BY <1>24 DEF Resolve, VisitTask, EndPass, AllFinal, EvaluateCondition, Spawn, SpawnFails,
      Fork, ChildEnds, Works, Succeeds, EndGroup, Survivors, BackOff, Retry, MarkSuccess,
      Return, Close
  <2> QED
    BY <2>1
<1> QED
  BY <1>1, <1>2, <1>3, <1>4, <1>5, <1>6, <1>7, <1>8, <1>9, <1>10, <1>11, <1>12, <1>13, <1>14,
    <1>15, <1>16, <1>17, <1>18, <1>19, <1>20, <1>21, <1>22, <1>23, <1>24 DEF Next, Step

\* No task is lost between the queues.
LEMMA SettledStep ==
  ASSUME TypeOK, PlaceInv, SettledInv, Next
  PROVE  SettledInv'
<1> USE DEF SettledInv, TailIsSettled, Waiting, TypeOK, OutcomeType, outcome, loop, Terminal,
  TaskPC
<1>1. CASE Start
  BY <1>1 DEF Start
<1>2. CASE Resolve
  <2>1. Elems(queue') = Task /\ pc' = "next"
    BY <1>2, ElemsWhole DEF Resolve
  <2> QED
    BY <2>1
<1>3. CASE ResolveFails
  <2>1. Elems(queue') = Task /\ pc' = "finalising"
    BY <1>3, ElemsWhole DEF ResolveFails
  <2> QED
    BY <2>1
<1>4. CASE VisitTask
  <2>1. Head(queue) \in Task /\ Elems(queue) = {Head(queue)} \cup Elems(queue')
    BY <1>4, HeadTail, ElemsHeadTail DEF VisitTask, TypeOK, LoopType
  <2> QED
    BY <1>4, <2>1 DEF VisitTask
<1>5. CASE SkipAborted
  <2>1. Head(queue) \in Task /\ Elems(queue) = {Head(queue)} \cup Elems(queue')
    BY <1>5, HeadTail, ElemsHeadTail DEF SkipAborted, TypeOK, LoopType
  <2> QED
    BY <1>5, <2>1 DEF SkipAborted, Settle, Status, Record, RecordFails
<1>6. CASE EndPass
  <2>1. Elems(queue') = Elems(again) \cup Elems(queue)
    BY <1>6, ElemsConcat DEF EndPass, LoopType
  <2>2. pc = "next" /\ pc' \in {"next", "finalising"} /\ UNCHANGED status
    BY <1>6 DEF EndPass
  <2> QED
    BY <2>1, <2>2
<1>7. CASE FinalizeRemaining
  <2>1. Head(queue) \in Task /\ Elems(queue) = {Head(queue)} \cup Elems(queue')
    BY <1>7, HeadTail, ElemsHeadTail DEF FinalizeRemaining, TypeOK, LoopType
  <2> QED
    BY <1>7, <2>1 DEF FinalizeRemaining, Settle, Status, Record, RecordFails
<1>8. CASE AllFinal
  <2>1. Elems(queue) = {} /\ Elems(again) = {}
    BY <1>8, ElemsEmpty DEF AllFinal, PlaceInv
  <2> QED
    BY <1>8, <2>1 DEF AllFinal
<1>9. CASE EvaluateCondition
  <2>1. cur \in Task /\ pc = "condition" /\ UNCHANGED <<status, queue, cur>>
    BY <1>9 DEF EvaluateCondition, PlaceInv
  <2>2. CASE again' = Append(again, cur)
    BY <1>9, <2>1, <2>2, ElemsAppend DEF LoopType, EvaluateCondition
  <2>3. CASE pc' \in {"launch", "once"} /\ UNCHANGED again
    BY <2>1, <2>3
  <2> QED
    BY <1>9, <2>2, <2>3 DEF EvaluateCondition
<1>10. CASE LifecycleError
  BY <1>10 DEF LifecycleError, Settle, Status, Return, PlaceInv
<1>11. CASE ReadMarker
  BY <1>11, ReadMarkerCases DEF ReadMarker, Settle, Status, Return, PlaceInv
<1>12. CASE ReadMarkerFails
  BY <1>12 DEF ReadMarkerFails, Settle, Status, Return, PlaceInv
<1>13. CASE NotifySealed
  BY <1>13 DEF NotifySealed, Settle, Status, Return, PlaceInv
<1>14. CASE Launch
  <2>1. UNCHANGED <<queue, again, cur>> /\ pc = "launch" /\ cur \in Task
    BY <1>14 DEF Launch, PlaceInv
  <2>2. \/ status' = [status EXCEPT ![cur] = "skipped"] /\ pc' = "next"
        \/ status' = [status EXCEPT ![cur] = "running"] /\ pc' = "spawn"
    BY <1>14 DEF Launch, Settle, Status, Return
  <2> QED
    BY <2>1, <2>2
<1>15. CASE InternalError
  BY <1>15 DEF InternalError, Settle, Status, Return, PlaceInv
<1>16. CASE Complete
  BY <1>16 DEF Complete, Settle, Status, Return, PlaceInv
<1>17. CASE Fail
  <2>1. cur \in Task /\ pc' = "next" /\ UNCHANGED <<queue, again>>
    BY <1>17 DEF Fail, Return, PlaceInv
  <2>2. \E s \in Terminal : status' = [status EXCEPT ![cur] = s]
    BY <1>17 DEF Fail, Settle, Status
  <2> QED
    BY <1>17, <2>1, <2>2 DEF Fail
<1>18. CASE MarkSuccess
  BY <1>18 DEF MarkSuccess, Return, PlaceInv
<1>19. CASE Close
  BY <1>19 DEF Close
<1>20. CASE SettleError
  BY <1>20 DEF SettleError, Settle, Status, Record, RecordFails
<1>21. CASE CloseError
  BY <1>21 DEF CloseError, Unsettled
<1>22. CASE CancelTail
  BY <1>22 DEF CancelTail, Settle, Status, Record, RecordFails
<1>23. CASE CloseCancelled
  BY <1>23 DEF CloseCancelled, Unsettled
<1>24. CASE Spawn \/ SpawnFails \/ Fork \/ ChildEnds \/ TimesOut \/ EndGroup \/ KillGroup \/
  BackOff \/ Retry \/ Report \/ Quit \/ Cancelled \/ PipelineError \/ Crash
  BY <1>24 DEF Spawn, SpawnFails, Fork, ChildEnds, Works, Succeeds, TimesOut, EndGroup,
    Survivors, KillGroup, BackOff, Retry, Report, Quit, Cancelled, Awaiting, ChildUp,
    PipelineError, Crash
<1> QED
  BY <1>1, <1>2, <1>3, <1>4, <1>5, <1>6, <1>7, <1>8, <1>9, <1>10, <1>11, <1>12, <1>13, <1>14,
    <1>15, <1>16, <1>17, <1>18, <1>19, <1>20, <1>21, <1>22, <1>23, <1>24 DEF Next, Step

\* An outcome that is settled is recorded or noted as unsaved.
LEMMA SettleRecorded ==
  ASSUME TypeOK, RecordInv, NEW t \in Task, NEW s \in Terminal, NEW w, Settle(t, s, w)
  PROVE  RecordInv'
<1>1. /\ status \in [Task -> Terminal \cup {"pending", "running"}]
      /\ record \in [Task -> Terminal \cup {None}] /\ unsaved \subseteq Task
      /\ faults \in 0 .. MaxFaults
  BY DEF TypeOK, OutcomeType, DatabaseType, EndingType, Terminal
<1>2. /\ status' = [status EXCEPT ![t] = s]
      /\ record'[t] = s \/ t \in unsaved'
      /\ \A u \in Task \ {t} : record'[u] = record[u] /\ (u \in unsaved' <=> u \in unsaved)
  BY <1>1, SettleEffect
<1> QED
  BY <1>1, <1>2 DEF RecordInv

\* Every outcome is written, or its task noted as unsaved.
LEMMA RecordStep ==
  ASSUME TypeOK, PlaceInv, RecordInv, Next
  PROVE  RecordInv'
<1> USE DEF RecordInv, TypeOK, OutcomeType, DatabaseType, outcome, databases, Terminal,
  PlaceInv, TaskPC
<1>1. CASE Start
  BY <1>1 DEF Start
<1>2. CASE SkipAborted
  <2>1. Head(queue) \in Task /\ Tail(queue) \in Seq(Task)
    BY <1>2, HeadTail DEF SkipAborted, TypeOK, LoopType
  <2>2. Settle(Head(queue), "skipped", "aborted")
    BY <1>2 DEF SkipAborted
  <2> QED
    BY <2>1, <2>2, SettleRecorded
<1>3. CASE FinalizeRemaining
  <2>1. Head(queue) \in Task /\ Tail(queue) \in Seq(Task)
    BY <1>3, HeadTail DEF FinalizeRemaining, TypeOK, LoopType
  <2>2. Settle(Head(queue), "skipped", IF abort THEN "aborted" ELSE "never met")
    BY <1>3 DEF FinalizeRemaining
  <2> QED
    BY <2>1, <2>2, SettleRecorded
<1>4. CASE LifecycleError
  BY <1>4 DEF LifecycleError, Status, Return
<1>5. CASE ReadMarker
  <2>1. cur \in Task
    BY <1>5 DEF ReadMarker
  <2>2. CASE Settle(cur, "skipped", "once")
    BY <2>1, <2>2, SettleRecorded
  <2>3. CASE UNCHANGED <<outcome, record, unsaved>>
    BY <2>3
  <2> QED
    BY <1>5, <2>2, <2>3, ReadMarkerCases
<1>6. CASE ReadMarkerFails
  BY <1>6 DEF ReadMarkerFails, Status, Return
<1>7. CASE NotifySealed
  BY <1>7 DEF NotifySealed, Status, Return
<1>8. CASE Launch
  <2>1. CASE Settle(cur, "skipped", "unrunnable")
    <3>1. cur \in Task
      BY <1>8 DEF Launch
    <3> QED
      BY <2>1, <3>1, SettleRecorded
  <2>2. CASE status' = [status EXCEPT ![cur] = "running"] /\ UNCHANGED <<record, unsaved>>
    BY <2>2
  <2> QED
    BY <1>8, <2>1, <2>2 DEF Launch
<1>9. CASE InternalError
  BY <1>9 DEF InternalError, Status, Return
<1>10. CASE Complete
  <2>1. cur \in Task /\ Settle(cur, "success", "")
    BY <1>10 DEF Complete
  <2> QED
    BY <2>1, SettleRecorded
<1>11. CASE Fail
  <2>1. cur \in Task
    BY <1>11 DEF Fail
  <2>2. Settle(cur, "skipped", "ignored") \/ Settle(cur, "failed", "failed")
    BY <1>11 DEF Fail
  <2> QED
    BY <2>1, <2>2, SettleRecorded
<1>12. CASE MarkSuccess
  <2>1. UNCHANGED <<status, record>> /\ unsaved \subseteq unsaved'
    BY <1>12 DEF MarkSuccess
  <2> QED
    BY <2>1
<1>13. CASE SettleError
  <2>1. PICK t \in Task : Settle(t, "failed", "error")
    BY <1>13 DEF SettleError
  <2> QED
    BY <2>1, SettleRecorded
<1>14. CASE CancelTail
  <2>1. PICK t \in Task : Settle(t, "skipped", "cancelled")
    BY <1>14 DEF CancelTail
  <2> QED
    BY <2>1, SettleRecorded
<1>15. CASE Resolve \/ ResolveFails \/ VisitTask \/ EndPass \/ AllFinal \/ EvaluateCondition \/
  Spawn \/ SpawnFails \/ Fork \/ ChildEnds \/ TimesOut \/ EndGroup \/ KillGroup \/ BackOff \/
  Retry \/ Report \/ Close \/ CloseError \/ CloseCancelled \/ Quit \/ Cancelled \/ PipelineError
  \/ Crash
  BY <1>15 DEF Resolve, ResolveFails, VisitTask, EndPass, AllFinal, EvaluateCondition, Spawn,
    SpawnFails, Fork, ChildEnds, Works, Succeeds, TimesOut, EndGroup, Survivors, KillGroup,
    BackOff, Retry, Report, Close, CloseError, CloseCancelled, Quit, Cancelled, Awaiting,
    ChildUp, PipelineError, Crash
<1> QED
  BY <1>1, <1>2, <1>3, <1>4, <1>5, <1>6, <1>7, <1>8, <1>9, <1>10, <1>11, <1>12, <1>13, <1>14,
    <1>15 DEF Next, Step

\* Exit code 0 is given by the report alone.
LEMMA ExitStep ==
  ASSUME TypeOK, QuitInv, ExitInv, Next
  PROVE  ExitInv'
<1> USE DEF ExitInv, SuccessIsComplete, outcome, ending
<1>1. CASE ReadMarker
  BY <1>1, ReadMarkerCases DEF Return
<1>2. CASE Launch
  BY <1>2 DEF Launch, Return
<1>3. CASE Complete
  BY <1>3 DEF Complete, Return
<1>4. CASE Fail
  BY <1>4 DEF Fail, Return
<1>5. CASE Report
  <2>1. exit' = 0 => ~abort /\ \A t \in Task : status[t] = "failed" => plan[t].missing
    BY <1>5 DEF Report, CountedFailed
  <2>2. UNCHANGED <<status, reason, plan>>
    BY <1>5 DEF Report, outcome, manifest, plan
  <2> QED
    BY <2>1, <2>2 DEF QuitInv
<1>6. CASE Close
  BY <1>6 DEF Close, outcome, ending, manifest, plan
<1>7. CASE CloseError
  BY <1>7 DEF CloseError
<1>8. CASE CloseCancelled
  BY <1>8 DEF CloseCancelled
<1>9. CASE Start \/ Resolve \/ ResolveFails \/ VisitTask \/ SkipAborted \/ EndPass \/
  FinalizeRemaining \/ AllFinal \/ EvaluateCondition \/ LifecycleError \/ ReadMarkerFails \/
  NotifySealed \/ Spawn \/ SpawnFails \/ InternalError \/ Fork \/ ChildEnds \/ TimesOut \/
  EndGroup \/ KillGroup \/ BackOff \/ Retry \/ MarkSuccess \/ SettleError \/ CancelTail \/ Quit
  \/ Cancelled \/ PipelineError \/ Crash
  <2>1. pc' \in {"closing", "finished"} => pc' = pc /\ UNCHANGED <<status, reason, exit, plan>>
    BY <1>9 DEF Start, Resolve, ResolveFails, VisitTask, SkipAborted, Settle, Status, Record,
      RecordFails, EndPass, FinalizeRemaining, AllFinal, EvaluateCondition, LifecycleError,
      Return, ReadMarkerFails, NotifySealed, Spawn, SpawnFails, InternalError, Fork, ChildEnds,
      Works, Succeeds, TimesOut, EndGroup, Survivors, KillGroup, BackOff, Retry, MarkSuccess,
      SettleError, CancelTail, Quit, Cancelled, Awaiting, ChildUp, PipelineError, Crash,
      manifest, plan
  <2> QED
    BY <2>1
<1> QED
  BY <1>1, <1>2, <1>3, <1>4, <1>5, <1>6, <1>7, <1>8, <1>9 DEF Next, Step

\* A retry follows a failure.
LEMMA CodeStep ==
  ASSUME TypeOK, CodeInv, Next
  PROVE  CodeInv'
<1> USE DEF CodeInv, child
<1>1. CASE Start
  BY <1>1 DEF Start
<1>2. CASE Resolve
  BY <1>2 DEF Resolve
<1>3. CASE ReadMarker
  BY <1>3, ReadMarkerCases DEF Return
<1>4. CASE Launch
  BY <1>4 DEF Launch, Return
<1>5. CASE Spawn
  BY <1>5 DEF Spawn
<1>6. CASE SpawnFails
  BY <1>6 DEF SpawnFails
<1>7. CASE ChildEnds
  BY <1>7 DEF ChildEnds, Works, Succeeds
<1>8. CASE TimesOut
  BY <1>8 DEF TimesOut
<1>9. CASE EndGroup
  BY <1>9 DEF EndGroup, Survivors
<1>10. CASE KillGroup
  BY <1>10 DEF KillGroup, Works, Succeeds, Survivors
<1>11. CASE BackOff
  BY <1>11 DEF BackOff, Again
<1>12. CASE Retry
  BY <1>12 DEF Retry
<1>13. CASE Complete
  BY <1>13 DEF Complete, Return
<1>14. CASE Fail
  BY <1>14 DEF Fail, Return
<1>15. CASE Cancelled
  BY <1>15 DEF Cancelled, Awaiting, ChildUp
<1>16. CASE ResolveFails \/ VisitTask \/ SkipAborted \/ EndPass \/ FinalizeRemaining \/ AllFinal
  \/ EvaluateCondition \/ LifecycleError \/ ReadMarkerFails \/ NotifySealed \/ InternalError \/
  Fork \/ MarkSuccess \/ Report \/ Close \/ SettleError \/ CloseError \/ CancelTail \/
  CloseCancelled \/ Quit \/ PipelineError \/ Crash
  BY <1>16 DEF ResolveFails, VisitTask, SkipAborted, Settle, Status, Record, RecordFails,
    EndPass, FinalizeRemaining, AllFinal, EvaluateCondition, LifecycleError, Return,
    ReadMarkerFails, NotifySealed, InternalError, Fork, MarkSuccess, Report, Close, SettleError,
    CloseError, CancelTail, CloseCancelled, Quit, PipelineError, Crash
<1> QED
  BY <1>1, <1>2, <1>3, <1>4, <1>5, <1>6, <1>7, <1>8, <1>9, <1>10, <1>11, <1>12, <1>13, <1>14,
    <1>15, <1>16 DEF Next, Step

\* A zero exit code stands for a completed script.
LEMMA DoneStep ==
  ASSUME TypeOK, PlaceInv, CodeInv, DoneInv, Next
  PROVE  DoneInv'
<1> USE DEF DoneInv, child, manifest, loop
<1>1. CASE Start
  BY <1>1 DEF Start
<1>2. CASE ReadMarker
  BY <1>2, ReadMarkerCases DEF Return
<1>3. CASE Launch
  BY <1>3 DEF Launch, Return
<1>4. CASE Spawn
  BY <1>4 DEF Spawn, CodeInv
<1>5. CASE SpawnFails
  BY <1>5 DEF SpawnFails
<1>6. CASE ChildEnds
  <2>1. rc' = 0 => done' = [done EXCEPT ![cur] = done[cur] \cup {content[cur]}]
    BY <1>6 DEF ChildEnds, Succeeds
  <2>2. cur \in Task /\ done \in [Task -> SUBSET Contents]
    BY <1>6 DEF ChildEnds, PlaceInv, TaskPC, TypeOK, ChildType
  <2>3. UNCHANGED <<cur, content>> /\ pc' \in {"ended", "decide"}
    BY <1>6 DEF ChildEnds, loop, manifest
  <2> QED
    BY <2>1, <2>2, <2>3
<1>7. CASE TimesOut
  BY <1>7 DEF TimesOut
<1>8. CASE EndGroup
  BY <1>8 DEF EndGroup, Survivors
<1>9. CASE KillGroup
  BY <1>9 DEF KillGroup, CodeInv
<1>10. CASE BackOff
  BY <1>10 DEF BackOff
<1>11. CASE Retry
  BY <1>11 DEF Retry
<1>12. CASE Complete
  BY <1>12 DEF Complete, Return
<1>13. CASE Fail
  BY <1>13 DEF Fail, Return
<1>14. CASE Cancelled
  BY <1>14 DEF Cancelled, Awaiting, ChildUp
<1>15. CASE Resolve \/ ResolveFails \/ VisitTask \/ SkipAborted \/ EndPass \/ FinalizeRemaining
  \/ AllFinal \/ EvaluateCondition \/ LifecycleError \/ ReadMarkerFails \/ NotifySealed \/
  InternalError \/ Fork \/ MarkSuccess \/ Report \/ Close \/ SettleError \/ CloseError \/
  CancelTail \/ CloseCancelled \/ Quit \/ PipelineError \/ Crash
  <2>1. pc' \in {"ended", "decide", "marking"} => pc' = pc /\ UNCHANGED <<rc, content, cur,
    done>>
    BY <1>15 DEF Resolve, ResolveFails, VisitTask, SkipAborted, Settle, Status, Record,
      RecordFails, EndPass, FinalizeRemaining, AllFinal, EvaluateCondition, LifecycleError,
      Return, ReadMarkerFails, NotifySealed, InternalError, Fork, MarkSuccess, Report, Close,
      SettleError, CloseError, CancelTail, CloseCancelled, Quit, PipelineError, Crash
  <2> QED
    BY <2>1
<1> QED
  BY <1>1, <1>2, <1>3, <1>4, <1>5, <1>6, <1>7, <1>8, <1>9, <1>10, <1>11, <1>12, <1>13, <1>14,
    <1>15 DEF Next, Step

\* Checksums are taken from the scripts of this run.
LEMMA ChecksumStep ==
  ASSUME TypeOK, ChecksumInv, Next
  PROVE  ChecksumInv'
<1> USE DEF ChecksumInv, TypeOK, ManifestType, manifest
<1>1. CASE Start
  BY <1>1 DEF Start
<1>2. CASE Resolve
  BY <1>2 DEF Resolve
<1>3. CASE ResolveFails \/ VisitTask \/ SkipAborted \/ EndPass \/ FinalizeRemaining \/ AllFinal
  \/ EvaluateCondition \/ LifecycleError \/ ReadMarker \/ ReadMarkerFails \/ NotifySealed \/
  Launch \/ Spawn \/ SpawnFails \/ InternalError \/ Fork \/ ChildEnds \/ TimesOut \/ EndGroup \/
  KillGroup \/ BackOff \/ Retry \/ Complete \/ Fail \/ MarkSuccess \/ Report \/ Close \/
  SettleError \/ CloseError \/ CancelTail \/ CloseCancelled \/ Quit \/ Cancelled \/
  PipelineError \/ Crash
  BY <1>3 DEF ResolveFails, VisitTask, SkipAborted, Settle, Status, Record, RecordFails,
    EndPass, FinalizeRemaining, AllFinal, EvaluateCondition, LifecycleError, Return, ReadMarker,
    ReadMarkerFails, NotifySealed, Launch, Spawn, SpawnFails, InternalError, Fork, ChildEnds,
    Works, Succeeds, TimesOut, EndGroup, Survivors, KillGroup, BackOff, Retry, Complete, Fail,
    MarkSuccess, Report, Close, SettleError, CloseError, CancelTail, CloseCancelled, Quit,
    Cancelled, Awaiting, ChildUp, PipelineError, Crash
<1> QED
  BY <1>1, <1>2, <1>3 DEF Next, Step

\* A marker is only written for a content that ran.
LEMMA EarnedStep ==
  ASSUME TypeOK, PlaceInv, DoneInv, ChecksumInv, EarnedInv, Next
  PROVE  EarnedInv'
<1> USE NameAssumption DEF EarnedInv, Earned, databases, child
<1>1. CASE NotifySealed
  <2>1. cur \in Task /\ marker[cur] \in Marker /\ marker \in [Task -> Marker \cup {None}]
    BY <1>1 DEF NotifySealed, PlaceInv, TaskPC, TypeOK, DatabaseType
  <2>2. UNCHANGED done
    BY <1>1 DEF NotifySealed
  <2>3. CASE marker' = [marker EXCEPT ![cur].notified = checksum[cur]]
    <3>1. marker'[cur].sum = marker[cur].sum
      BY <2>1, <2>3 DEF Marker
    <3> QED
      BY <2>1, <2>2, <2>3, <3>1
  <2>4. CASE UNCHANGED marker
    BY <2>2, <2>4
  <2> QED
    BY <1>1, <2>3, <2>4 DEF NotifySealed
<1>2. CASE ChildEnds
  <2>1. cur \in Task /\ done \in [Task -> SUBSET Contents] /\ UNCHANGED marker
    BY <1>2 DEF ChildEnds, PlaceInv, TaskPC, TypeOK, ChildType
  <2>2. done' = done \/ done' = [done EXCEPT ![cur] = done[cur] \cup {content[cur]}]
    BY <1>2 DEF ChildEnds, Succeeds
  <2>3. \A t \in Task : done[t] \subseteq done'[t]
    BY <2>1, <2>2
  <2> QED
    BY <2>1, <2>3
<1>3. CASE KillGroup
  <2>1. cur \in Task /\ done \in [Task -> SUBSET Contents] /\ UNCHANGED marker
    BY <1>3 DEF KillGroup, PlaceInv, TaskPC, TypeOK, ChildType
  <2>2. done' = done \/ done' = [done EXCEPT ![cur] = done[cur] \cup {content[cur]}]
    BY <1>3 DEF KillGroup, Succeeds
  <2>3. \A t \in Task : done[t] \subseteq done'[t]
    BY <2>1, <2>2
  <2> QED
    BY <2>1, <2>3
<1>4. CASE MarkSuccess
  <2>1. cur \in Task /\ marker \in [Task -> Marker \cup {None}]
    BY <1>4 DEF MarkSuccess, PlaceInv, TaskPC, TypeOK, DatabaseType
  <2>2. content[cur] \in done[cur] /\ checksum[cur] \in {content[cur], Unread} /\ UNCHANGED done
    BY <1>4, <2>1 DEF MarkSuccess, DoneInv, ChecksumInv
  <2>3. CASE UNCHANGED marker
    BY <2>2, <2>3
  <2>4. CASE marker'[cur].sum = checksum[cur] /\ \A t \in Task \ {cur} : marker'[t] = marker[t]
    BY <2>1, <2>2, <2>4
  <2> QED
    BY <1>4, <2>1, <2>3, <2>4 DEF MarkSuccess
<1>5. CASE Start \/ Resolve \/ ResolveFails \/ VisitTask \/ SkipAborted \/ EndPass \/
  FinalizeRemaining \/ AllFinal \/ EvaluateCondition \/ LifecycleError \/ ReadMarker \/
  ReadMarkerFails \/ Launch \/ Spawn \/ SpawnFails \/ InternalError \/ Fork \/ TimesOut \/
  EndGroup \/ BackOff \/ Retry \/ Complete \/ Fail \/ Report \/ Close \/ SettleError \/
  CloseError \/ CancelTail \/ CloseCancelled \/ Quit \/ Cancelled \/ PipelineError \/ Crash
  BY <1>5 DEF Start, Resolve, ResolveFails, VisitTask, SkipAborted, Settle, Status, Record,
    RecordFails, EndPass, FinalizeRemaining, AllFinal, EvaluateCondition, LifecycleError,
    Return, ReadMarker, ReadMarkerFails, Launch, Spawn, SpawnFails, InternalError, Fork,
    TimesOut, EndGroup, Survivors, BackOff, Retry, Complete, Fail, Report, Close, SettleError,
    CloseError, CancelTail, CloseCancelled, Quit, Cancelled, Awaiting, ChildUp, PipelineError,
    Crash
<1> QED
  BY <1>1, <1>2, <1>3, <1>4, <1>5 DEF Next, Step

\* No task succeeds by being settled otherwise.
LEMMA SettleOwes ==
  ASSUME TypeOK, NEW t \in Task, NEW s \in Terminal \ {"success"}, NEW w, Settle(t, s, w),
         UNCHANGED plan
  PROVE  \A u \in Task : Owed(u)' => Owed(u)
<1>1. /\ status \in [Task -> Terminal \cup {"pending", "running"}]
      /\ record \in [Task -> Terminal \cup {None}] /\ unsaved \subseteq Task
      /\ faults \in 0 .. MaxFaults
  BY DEF TypeOK, OutcomeType, DatabaseType, EndingType, Terminal
<1>2. /\ status' = [status EXCEPT ![t] = s]
      /\ \A u \in Task \ {t} : u \in unsaved' <=> u \in unsaved
  BY <1>1, SettleEffect
<1> QED
  BY <1>1, <1>2 DEF Owed

\* A task that succeeded gets its marker before the pipeline moves on.
LEMMA OwedStep ==
  ASSUME TypeOK, PlaceInv, pc \in TaskPC => PlanFields, OwedInv, Next
  PROVE  OwedInv'
<1> USE NameAssumption DEF OwedInv, TaskPC, plan, manifest, databases, outcome
<1>1. CASE Start
  <2>1. \A t \in Task : status'[t] = "pending"
    BY <1>1 DEF Start
  <2> QED
    BY <2>1 DEF Owed
<1>2. CASE Resolve
  <2>1. \A t \in Task : status'[t] = "pending"
    BY <1>2 DEF Resolve, PlaceInv
  <2> QED
    BY <2>1 DEF Owed
<1>3. CASE SkipAborted
  <2>1. Head(queue) \in Task /\ Tail(queue) \in Seq(Task)
    BY <1>3, HeadTail DEF SkipAborted, TypeOK, LoopType
  <2>8. \A t \in Task : Owed(t)' => Owed(t)
    BY <1>3, <2>1 DEF SkipAborted, Settle, Status, Record, RecordFails, Owed, TypeOK,
      OutcomeType, Terminal
  <2>9. UNCHANGED <<marker, checksum>> /\ pc \notin {"idle", "cancelling", "finished", "marking"}
    BY <1>3 DEF SkipAborted
  <2> QED
    BY <2>8, <2>9
<1>4. CASE FinalizeRemaining
  <2>1. Head(queue) \in Task /\ Tail(queue) \in Seq(Task)
    BY <1>4, HeadTail DEF FinalizeRemaining, TypeOK, LoopType
  <2>8. \A t \in Task : Owed(t)' => Owed(t)
    BY <1>4, <2>1 DEF FinalizeRemaining, Settle, Status, Record, RecordFails, Owed, TypeOK,
      OutcomeType, Terminal
  <2>9. UNCHANGED <<marker, checksum>> /\ pc \notin {"idle", "cancelling", "finished", "marking"}
    BY <1>4 DEF FinalizeRemaining
  <2> QED
    BY <2>8, <2>9
<1>5. CASE LifecycleError
  <2>1. cur \in Task
    BY <1>5 DEF LifecycleError, PlaceInv
  <2>8. \A t \in Task : Owed(t)' => Owed(t)
    BY <1>5, <2>1 DEF LifecycleError, Status, Return, Owed, TypeOK, OutcomeType, Terminal
  <2>9. UNCHANGED <<marker, checksum>> /\ pc \notin {"idle", "cancelling", "finished", "marking"}
    BY <1>5 DEF LifecycleError
  <2> QED
    BY <2>8, <2>9
<1>6. CASE ReadMarker
  <2>1. cur \in Task
    BY <1>6 DEF ReadMarker, PlaceInv
  <2>8. \A t \in Task : Owed(t)' => Owed(t)
    BY <1>6, <2>1, ReadMarkerCases DEF ReadMarker, Settle, Status, Record, RecordFails, Return,
      Owed, TypeOK, OutcomeType, Terminal
  <2>9. UNCHANGED <<marker, checksum>> /\ pc \notin {"idle", "cancelling", "finished", "marking"}
    BY <1>6 DEF ReadMarker
  <2> QED
    BY <2>8, <2>9
<1>7. CASE ReadMarkerFails
  <2>1. cur \in Task
    BY <1>7 DEF ReadMarkerFails, PlaceInv
  <2>8. \A t \in Task : Owed(t)' => Owed(t)
    BY <1>7, <2>1 DEF ReadMarkerFails, Status, Return, Owed, TypeOK, OutcomeType, Terminal
  <2>9. UNCHANGED <<marker, checksum>> /\ pc \notin {"idle", "cancelling", "finished", "marking"}
    BY <1>7 DEF ReadMarkerFails
  <2> QED
    BY <2>8, <2>9
<1>8. CASE NotifySealed
  <2>1. cur \in Task /\ marker[cur] \in Marker /\ marker \in [Task -> Marker \cup {None}]
    BY <1>8 DEF NotifySealed, PlaceInv, TypeOK, DatabaseType
  <2>2. \A t \in Task : Owed(t)' => Owed(t) /\ t # cur
    BY <1>8, <2>1 DEF NotifySealed, Status, Return, Owed, TypeOK, OutcomeType, Terminal
  <2>3. \A t \in Task \ {cur} : marker'[t] = marker[t]
    BY <1>8, <2>1 DEF NotifySealed
  <2>4. UNCHANGED checksum /\ pc = "notifying"
    BY <1>8 DEF NotifySealed
  <2> QED
    BY <2>2, <2>3, <2>4
<1>9. CASE Launch
  <2>1. cur \in Task
    BY <1>9 DEF Launch, PlaceInv
  <2>8. \A t \in Task : Owed(t)' => Owed(t)
    BY <1>9, <2>1 DEF Launch, Settle, Status, Record, RecordFails, Return, Owed, TypeOK,
      OutcomeType, Terminal
  <2>9. UNCHANGED <<marker, checksum>> /\ pc \notin {"idle", "cancelling", "finished", "marking"}
    BY <1>9 DEF Launch
  <2> QED
    BY <2>8, <2>9
<1>10. CASE InternalError
  <2>1. cur \in Task
    BY <1>10 DEF InternalError, PlaceInv
  <2>8. \A t \in Task : Owed(t)' => Owed(t)
    BY <1>10, <2>1 DEF InternalError, Status, Return, Owed, TypeOK, OutcomeType, Terminal
  <2>9. UNCHANGED <<marker, checksum>> /\ pc \notin {"idle", "cancelling", "finished", "marking"}
    BY <1>10 DEF InternalError
  <2> QED
    BY <2>8, <2>9
<1>11. CASE Complete
  <2>1. cur \in Task
    BY <1>11 DEF Complete, PlaceInv
  <2>2. \A t \in Task : t # cur => (Owed(t)' => Owed(t))
    BY <1>11, <2>1 DEF Complete, Settle, Status, Record, RecordFails, Return, Owed,
      TypeOK, OutcomeType
  <2>3. plan[cur].once # "no" => pc' = "marking" /\ UNCHANGED cur
    BY <1>11 DEF Complete
  <2>4. UNCHANGED <<marker, checksum>> /\ pc = "decide" /\ pc' \in {"next", "marking"}
    BY <1>11 DEF Complete, Return
  <2>5. \A t \in Task : t = cur /\ plan[cur].once = "no" => ~Owed(t)'
    BY <1>11 DEF Complete, Owed
  <2> QED
    BY <2>2, <2>3, <2>4, <2>5
<1>12. CASE Fail
  <2>1. cur \in Task
    BY <1>12 DEF Fail, PlaceInv
  <2>2. UNCHANGED plan /\ (Settle(cur, "skipped", "ignored") \/ Settle(cur, "failed", "failed"))
    BY <1>12 DEF Fail
  <2>3. {"skipped", "failed"} \subseteq Terminal \ {"success"}
    BY DEF Terminal
  <2>8. \A t \in Task : Owed(t)' => Owed(t)
    BY <2>1, <2>2, <2>3, SettleOwes
  <2>9. UNCHANGED <<marker, checksum>> /\ pc \notin {"idle", "cancelling", "finished", "marking"}
    BY <1>12 DEF Fail
  <2> QED
    BY <2>8, <2>9
<1>13. CASE MarkSuccess
  <2>1. cur \in Task /\ marker \in [Task -> Marker \cup {None}]
    BY <1>13 DEF MarkSuccess, PlaceInv, TypeOK, DatabaseType
  <2>2. \A t \in Task : Owed(t)' => Owed(t)
    BY <1>13 DEF MarkSuccess, Return, Owed
  <2>3. UNCHANGED <<checksum, cur>> /\ pc = "marking" /\ pc' = "next"
    BY <1>13 DEF MarkSuccess, Return
  <2> DEFINE row == [sum |-> checksum[cur], mode |-> plan[cur].once,
                     notified |-> IF marker[cur] = None THEN Unread ELSE marker[cur].notified]
  <2>4. CASE cur \in unsaved' /\ UNCHANGED marker
    BY <2>2, <2>3, <2>4 DEF Owed
  <2>5. CASE marker' = [marker EXCEPT ![cur] = row]
    <3>1. marker'[cur].sum = checksum[cur] /\ marker'[cur] # None
      <4>1. row \in Marker
        BY <2>1, <1>13, RowType DEF MarkSuccess
      <4> QED
        BY <2>1, <2>5, <4>1 DEF Marker
    <3>2. \A t \in Task \ {cur} : marker'[t] = marker[t]
      BY <2>1, <2>5
    <3> QED
      BY <2>2, <2>3, <3>1, <3>2
  <2> QED
    BY <1>13, <2>4, <2>5 DEF MarkSuccess
<1>14. CASE SettleError
  <2>8. \A t \in Task : Owed(t)' => Owed(t)
    BY <1>14 DEF SettleError, Settle, Status, Record, RecordFails, Owed, TypeOK, OutcomeType,
      Terminal
  <2>9. UNCHANGED <<marker, checksum>> /\ pc \notin {"idle", "cancelling", "finished", "marking"}
    BY <1>14 DEF SettleError
  <2> QED
    BY <2>8, <2>9
<1>15. CASE CloseError
  <2>1. pc' = "finished"
    BY <1>15 DEF CloseError
  <2>2. exit' = 1
    BY <1>15 DEF CloseError
  <2> QED
    BY <2>1, <2>2
<1>16. CASE CancelTail
  <2>1. pc' = "cancelling"
    BY <1>16 DEF CancelTail
  <2> QED
    BY <2>1
<1>17. CASE CloseCancelled
  <2>1. pc' = "finished"
    BY <1>17 DEF CloseCancelled
  <2>2. exit' # 0
    BY <1>17 DEF CloseCancelled
  <2> QED
    BY <2>1, <2>2
<1>18. CASE Quit
  <2>1. UNCHANGED <<manifest, marker, unsaved, status, exit, pc, cur>>
    BY <1>18 DEF Quit, databases, outcome, loop
  <2> QED
    BY <2>1 DEF manifest, Owed, plan
<1>19. CASE Cancelled
  <2>1. \A t \in Task : Owed(t)' => Owed(t)
    BY <1>19 DEF Cancelled, databases, outcome, Owed
  <2>2. UNCHANGED <<marker, checksum>> /\ pc # "idle" /\ pc' \in {"killing", "cancelling"}
        /\ (pc' = "killing" => pc \in ChildUp)
    BY <1>19 DEF Cancelled, databases, Awaiting, ChildUp
  <2> QED
    BY <2>1, <2>2 DEF ChildUp
<1>20. CASE Crash
  <2>1. pc' = "idle"
    BY <1>20 DEF Crash
  <2> QED
    BY <2>1
<1>21. CASE ResolveFails \/ VisitTask \/ EndPass \/ AllFinal \/ EvaluateCondition \/ Spawn \/
  SpawnFails \/ Fork \/ ChildEnds \/ TimesOut \/ EndGroup \/ KillGroup \/ BackOff \/ Retry \/
  Report \/ Close \/ PipelineError
  <2>1. UNCHANGED <<manifest, marker, unsaved, status>> /\ pc \notin {"idle", "cancelling",
    "finished", "marking"}
    BY <1>21 DEF ResolveFails, VisitTask, EndPass, AllFinal, EvaluateCondition, Spawn,
      SpawnFails, Fork, ChildEnds, Works, Succeeds, TimesOut, EndGroup, Survivors, KillGroup,
      BackOff, Retry, Report, Close, PipelineError
  <2> QED
    BY <2>1 DEF Owed
<1> QED
  BY <1>1, <1>2, <1>3, <1>4, <1>5, <1>6, <1>7, <1>8, <1>9, <1>10, <1>11, <1>12, <1>13, <1>14,
    <1>15, <1>16, <1>17, <1>18, <1>19, <1>20, <1>21 DEF Next, Step

\* The look at the marker stays true until the last attempt.
LEMMA UnmarkedStep ==
  ASSUME TypeOK, PlaceInv, pc \in TaskPC => PlanFields, UnmarkedInv, Next
  PROVE  UnmarkedInv'
<1> USE NameAssumption DEF UnmarkedInv, StartPC, databases, loop
<1>1. CASE Start
  <2>1. pc' = "resolve"
    BY <1>1 DEF Start
  <2> QED
    BY <2>1 DEF StartPC
<1>2. CASE Resolve
  <2>1. pc' = "next"
    BY <1>2 DEF Resolve, Return
  <2> QED
    BY <2>1 DEF StartPC
<1>3. CASE VisitTask
  BY <1>3 DEF VisitTask, StartPC
<1>4. CASE EvaluateCondition
  <2>1. pc' = "launch" => plan[cur].once = "no"
    BY <1>4 DEF EvaluateCondition
  <2>2. UNCHANGED <<manifest, cur>> /\ pc' \in {"launch", "once", "next"}
    BY <1>4 DEF EvaluateCondition
  <2> QED
    BY <2>1, <2>2 DEF StartPC, plan, manifest
<1>5. CASE LifecycleError
  <2>1. pc' = "next"
    BY <1>5 DEF LifecycleError, Return
  <2> QED
    BY <2>1 DEF StartPC
<1>6. CASE ReadMarker
  <2>1. cur \in Task /\ plan[cur].once \in {"content", "forever", "sealed"}
    BY <1>6 DEF ReadMarker, PlaceInv, TaskPC, PlanFields, OnceModes
  <2>2. marker[cur] \in Marker \cup {None}
    BY <2>1 DEF TypeOK, DatabaseType
  <2>3. CheckMarkerStatus(cur) = "run" => ~Marked(cur)
    BY <2>1, <2>2 DEF CheckMarkerStatus, Marked, Marker, OnceModes
  <2>4. UNCHANGED <<manifest, marker, cur>>
    BY <1>6 DEF ReadMarker
  <2>5. pc' \in {"launch", "next", "notifying"}
        /\ (pc' = "launch" => CheckMarkerStatus(cur) = "run")
    BY <1>6, ReadMarkerCases DEF Return
  <2> QED
    BY <2>3, <2>4, <2>5 DEF StartPC, Marked, plan, manifest
<1>7. CASE ReadMarkerFails
  <2>1. pc' = "next"
    BY <1>7 DEF ReadMarkerFails, Return
  <2> QED
    BY <2>1 DEF StartPC
<1>8. CASE NotifySealed
  <2>1. pc' = "next"
    BY <1>8 DEF NotifySealed, Return
  <2> QED
    BY <2>1 DEF StartPC
<1>9. CASE Launch
  <2>1. UNCHANGED <<manifest, marker, cur>> /\ pc = "launch"
    BY <1>9 DEF Launch
  <2> QED
    BY <2>1 DEF StartPC, Marked, plan, manifest
<1>10. CASE InternalError
  <2>1. pc' = "next"
    BY <1>10 DEF InternalError, Return
  <2> QED
    BY <2>1 DEF StartPC
<1>11. CASE Complete
  <2>1. pc' \in {"next", "marking"}
    BY <1>11 DEF Complete, Return
  <2> QED
    BY <2>1 DEF StartPC
<1>12. CASE Fail
  <2>1. pc' = "next"
    BY <1>12 DEF Fail, Return
  <2> QED
    BY <2>1 DEF StartPC
<1>13. CASE MarkSuccess
  <2>1. pc' = "next"
    BY <1>13 DEF MarkSuccess, Return
  <2> QED
    BY <2>1 DEF StartPC
<1>14. CASE ResolveFails \/ SkipAborted \/ EndPass \/ FinalizeRemaining \/ AllFinal \/ Spawn \/
  SpawnFails \/ Fork \/ ChildEnds \/ TimesOut \/ EndGroup \/ KillGroup \/ BackOff \/ Retry \/
  Report \/ Close \/ SettleError \/ CloseError \/ CancelTail \/ CloseCancelled \/ Quit \/
  Cancelled \/ PipelineError \/ Crash
  <2>1. UNCHANGED <<manifest, marker, cur>> /\ (pc' \in StartPC => pc \in StartPC)
    BY <1>14 DEF ResolveFails, SkipAborted, Settle, Status, Record, RecordFails, EndPass,
      FinalizeRemaining, AllFinal, Spawn, SpawnFails, Fork, ChildEnds, Works, Succeeds,
      TimesOut, EndGroup, Survivors, KillGroup, BackOff, Retry, Report, Close, SettleError,
      CloseError, CancelTail, CloseCancelled, Quit, Cancelled, Awaiting, ChildUp, PipelineError,
      Crash
  <2> QED
    BY <2>1 DEF Marked, plan, manifest
<1> QED
  BY <1>1, <1>2, <1>3, <1>4, <1>5, <1>6, <1>7, <1>8, <1>9, <1>10, <1>11, <1>12, <1>13, <1>14 DEF
    Next, Step

\* After a failure that stops the run no task is visited.
LEMMA StoppedStep ==
  ASSUME TypeOK, StoppedInv, Next
  PROVE  StoppedInv'
<1> USE DEF StoppedInv, Stopper, TaskPC, SettlingPC, manifest, outcome, ending
<1>1. CASE Start
  <2>1. \A t \in Task : status'[t] = "pending"
    BY <1>1 DEF Start
  <2> QED
    BY <2>1
<1>2. CASE VisitTask
  <2>1. ~abort /\ pc = "next" /\ UNCHANGED <<strict, status, reason>>
    BY <1>2 DEF VisitTask, outcome, manifest
  <2> QED
    BY <2>1
<1>3. CASE SkipAborted
  <2>1. Head(queue) \in Task /\ Tail(queue) \in Seq(Task)
    BY <1>3, HeadTail DEF SkipAborted, TypeOK, LoopType
  <2>8. \A t \in Task : Stopper(t)' => Stopper(t)
    BY <1>3, <2>1 DEF SkipAborted, Settle, Status, TypeOK, OutcomeType
  <2>9. /\ UNCHANGED <<strict, abort>> /\ (pc' \in TaskPC => pc \in TaskPC)
        /\ (pc \in SettlingPC => pc' \in SettlingPC \/ abort')
    BY <1>3, <2>1 DEF SkipAborted, TaskPC
  <2> QED
    BY <2>8, <2>9
<1>4. CASE FinalizeRemaining
  <2>1. Head(queue) \in Task /\ Tail(queue) \in Seq(Task)
    BY <1>4, HeadTail DEF FinalizeRemaining, TypeOK, LoopType
  <2>8. \A t \in Task : Stopper(t)' => Stopper(t)
    BY <1>4, <2>1 DEF FinalizeRemaining, Settle, Status, TypeOK, OutcomeType
  <2>9. /\ UNCHANGED <<strict, abort>> /\ (pc' \in TaskPC => pc \in TaskPC)
        /\ (pc \in SettlingPC => pc' \in SettlingPC \/ abort')
    BY <1>4, <2>1 DEF FinalizeRemaining, TaskPC
  <2> QED
    BY <2>8, <2>9
<1>5. CASE LifecycleError
  <2>8. \A t \in Task : Stopper(t)' => Stopper(t)
    BY <1>5 DEF LifecycleError, Status, Return, TypeOK, OutcomeType
  <2>9. /\ UNCHANGED <<strict, abort>> /\ (pc' \in TaskPC => pc \in TaskPC)
        /\ (pc \in SettlingPC => pc' \in SettlingPC \/ abort')
    BY <1>5 DEF LifecycleError, Return, TaskPC
  <2> QED
    BY <2>8, <2>9
<1>6. CASE ReadMarker
  <2>8. \A t \in Task : Stopper(t)' => Stopper(t)
    BY <1>6, ReadMarkerCases DEF ReadMarker, Settle, Status, Return, TypeOK, OutcomeType
  <2>9. /\ UNCHANGED <<strict, abort>> /\ (pc' \in TaskPC => pc \in TaskPC)
        /\ (pc \in SettlingPC => pc' \in SettlingPC \/ abort')
    BY <1>6, ReadMarkerCases DEF ReadMarker, Return, TaskPC
  <2> QED
    BY <2>8, <2>9
<1>7. CASE ReadMarkerFails
  <2>8. \A t \in Task : Stopper(t)' => Stopper(t)
    BY <1>7 DEF ReadMarkerFails, Status, Return, TypeOK, OutcomeType
  <2>9. /\ UNCHANGED <<strict, abort>> /\ (pc' \in TaskPC => pc \in TaskPC)
        /\ (pc \in SettlingPC => pc' \in SettlingPC \/ abort')
    BY <1>7 DEF ReadMarkerFails, Return, TaskPC
  <2> QED
    BY <2>8, <2>9
<1>8. CASE NotifySealed
  <2>8. \A t \in Task : Stopper(t)' => Stopper(t)
    BY <1>8 DEF NotifySealed, Status, Return, TypeOK, OutcomeType
  <2>9. /\ UNCHANGED <<strict, abort>> /\ (pc' \in TaskPC => pc \in TaskPC)
        /\ (pc \in SettlingPC => pc' \in SettlingPC \/ abort')
    BY <1>8 DEF NotifySealed, Return, TaskPC
  <2> QED
    BY <2>8, <2>9
<1>9. CASE Launch
  <2>8. \A t \in Task : Stopper(t)' => Stopper(t)
    BY <1>9 DEF Launch, Settle, Status, Return, TypeOK, OutcomeType
  <2>9. /\ UNCHANGED <<strict, abort>> /\ (pc' \in TaskPC => pc \in TaskPC)
        /\ (pc \in SettlingPC => pc' \in SettlingPC \/ abort')
    BY <1>9 DEF Launch, Return, TaskPC
  <2> QED
    BY <2>8, <2>9
<1>10. CASE InternalError
  <2>1. pc' = "next" /\ UNCHANGED strict /\ abort' = (abort \/ strict)
    BY <1>10 DEF InternalError, Return
  <2> QED
    BY <2>1
<1>11. CASE Complete
  <2>8. \A t \in Task : Stopper(t)' => Stopper(t)
    BY <1>11 DEF Complete, Settle, Status, Return, TypeOK, OutcomeType
  <2>9. /\ UNCHANGED <<strict, abort>> /\ (pc' \in TaskPC => pc \in TaskPC)
        /\ (pc \in SettlingPC => pc' \in SettlingPC \/ abort')
    BY <1>11 DEF Complete, Return, TaskPC
  <2> QED
    BY <2>8, <2>9
<1>12. CASE Fail
  <2>1. UNCHANGED strict /\ pc' = "next" /\ pc \notin SettlingPC
    BY <1>12 DEF Fail, Return
  <2>2. CASE Settle(cur, "skipped", "ignored") /\ UNCHANGED abort
    <3>1. \A t \in Task : Stopper(t)' => Stopper(t)
      BY <2>2 DEF Settle, Status, TypeOK, OutcomeType
    <3> QED
      BY <2>1, <2>2, <3>1 DEF TaskPC
  <2>3. CASE abort' = (abort \/ strict)
    BY <2>1, <2>3 DEF TaskPC
  <2> QED
    BY <1>12, <2>2, <2>3 DEF Fail
<1>13. CASE SettleError
  <2> QED
    BY <1>13 DEF SettleError
<1>14. CASE CancelTail
  <2>8. \A t \in Task : Stopper(t)' => Stopper(t)
    BY <1>14 DEF CancelTail, Settle, Status, TypeOK, OutcomeType
  <2>9. /\ UNCHANGED <<strict, abort>> /\ (pc' \in TaskPC => pc \in TaskPC)
        /\ (pc \in SettlingPC => pc' \in SettlingPC \/ abort')
    BY <1>14 DEF CancelTail, TaskPC
  <2> QED
    BY <2>8, <2>9
<1>15. CASE Resolve \/ ResolveFails \/ EndPass \/ AllFinal \/ EvaluateCondition \/ Spawn \/
  SpawnFails \/ Fork \/ ChildEnds \/ TimesOut \/ EndGroup \/ KillGroup \/ BackOff \/ Retry \/
  MarkSuccess \/ Report \/ Close \/ CloseError \/ CloseCancelled \/ Quit \/ Cancelled \/
  PipelineError \/ Crash
  <2>1. /\ UNCHANGED <<strict, status, reason>> /\ (abort => abort') /\ (pc' \in TaskPC => pc \in TaskPC)
        /\ (pc \in SettlingPC => pc' \in SettlingPC \/ abort')
    BY <1>15 DEF Resolve, ResolveFails, EndPass, AllFinal, EvaluateCondition, Spawn, SpawnFails,
      Fork, ChildEnds, Works, Succeeds, TimesOut, EndGroup, Survivors, KillGroup, BackOff,
      Retry, MarkSuccess, Return, Report, Close, CloseError, CloseCancelled, Quit, Cancelled,
      Awaiting, ChildUp, PipelineError, Crash
  <2> QED
    BY <2>1
<1> QED
  BY <1>1, <1>2, <1>3, <1>4, <1>5, <1>6, <1>7, <1>8, <1>9, <1>10, <1>11, <1>12, <1>13, <1>14,
    <1>15 DEF Next, Step

\* In a pass without progress the deferred conditions stay false.
LEMMA DeferredStep ==
  ASSUME TypeOK, PlaceInv, DeferredInv, Next
  PROVE  DeferredInv'
<1> USE DEF DeferredInv, LookPC, loop, child
<1>1. CASE Start
  <2>1. again' = <<>>
    BY <1>1 DEF Start
  <2> QED
    BY <2>1
<1>2. CASE Resolve
  <2>1. again' = <<>>
    BY <1>2 DEF Resolve, PlaceInv
  <2> QED
    BY <2>1
<1>3. CASE EndPass
  <2>1. again' = <<>>
    BY <1>3 DEF EndPass
  <2> QED
    BY <2>1
<1>4. CASE EvaluateCondition
  <2>1. pc = "condition" /\ UNCHANGED <<facts, manifest, progressed>>
    BY <1>4 DEF EvaluateCondition, child
  <2>2. CASE Met(cur)
    <3>1. UNCHANGED again
      BY <1>4, <2>2 DEF EvaluateCondition
    <3> QED
      BY <2>1, <3>1 DEF LookPC, Met, plan, manifest
  <2>3. CASE ~Met(cur)
    <3>1. again' = Append(again, cur) /\ again \in Seq(Task) /\ cur \in Task
      BY <1>4, <2>3 DEF EvaluateCondition, PlaceInv, TaskPC, TypeOK, LoopType
    <3>2. \A i \in 1 .. Len(again') : again'[i] = cur \/ (i \in 1 .. Len(again) /\
          again'[i] = again[i])
      BY <3>1, AppendAt
    <3> QED
      BY <2>1, <2>3, <3>2 DEF LookPC, Met, plan, manifest
  <2> QED
    BY <2>2, <2>3
<1>5. CASE LifecycleError
  <2>1. progressed' = TRUE \/ pc' \notin LookPC
    BY <1>5 DEF LifecycleError, Return, LookPC
  <2> QED
    BY <2>1
<1>6. CASE ReadMarker
  <2>1. pc = "once" /\ UNCHANGED <<again, facts, manifest>>
    BY <1>6 DEF ReadMarker, child
  <2>2. progressed' = TRUE \/ UNCHANGED progressed
    BY <1>6, ReadMarkerCases DEF Return
  <2> QED
    BY <2>1, <2>2 DEF LookPC, Met, plan, manifest
<1>7. CASE ReadMarkerFails
  <2>1. progressed' = TRUE \/ pc' \notin LookPC
    BY <1>7 DEF ReadMarkerFails, Return, LookPC
  <2> QED
    BY <2>1
<1>8. CASE NotifySealed
  <2>1. progressed' = TRUE \/ pc' \notin LookPC
    BY <1>8 DEF NotifySealed, Return, LookPC
  <2> QED
    BY <2>1
<1>9. CASE Launch
  <2>1. progressed' = TRUE \/ pc' \notin LookPC
    BY <1>9 DEF Launch, Return, LookPC
  <2> QED
    BY <2>1
<1>10. CASE InternalError
  <2>1. progressed' = TRUE \/ pc' \notin LookPC
    BY <1>10 DEF InternalError, Return, LookPC
  <2> QED
    BY <2>1
<1>11. CASE Complete
  <2>1. progressed' = TRUE \/ pc' \notin LookPC
    BY <1>11 DEF Complete, Return, LookPC
  <2> QED
    BY <2>1
<1>12. CASE Fail
  <2>1. progressed' = TRUE \/ pc' \notin LookPC
    BY <1>12 DEF Fail, Return, LookPC
  <2> QED
    BY <2>1
<1>13. CASE MarkSuccess
  <2>1. progressed' = TRUE \/ pc' \notin LookPC
    BY <1>13 DEF MarkSuccess, Return, LookPC
  <2> QED
    BY <2>1
<1>14. CASE ResolveFails \/ VisitTask \/ SkipAborted \/ FinalizeRemaining \/ AllFinal \/ Spawn
  \/ SpawnFails \/ Fork \/ ChildEnds \/ TimesOut \/ EndGroup \/ KillGroup \/ BackOff \/ Retry \/
  Report \/ Close \/ SettleError \/ CloseError \/ CancelTail \/ CloseCancelled \/ Quit \/
  Cancelled \/ PipelineError \/ Crash
  <2>1. pc' \in LookPC => pc \in LookPC /\ UNCHANGED <<again, progressed, facts, manifest>>
    BY <1>14 DEF ResolveFails, VisitTask, SkipAborted, Settle, Status, Record, RecordFails,
      FinalizeRemaining, AllFinal, Spawn, SpawnFails, Fork, ChildEnds, Works, Succeeds,
      TimesOut, EndGroup, Survivors, KillGroup, BackOff, Retry, Report, Close, SettleError,
      CloseError, CancelTail, CloseCancelled, Quit, Cancelled, Awaiting, ChildUp, PipelineError,
      Crash
  <2> QED
    BY <2>1 DEF Met, plan, manifest
<1> QED
  BY <1>1, <1>2, <1>3, <1>4, <1>5, <1>6, <1>7, <1>8, <1>9, <1>10, <1>11, <1>12, <1>13, <1>14 DEF
    Next, Step

\* The pass limit apart, only false conditions are given up.
LEMMA MissStep ==
  ASSUME TypeOK, DeferredInv, NoMissedTask, Next
  PROVE  NoMissedTask'
<1> USE DEF NoMissedTask
<1>1. CASE ResolveFails
  <2>1. abort'
    BY <1>1 DEF ResolveFails
  <2> QED
    BY <2>1
<1>2. CASE EndPass
  <2>1. pc' = "finalising" /\ ~abort' => queue' = again \o queue /\ queue = <<>> /\ UNCHANGED pass
    BY <1>2 DEF EndPass, ending
  <2>2. pc' = "finalising" /\ ~abort' => queue' = again
    BY <2>1 DEF TypeOK, LoopType
  <2>3. progressed' = (progressed /\ pass = pass')
    BY <1>2 DEF EndPass
  <2>4. pc' = "finalising" /\ ~abort' => again = <<>> \/ pass = MaxPasses \/ ~progressed
    BY <1>2, <2>2 DEF EndPass, ending
  <2>5. UNCHANGED <<facts, manifest>> /\ pc = "next"
    BY <1>2 DEF EndPass, child
  <2>6. CASE pc' = "finalising" /\ ~abort' /\ progressed
    <3>1. progressed' /\ (again = <<>> \/ pass' = MaxPasses)
      BY <2>1, <2>3, <2>4, <2>6
    <3>2. again = <<>> => Len(queue') = 0
      BY <2>2, <2>6
    <3> QED
      BY <3>1, <3>2, BoundAssumption
  <2>7. CASE pc' = "finalising" /\ ~abort' /\ ~progressed
    BY <2>2, <2>5, <2>7 DEF DeferredInv, LookPC, Met, plan, manifest
  <2> QED
    BY <2>6, <2>7 DEF TypeOK, LoopType
<1>3. CASE FinalizeRemaining
  <2>1. queue' = Tail(queue) /\ queue # <<>> /\ queue \in Seq(Task) /\ pc = "finalising"
    BY <1>3 DEF FinalizeRemaining, TypeOK, LoopType
  <2>2. \A i \in 1 .. Len(queue') : i + 1 \in 1 .. Len(queue) /\ queue'[i] = queue[i + 1]
    BY <2>1
  <2>3. UNCHANGED <<facts, manifest, abort, pass, progressed>>
    BY <1>3 DEF FinalizeRemaining, child, ending
  <2> QED
    BY <2>1, <2>2, <2>3 DEF Met, plan, manifest
<1>4. CASE ReadMarker
  <2>1. pc' # "finalising"
    BY <1>4, ReadMarkerCases DEF ReadMarker, Return
  <2> QED
    BY <2>1
<1>5. CASE Launch
  <2>1. pc' # "finalising"
    BY <1>5 DEF Launch, Return
  <2> QED
    BY <2>1
<1>6. CASE Complete
  <2>1. pc' # "finalising"
    BY <1>6 DEF Complete, Return
  <2> QED
    BY <2>1
<1>7. CASE Fail
  <2>1. pc' # "finalising"
    BY <1>7 DEF Fail, Return
  <2> QED
    BY <2>1
<1>8. CASE Quit
  <2>1. abort'
    BY <1>8 DEF Quit
  <2> QED
    BY <2>1
<1>9. CASE Start \/ Resolve \/ VisitTask \/ SkipAborted \/ AllFinal \/ EvaluateCondition \/
  LifecycleError \/ ReadMarkerFails \/ NotifySealed \/ Spawn \/ SpawnFails \/ InternalError \/
  Fork \/ ChildEnds \/ TimesOut \/ EndGroup \/ KillGroup \/ BackOff \/ Retry \/ MarkSuccess \/
  Report \/ Close \/ SettleError \/ CloseError \/ CancelTail \/ CloseCancelled \/ Cancelled \/
  PipelineError \/ Crash
  <2>1. pc' \in {"finalising"} => pc = "finalising" /\ UNCHANGED <<queue, facts, manifest,
    abort, pass, progressed>>
    BY <1>9 DEF Start, Resolve, VisitTask, SkipAborted, Settle, Status, Record, RecordFails,
      AllFinal, EvaluateCondition, LifecycleError, Return, ReadMarkerFails, NotifySealed, Spawn,
      SpawnFails, InternalError, Fork, ChildEnds, Works, Succeeds, TimesOut, EndGroup,
      Survivors, KillGroup, BackOff, Retry, MarkSuccess, Report, Close, SettleError, CloseError,
      CancelTail, CloseCancelled, Cancelled, Awaiting, ChildUp, PipelineError, Crash
  <2> QED
    BY <2>1 DEF Met, plan, manifest
<1> QED
  BY <1>1, <1>2, <1>3, <1>4, <1>5, <1>6, <1>7, <1>8, <1>9 DEF Next, Step

\* Without privileged tasks every attempt ends with its group.
LEMMA GroupStep ==
  ASSUME Unprivileged, TypeOK, PlaceInv, GroupIsGone, Next
  PROVE  GroupIsGone'
<1> USE DEF GroupIsGone, child
<1>1. CASE Start
  BY <1>1 DEF Start
<1>2. CASE Spawn
  BY <1>2 DEF Spawn
<1>3. CASE Fork
  BY <1>3 DEF Fork
<1>4. CASE ChildEnds
  BY <1>4 DEF ChildEnds, Works, Succeeds
<1>5. CASE TimesOut
  BY <1>5 DEF TimesOut
<1>6. CASE EndGroup
  <2>1. ~plan[cur].root
    BY <1>6, PlanUnprivileged DEF EndGroup, TaskPC, TypeOK
  <2> QED
    BY <1>6, <2>1 DEF EndGroup, Survivors
<1>7. CASE KillGroup
  <2>1. ~plan[cur].root
    BY <1>7, PlanUnprivileged DEF KillGroup, TaskPC, TypeOK
  <2> QED
    BY <1>7, <2>1 DEF KillGroup, Survivors
<1>8. CASE Cancelled
  BY <1>8 DEF Cancelled, Awaiting, ChildUp
<1>9. CASE Crash
  BY <1>9 DEF Crash
<1>10. CASE Resolve \/ ResolveFails \/ VisitTask \/ SkipAborted \/ EndPass \/ FinalizeRemaining
  \/ AllFinal \/ EvaluateCondition \/ LifecycleError \/ ReadMarker \/ ReadMarkerFails \/
  NotifySealed \/ Launch \/ SpawnFails \/ InternalError \/ BackOff \/ Retry \/ Complete \/ Fail
  \/ MarkSuccess \/ Report \/ Close \/ SettleError \/ CloseError \/ CancelTail \/ CloseCancelled
  \/ Quit \/ PipelineError
  <2>1. UNCHANGED group /\ (pc \in {"running", "ended", "killing"} => pc' = pc)
    BY <1>10 DEF Resolve, ResolveFails, VisitTask, SkipAborted, Settle, Status, Record,
      RecordFails, EndPass, FinalizeRemaining, AllFinal, EvaluateCondition, LifecycleError,
      Return, ReadMarker, ReadMarkerFails, NotifySealed, Launch, SpawnFails, InternalError,
      BackOff, Retry, Complete, Fail, MarkSuccess, Report, Close, SettleError, CloseError,
      CancelTail, CloseCancelled, Quit, PipelineError
  <2> QED
    BY <2>1
<1> QED
  BY <1>1, <1>2, <1>3, <1>4, <1>5, <1>6, <1>7, <1>8, <1>9, <1>10 DEF Next, Step

-----------------------------------------------------------------------------
(* The theorems.                                                             *)

\* Types are kept.
LEMMA TypeStep ==
  ASSUME TypeOK, PlaceInv, Next
  PROVE  TypeOK'
<1>1. pc \in TaskPC => PlanFields
  BY PlanType DEF TypeOK
<1>2. /\ attempt \in Nat /\ rc \in {0, 1, 124} /\ why \in {"", "timeout", "cancel"}
      /\ group \subseteq {"leader", "fork"}
      /\ facts \in SUBSET Facts /\ done \in [Task -> SUBSET Contents]
  BY DEF TypeOK, ChildType
<1>3. content \in [Task -> Contents]
  BY DEF TypeOK, ManifestType
<1>4. ManifestType' /\ OutcomeType' /\ LoopType' /\ PlaceType' /\ EndingType'
  BY ManifestTypeStep, OutcomeTypeStep, LoopTypeStep, PlaceTypeStep, EndingTypeStep DEF TypeOK
<1>5. DatabaseType'
  BY <1>1, MarkerTypeStep, RecordTypeStep DEF DatabaseType
<1>6. ChildType'
  BY <1>1, <1>2, <1>3, AttemptTypeStep, ExitTypeStep, GroupTypeStep, WorldTypeStep DEF ChildType
<1>7. faults' \in 0 .. MaxFaults
  BY FaultsTypeStep
<1> QED
  BY <1>4, <1>5, <1>6, <1>7 DEF TypeOK

\* The invariant holds before the first run.
LEMMA InitInv ==
  ASSUME Init
  PROVE  IInv
<1>1. TypeOK
  <2>1. ManifestType
    <3>1. profiles \in Histories /\ profiles \in Seq([Task -> TaskSpec]) /\ runs = 0
      BY PlanAssumption DEF Init
    <3>2. runs \in 0 .. Len(profiles)
      BY <3>1
    <3>3. content \in [Task -> Contents] /\ checksum \in [Task -> Contents \cup {Unread}]
      BY DEF Init
    <3> QED
      BY <3>1, <3>2, <3>3 DEF Init, ManifestType
  <2>2. DatabaseType /\ OutcomeType
    BY DEF Init, DatabaseType, OutcomeType
  <2>3. LoopType
    <3>1. <<>> \in Seq(Task)
      OBVIOUS
    <3>2. 0 \in 0 .. MaxPasses
      BY BoundAssumption
    <3> QED
      BY <3>1, <3>2 DEF Init, LoopType
  <2>4. ChildType /\ PlaceType /\ EndingType
    BY DEF Init, ChildType, PlaceType, EndingType
  <2>5. faults \in 0 .. MaxFaults
    <3>1. 0 \in 0 .. MaxFaults
      BY BoundAssumption
    <3> QED
      BY <3>1 DEF Init
  <2> QED
    BY <2>1, <2>2, <2>3, <2>4, <2>5 DEF TypeOK
<1> USE DEF Init
<1>2. PlaceInv /\ QuitInv /\ SettledInv
  BY DEF PlaceInv, QuitInv, SettledInv, TaskPC
<1>3. RecordInv /\ ExitInv /\ CodeInv /\ DoneInv
  BY DEF RecordInv, ExitInv, CodeInv, DoneInv, Terminal
<1>4. ChecksumInv /\ EarnedInv /\ OwedInv
  BY DEF ChecksumInv, EarnedInv, Earned, OwedInv
<1>5. UnmarkedInv /\ StoppedInv /\ DeferredInv /\ NoMissedTask
  BY DEF UnmarkedInv, StartPC, StoppedInv, Stopper, DeferredInv, LookPC, NoMissedTask
<1> QED
  BY <1>1, <1>2, <1>3, <1>4, <1>5 DEF IInv

\* Every step keeps it.
LEMMA NextInv ==
  ASSUME IInv, Next
  PROVE  IInv'
<1> USE DEF IInv
<1>1. pc \in TaskPC => PlanFields
  BY PlanType DEF TypeOK
<1>2. TypeOK' /\ PlaceInv' /\ QuitInv' /\ SettledInv'
  BY TypeStep, PlaceStep, QuitStep, SettledStep
<1>3. RecordInv' /\ ExitInv' /\ CodeInv' /\ DoneInv' /\ ChecksumInv'
  BY RecordStep, ExitStep, CodeStep, DoneStep, ChecksumStep
<1>4. EarnedInv' /\ OwedInv' /\ UnmarkedInv'
  BY <1>1, EarnedStep, OwedStep, UnmarkedStep
<1>5. StoppedInv' /\ DeferredInv' /\ NoMissedTask'
  BY StoppedStep, DeferredStep, MissStep
<1> QED
  BY <1>2, <1>3, <1>4, <1>5

\* So does a stuttering step.
LEMMA StutterInv ==
  ASSUME IInv, UNCHANGED vars
  PROVE  IInv'
<1> USE DEF vars, manifest, databases, outcome, loop, child, ending, plan, IInv
<1>1. TypeOK'
  <2>1. ManifestType' /\ DatabaseType' /\ OutcomeType'
    BY DEF TypeOK, ManifestType, DatabaseType, OutcomeType
  <2>2. LoopType' /\ PlaceType' /\ EndingType'
    BY DEF TypeOK, LoopType, PlaceType, EndingType
  <2>3. ChildType'
    BY DEF TypeOK, ChildType
  <2>4. faults' \in 0 .. MaxFaults
    BY DEF TypeOK
  <2> QED
    BY <2>1, <2>2, <2>3, <2>4 DEF TypeOK
<1>2. PlaceInv' /\ QuitInv' /\ SettledInv'
  BY DEF PlaceInv, QuitInv, SettledInv, Waiting, TailIsSettled
<1>3. RecordInv' /\ ExitInv' /\ CodeInv' /\ DoneInv' /\ ChecksumInv'
  BY DEF RecordInv, ExitInv, SuccessIsComplete, CodeInv, DoneInv, ChecksumInv
<1>4. EarnedInv' /\ OwedInv' /\ UnmarkedInv' /\ StoppedInv'
  BY DEF EarnedInv, Earned, OwedInv, Owed, UnmarkedInv, Marked, StoppedInv, Stopper
<1>5. DeferredInv' /\ NoMissedTask'
  BY DEF DeferredInv, NoMissedTask, Met
<1> QED
  BY <1>1, <1>2, <1>3, <1>4, <1>5

\* The strengthening of the properties of a run is an inductive invariant.
THEOREM Invariance == Spec => []IInv
<1>1. Init => IInv
  BY InitInv
<1>2. IInv /\ [Next]_vars => IInv'
  BY NextInv, StutterInv
<1> QED
  BY <1>1, <1>2, PTL DEF Spec

\* Every variable keeps its type.
THEOREM TypeCorrect == Spec => []TypeOK
<1>1. IInv => TypeOK
  BY DEF IInv
<1> QED
  BY <1>1, Invariance, PTL

\* However a run ends short of a crash, its outcomes, its exit code and the state
\* database tell the truth.
THEOREM TrueReport == Spec => []ReportIsTrue
<1>1. IInv => ReportIsTrue
  BY DEF IInv, ReportIsTrue, SettledInv, TailIsSettled, RecordInv, RecordAgrees, ExitInv
<1> QED
  BY <1>1, Invariance, PTL

\* No task whose condition holds is given up as never met before the pass limit.
THEOREM NoneMissed == Spec => []NoMissedTask
<1>1. IInv => NoMissedTask
  BY DEF IInv
<1> QED
  BY <1>1, Invariance, PTL

\* A marker names what ran to exit 0 here, and a once task that succeeded in a run
\* that exited 0 has its marker unless the write failed.
THEOREM ExactMarkers == Spec => []MarkersAreExact
<1>1. IInv => MarkersAreExact
  BY DEF IInv, MarkersAreExact, EarnedInv, OwedInv
<1> QED
  BY <1>1, Invariance, PTL

\* No marked task starts again; and under --stop-on-fail none after a task has failed,
\* unless it failed by an exception outside its execution.
THEOREM AllowedStarts == Spec => StartsAreAllowed
<1>1. ASSUME IInv, pc = "spawn"
      PROVE  /\ plan[cur].once # "no" => ~Marked(cur)
             /\ strict => \A t \in Task : status[t] = "failed" => reason[t] = "lifecycle"
  BY <1>1 DEF IInv, UnmarkedInv, StartPC, StoppedInv, Stopper, TaskPC
<1>2. IInv => [pc = "spawn" /\ pc' = "running" =>
        /\ plan[cur].once # "no" => ~Marked(cur)
        /\ strict => \A t \in Task : status[t] = "failed" => reason[t] = "lifecycle"]_vars
  BY <1>1
<1> QED
  BY <1>2, Invariance, PTL DEF StartsAreAllowed

\* Where no task runs as root, nothing of an attempt that is over is alive.
THEOREM GroupEnds ==
  ASSUME Unprivileged
  PROVE  Spec => []GroupIsGone
<1>1. Init => GroupIsGone
  BY DEF Init, GroupIsGone
<1>2. IInv /\ GroupIsGone /\ [Next]_vars => GroupIsGone'
  <2>1. CASE Next
    BY <2>1, GroupStep DEF IInv
  <2>2. CASE UNCHANGED vars
    BY <2>2 DEF vars, child, GroupIsGone
  <2> QED
    BY <2>1, <2>2
<1> QED
  BY <1>1, <1>2, Invariance, PTL DEF Spec
=============================================================================
