---------------------------- MODULE TaskPipeline ----------------------------
(***************************************************************************)
(* The task sequence of an update (update_dusky.py, phase 2): the user      *)
(* tasks of a profile in order, with conditions that defer a task to later  *)
(* passes, run-once markers, retries, timeouts, stop-on-fail, the quit key  *)
(* and errors, over the runs of one machine.                                *)
(*                                                                         *)
(* A status change and the state write that follows it are one step: the    *)
(* write is shielded and joined when it is cancelled, and a status is lost   *)
(* in a crash.  A quit sets abort at once and the cancellation reaches the   *)
(* pipeline at a later await.  `group' is what is alive of the process       *)
(* group (or, for a tty task, the process tree) of the tasks of this run,    *)
(* its leader and what that forked; what a finished tty task leaves behind   *)
(* is not signalled and not in it.  A script does not change between the     *)
(* resolution, which takes its checksum, and its execution.                  *)
(***************************************************************************)
EXTENDS Naturals, Sequences

CONSTANTS
  N,          \* user tasks of the profile
  Histories,  \* sequences of profiles, one for each run of a machine
  Facts,      \* what conditions are about
  Contents,   \* contents of a script, each its own checksum
  Unread,     \* the empty checksum
  None,       \* no marker, no record
  MaxPasses,  \* max_defer_passes (3 by default)
  MaxFaults   \* bound on crashes, database and internal errors

Task == 1 .. N
OnceModes == {"no", "content", "forever", "sealed"}

\* One line of the manifest. `missing': its script was not found.  `ready': it was,
\* is not blocked and has the privileges it asks for. `flips': the facts that running
\* it may change.
TaskSpec == {s \in [needs : SUBSET Facts, once : OnceModes, retry : Nat,
                    ignore : BOOLEAN, root : BOOLEAN, tty : BOOLEAN,
                    ready : BOOLEAN, missing : BOOLEAN, flips : SUBSET Facts] :
               s.missing => ~s.ready}

ASSUME PlanAssumption ==
  N \in Nat /\ Histories # {} /\ Histories \subseteq Seq([Task -> TaskSpec])
\* A row of the once database.
Marker == [sum : Contents \cup {Unread}, mode : OnceModes \ {"no"},
           notified : Contents \cup {Unread}]

ASSUME NameAssumption == Unread \notin Contents /\ Contents # {} /\ None \notin Marker
ASSUME BoundAssumption == MaxPasses \in Nat \ {0} /\ MaxFaults \in Nat

VARIABLES
  profiles, runs,    \* the profile of each run, and the runs begun
  strict,            \* --stop-on-fail
  content,           \* the scripts
  checksum,          \* their checksums, as resolved
  facts,             \* the facts that hold
  marker, record,    \* the once database, and what this run wrote to the state one
  status, reason,    \* of each task of this run
  pc, cur,           \* where the pipeline is, and the task it is at
  queue, again,      \* tasks still to visit in this pass, and those deferred
  pass, progressed,
  attempt, rc, why,  \* attempt, its exit code, why its group is being killed
  group,
  abort, quit, exit, \* abort_flag, a cancellation under way, exit_code
  faults,
  unsaved,           \* history: tasks of this run a database write failed for
  done               \* history: contents of each script that exited 0

manifest == <<profiles, runs, strict, content, checksum>>
databases == <<marker, record, unsaved>>
outcome == <<status, reason>>
loop == <<cur, queue, again, pass, progressed>>
child == <<attempt, rc, why, group, facts, done>>
ending == <<abort, quit, exit>>
vars == <<manifest, databases, outcome, loop, child, ending, pc, faults>>

plan == profiles[runs]

Terminal == {"success", "failed", "skipped"}
\* Mutant: the handlers forget the task that was running.
UnsettledPending == {t \in Task : status[t] = "pending"}

Unsettled == {t \in Task : status[t] \in {"pending", "running"}}
Met(t) == plan[t].needs \subseteq facts
Fault == faults < MaxFaults /\ faults' = faults + 1

ManifestType ==
  /\ profiles \in Histories /\ runs \in 0 .. Len(profiles) /\ strict \in BOOLEAN
  /\ content \in [Task -> Contents] /\ checksum \in [Task -> Contents \cup {Unread}]
DatabaseType ==
  /\ marker \in [Task -> Marker \cup {None}]
  /\ record \in [Task -> Terminal \cup {None}] /\ unsaved \subseteq Task
OutcomeType ==
  /\ status \in [Task -> Terminal \cup {"pending", "running"}]
  /\ reason \in [Task -> {"", "aborted", "never met", "once", "unavailable",
                          "unrunnable", "ignored", "failed", "error", "lifecycle",
                          "cancelled"}]
LoopType ==
  /\ cur \in Task \cup {0} /\ queue \in Seq(Task) /\ again \in Seq(Task)
  /\ pass \in 0 .. MaxPasses /\ progressed \in BOOLEAN
ChildType ==
  /\ attempt \in Nat /\ rc \in {0, 1, 124} /\ why \in {"", "timeout", "cancel"}
  /\ group \subseteq {"leader", "fork"}
  /\ facts \in SUBSET Facts /\ done \in [Task -> SUBSET Contents]
PlaceType ==
  pc \in {"idle", "resolve", "next", "condition", "once", "notifying", "launch",
          "spawn", "running", "ended", "killing", "decide", "backoff", "marking",
          "finalising", "report", "closing", "erring", "cancelling", "finished"}
EndingType ==
  /\ abort \in BOOLEAN /\ quit \in BOOLEAN /\ exit \in {0, 1, 130}
TypeOK ==
  /\ ManifestType /\ DatabaseType /\ OutcomeType /\ LoopType /\ ChildType
  /\ PlaceType /\ EndingType /\ faults \in 0 .. MaxFaults

Init ==
  /\ profiles \in Histories /\ runs = 0 /\ strict = FALSE
  /\ \E c \in Contents : content = [t \in Task |-> c]
  /\ checksum = [t \in Task |-> Unread]
  /\ facts = {}
  /\ marker = [t \in Task |-> None] /\ record = [t \in Task |-> None]
  /\ status = [t \in Task |-> "pending"] /\ reason = [t \in Task |-> ""]
  /\ pc = "idle" /\ cur = 0 /\ queue = <<>> /\ again = <<>>
  /\ pass = 0 /\ progressed = FALSE
  /\ attempt = 0 /\ rc = 0 /\ why = "" /\ group = {}
  /\ abort = FALSE /\ quit = FALSE /\ exit = 0
  /\ faults = 0 /\ unsaved = {} /\ done = [t \in Task |-> {}]

-----------------------------------------------------------------------------
(* The two databases.  A failed write is a warning and the run goes on.     *)

Record(t, s) ==
  /\ record' = [record EXCEPT ![t] = s]
  /\ UNCHANGED <<unsaved, faults>>

RecordFails(t) ==
  Fault /\ unsaved' = unsaved \cup {t} /\ UNCHANGED record

Status(t, s, w) ==
  /\ status' = [status EXCEPT ![t] = s]
  /\ reason' = [reason EXCEPT ![t] = w]

Settle(t, s, w) == Status(t, s, w) /\ (Record(t, s) \/ RecordFails(t))

\* Mutant: the mode in which the marker was written is not looked at.
CheckMarkerStatusOwnMode(t) ==
  IF marker[t] = None THEN "run"
  ELSE IF plan[t].once = "content" /\ marker[t].sum # checksum[t] THEN "run" ELSE "skip"

CheckMarkerStatus(t) ==
  LET m == marker[t]
      modes == {plan[t].once, m.mode}
      known == checksum[t] # Unread
  IN CASE m = None -> "run"
       [] m # None /\ "forever" \in modes -> "skip"
       [] m # None /\ "forever" \notin modes /\ "sealed" \in modes ->
            IF known /\ checksum[t] \notin {m.sum, m.notified}
              THEN "notify_sealed" ELSE "skip"
       [] OTHER -> IF known /\ m.sum = checksum[t] THEN "skip" ELSE "run"

-----------------------------------------------------------------------------
(* A run, from the resolution of its scripts to the last pass.              *)

\* Between runs the profile may change, and the scripts of its once tasks.
Start ==
  /\ pc \in {"idle", "finished"} /\ runs < Len(profiles)
  /\ runs' = runs + 1 /\ strict' \in BOOLEAN
  /\ \/ UNCHANGED content
     \/ /\ runs > 0
        /\ \E c \in Contents : content' =
             [t \in Task |-> IF profiles[runs'][t].once = "no" THEN content[t] ELSE c]
  /\ pc' = "resolve"
  /\ checksum' = [t \in Task |-> Unread]
  /\ status' = [t \in Task |-> "pending"] /\ reason' = [t \in Task |-> ""]
  /\ cur' = 0 /\ queue' = <<>> /\ again' = <<>> /\ pass' = 0 /\ progressed' = FALSE
  /\ attempt' = 0 /\ rc' = 0 /\ why' = "" /\ group' = {}
  /\ abort' = FALSE /\ quit' = FALSE /\ exit' = 0 /\ unsaved' = {}
  /\ record' = [t \in Task |-> None]
  /\ UNCHANGED <<profiles, facts, done, marker, faults>>

Resolve ==
  /\ pc = "resolve"
  /\ \/ checksum' = content /\ UNCHANGED faults
     \/ Fault /\ \E t \in Task : checksum' = [content EXCEPT ![t] = Unread]
  /\ pc' = "next" /\ queue' = [i \in 1 .. N |-> i]
  /\ UNCHANGED <<profiles, runs, strict, content, databases, outcome, cur, again, pass,
                 progressed, child, ending>>

ResolveFails ==
  /\ pc = "resolve" /\ Fault
  /\ pc' = "finalising" /\ queue' = [i \in 1 .. N |-> i] /\ abort' = TRUE
  /\ UNCHANGED <<manifest, databases, outcome, cur, again, pass, progressed, child,
                 quit, exit>>

VisitTask ==
  /\ pc = "next" /\ queue # <<>> /\ ~abort
  /\ cur' = Head(queue) /\ queue' = Tail(queue) /\ pc' = "condition"
  /\ UNCHANGED <<manifest, databases, outcome, again, pass, progressed, child,
                 ending, faults>>

\* The first pass finalizes what it no longer visits; later ones leave it to
\* FinalizeRemaining.
SkipAborted ==
  /\ pc = "next" /\ queue # <<>> /\ abort /\ pass = 0
  /\ Settle(Head(queue), "skipped", "aborted")
  /\ queue' = Tail(queue)
  /\ UNCHANGED <<manifest, marker, cur, again, pass, progressed, child, ending, pc>>

EndPass ==
  /\ pc = "next" /\ (queue = <<>> \/ (abort /\ pass > 0))
  /\ LET left == again \o queue
         last == abort \/ pass = MaxPasses \/ (pass > 0 /\ ~progressed)
     IN /\ queue' = left /\ again' = <<>>
        /\ pc' = IF left = <<>> \/ last THEN "finalising" ELSE "next"
        /\ pass' = IF left = <<>> \/ last THEN pass ELSE pass + 1
        /\ progressed' = (progressed /\ pass = pass')
  /\ UNCHANGED <<manifest, databases, outcome, cur, child, ending, faults>>

FinalizeRemaining ==
  /\ pc = "finalising" /\ queue # <<>>
  /\ Settle(Head(queue), "skipped", IF abort THEN "aborted" ELSE "never met")
  /\ queue' = Tail(queue)
  /\ UNCHANGED <<manifest, marker, cur, again, pass, progressed, child, ending, pc>>

AllFinal ==
  /\ pc = "finalising" /\ queue = <<>>
  /\ pc' = "report"
  /\ UNCHANGED <<manifest, databases, outcome, loop, child, ending, faults>>

\* Mutant: only a task that completed counts as progress of a pass.
ReturnOnSuccess ==
  pc' = "next" /\ progressed' = (progressed \/ status'[cur] = "success")

\* A task returned an outcome other than "deferred".
Return == pc' = "next" /\ progressed' = TRUE

-----------------------------------------------------------------------------
(* One task: its condition, its marker, its attempts, its outcome.          *)

EvaluateCondition ==
  /\ pc = "condition"
  /\ IF Met(cur)
       THEN pc' = (IF plan[cur].once = "no" THEN "launch" ELSE "once") /\ UNCHANGED again
       ELSE pc' = "next" /\ again' = Append(again, cur)
  /\ UNCHANGED <<manifest, databases, outcome, cur, queue, pass, progressed, child,
                 ending, faults>>

\* An exception outside the execution proper, such as a condition that cannot
\* be evaluated, fails this task and no other, with --stop-on-fail too.
LifecycleError ==
  /\ pc = "condition" /\ Fault
  /\ Status(cur, "failed", "lifecycle")
  /\ record' = [record EXCEPT ![cur] = "failed"]
  /\ Return
  /\ UNCHANGED <<manifest, marker, unsaved, cur, queue, again, pass, child, ending>>

ReadMarker ==
  /\ pc = "once"
  /\ CASE CheckMarkerStatus(cur) = "run" ->
            pc' = "launch" /\ UNCHANGED <<outcome, record, unsaved, progressed, faults>>
       [] CheckMarkerStatus(cur) = "skip" -> Settle(cur, "skipped", "once") /\ Return
       [] CheckMarkerStatus(cur) = "notify_sealed" ->
            pc' = "notifying" /\ UNCHANGED <<outcome, record, unsaved, progressed, faults>>
  /\ UNCHANGED <<manifest, marker, cur, queue, again, pass, child, ending>>

ReadMarkerFails ==
  /\ pc = "once" /\ Fault
  /\ Status(cur, "skipped", "unavailable")
  /\ record' = [record EXCEPT ![cur] = "skipped"]
  /\ Return
  /\ UNCHANGED <<manifest, marker, unsaved, cur, queue, again, pass, child, ending>>

NotifySealed ==
  /\ pc = "notifying"
  /\ \/ /\ marker' = [marker EXCEPT ![cur].notified = checksum[cur]]
        /\ UNCHANGED faults
     \/ Fault /\ UNCHANGED marker
  /\ Status(cur, "skipped", "once")
  /\ record' = [record EXCEPT ![cur] = "skipped"]
  /\ Return
  /\ UNCHANGED <<manifest, unsaved, cur, queue, again, pass, child, ending>>

\* Mutant: a task that cannot run is skipped without a state record.
LaunchUnrecorded ==
  /\ pc = "launch"
  /\ IF plan[cur].ready
       THEN /\ status' = [status EXCEPT ![cur] = "running"]
            /\ attempt' = 1 /\ pc' = "spawn"
            /\ UNCHANGED <<reason, progressed>>
       ELSE Status(cur, "skipped", "unrunnable") /\ Return /\ UNCHANGED attempt
  /\ UNCHANGED <<manifest, databases, cur, queue, again, pass, rc, why, group, facts,
                 done, ending, faults>>

Launch ==
  /\ pc = "launch"
  /\ IF plan[cur].ready
       THEN /\ status' = [status EXCEPT ![cur] = "running"]
            /\ attempt' = 1 /\ pc' = "spawn"
            /\ UNCHANGED <<reason, record, unsaved, progressed, faults>>
       ELSE Settle(cur, "skipped", "unrunnable") /\ Return /\ UNCHANGED attempt
  /\ UNCHANGED <<manifest, marker, cur, queue, again, pass, rc, why, group, facts,
                 done, ending>>

\* Only the attempts of a tty task look at the abort flag before they start.
Spawn ==
  /\ pc = "spawn"
  /\ IF plan[cur].tty /\ abort
       THEN rc' = (IF attempt = 1 THEN 1 ELSE rc) /\ pc' = "decide" /\ UNCHANGED group
       ELSE group' = group \cup {"leader"} /\ pc' = "running" /\ UNCHANGED rc
  /\ UNCHANGED <<manifest, databases, outcome, loop, attempt, why, facts, done,
                 ending, faults>>

\* A spawn that fails is not retried.
SpawnFails ==
  /\ pc = "spawn" /\ Fault
  /\ rc' = 1 /\ attempt' = plan[cur].retry + 1 /\ pc' = "decide"
  /\ UNCHANGED <<manifest, databases, outcome, loop, why, group, facts, done, ending>>

\* An exception in the execution fails the task even with ignore-fail.
InternalError ==
  /\ pc = "spawn" /\ Fault
  /\ Status(cur, "failed", "error")
  /\ record' = [record EXCEPT ![cur] = "failed"]
  /\ abort' = (abort \/ strict)
  /\ Return
  /\ UNCHANGED <<manifest, marker, unsaved, cur, queue, again, pass, child, quit, exit>>

Fork ==
  /\ pc = "running" /\ ~plan[cur].tty
  /\ group' = group \cup {"fork"}
  /\ UNCHANGED <<manifest, databases, outcome, loop, attempt, rc, why, facts, done,
                 ending, pc, faults>>

\* What the child has done to the world by the time it is gone.
Works == \E flipped \in SUBSET plan[cur].flips :
           facts' = (facts \ plan[cur].flips) \cup flipped

Succeeds == done' = [done EXCEPT ![cur] = @ \cup {content[cur]}]

ChildEnds ==
  /\ pc = "running" /\ Works
  /\ \/ rc' = 0 /\ Succeeds
     \/ rc' = 1 /\ UNCHANGED done
  /\ IF plan[cur].tty THEN group' = {} /\ pc' = "decide"
                      ELSE group' = group \ {"leader"} /\ pc' = "ended"
  /\ UNCHANGED <<manifest, databases, outcome, loop, attempt, why, ending, faults>>

\* Mutant: a tty task has no default timeout.
TimesOutInline ==
  /\ pc = "running" /\ ~plan[cur].tty
  /\ rc' = 124 /\ why' = "timeout" /\ pc' = "killing"
  /\ UNCHANGED <<manifest, databases, outcome, loop, attempt, group, facts, done,
                 ending, faults>>

\* Every task has a positive finite timeout, its own or the default.
TimesOut ==
  /\ pc = "running"
  /\ rc' = 124 /\ why' = "timeout" /\ pc' = "killing"
  /\ UNCHANGED <<manifest, databases, outcome, loop, attempt, group, facts, done,
                 ending, faults>>

\* The processes of root are out of reach of the updater's signals: they end
\* when the terminal closes, later or not at all.
Survivors == IF plan[cur].root THEN SUBSET group ELSE {{}}

\* Mutant: the group is shut down only while its leader lives.
EndGroupByLeader ==
  /\ pc = "ended"
  /\ pc' = "decide"
  /\ UNCHANGED <<manifest, databases, outcome, loop, child, ending, faults>>

EndGroup ==
  /\ pc = "ended"
  /\ group' \in Survivors /\ pc' = "decide"
  /\ UNCHANGED <<manifest, databases, outcome, loop, attempt, rc, why, facts, done,
                 ending, faults>>

\* A child may still complete its work under the signal; its code is 124.
KillGroup ==
  /\ pc = "killing" /\ Works
  /\ Succeeds \/ UNCHANGED done
  /\ group' \in Survivors
  /\ pc' = IF why = "cancel" THEN "cancelling" ELSE "decide"
  /\ UNCHANGED <<manifest, databases, outcome, loop, attempt, rc, why, ending, faults>>

Again == rc # 0 /\ ~abort /\ attempt <= plan[cur].retry

BackOff ==
  /\ pc = "decide" /\ Again
  /\ pc' = "backoff"
  /\ UNCHANGED <<manifest, databases, outcome, loop, child, ending, faults>>

Retry ==
  /\ pc = "backoff"
  /\ attempt' = attempt + 1 /\ pc' = "spawn"
  /\ UNCHANGED <<manifest, databases, outcome, loop, rc, why, group, facts, done,
                 ending, faults>>

Complete ==
  /\ pc = "decide" /\ rc = 0
  /\ Settle(cur, "success", "")
  /\ IF plan[cur].once = "no" THEN Return ELSE pc' = "marking" /\ UNCHANGED progressed
  /\ UNCHANGED <<manifest, marker, cur, queue, again, pass, child, ending>>

\* Mutant: a suppressed failure counts as the one run of a once task.
FailMarksIgnored ==
  /\ pc = "decide" /\ rc # 0 /\ ~Again
  /\ IF plan[cur].ignore /\ ~strict
       THEN /\ Settle(cur, "skipped", "ignored")
            /\ pc' = "marking" /\ UNCHANGED <<abort, progressed>>
       ELSE Settle(cur, "failed", "failed") /\ abort' = (abort \/ strict) /\ Return
  /\ UNCHANGED <<manifest, marker, cur, queue, again, pass, child, quit, exit>>

\* Mutant: a failure stops nothing.
FailGoesOn ==
  /\ pc = "decide" /\ rc # 0 /\ ~Again
  /\ Settle(cur, IF plan[cur].ignore THEN "skipped" ELSE "failed",
            IF plan[cur].ignore THEN "ignored" ELSE "failed")
  /\ Return
  /\ UNCHANGED <<manifest, marker, cur, queue, again, pass, child, ending>>

Fail ==
  /\ pc = "decide" /\ rc # 0 /\ ~Again
  /\ IF plan[cur].ignore /\ ~strict
       THEN Settle(cur, "skipped", "ignored") /\ UNCHANGED abort
       ELSE Settle(cur, "failed", "failed") /\ abort' = (abort \/ strict)
  /\ Return
  /\ UNCHANGED <<manifest, marker, cur, queue, again, pass, child, quit, exit>>

\* Mutant: a new marker has no value for the notified checksum.
MarkSuccessNull ==
  /\ pc = "marking"
  /\ marker' = [marker EXCEPT ![cur] =
       [sum |-> checksum[cur], mode |-> plan[cur].once,
        notified |-> IF @ = None THEN None ELSE @.notified]]
  /\ UNCHANGED <<manifest, record, unsaved, outcome, cur, queue, again, pass, child,
                 ending, faults>>
  /\ Return

\* Mutant: an existing marker is not updated.
MarkSuccessInsert ==
  /\ pc = "marking"
  /\ marker' = IF marker[cur] # None THEN marker ELSE [marker EXCEPT ![cur] =
       [sum |-> checksum[cur], mode |-> plan[cur].once, notified |-> Unread]]
  /\ UNCHANGED <<manifest, record, unsaved, outcome, cur, queue, again, pass, child,
                 ending, faults>>
  /\ Return

\* The notified checksum of an earlier marker is kept.
MarkSuccess ==
  /\ pc = "marking"
  /\ \/ /\ marker' = [marker EXCEPT ![cur] =
             [sum |-> checksum[cur], mode |-> plan[cur].once,
              notified |-> IF @ = None THEN Unread ELSE @.notified]]
        /\ UNCHANGED <<unsaved, faults>>
     \/ Fault /\ unsaved' = unsaved \cup {cur} /\ UNCHANGED marker
  /\ UNCHANGED <<manifest, record, outcome, cur, queue, again, pass, child, ending>>
  /\ Return

-----------------------------------------------------------------------------
(* The end of a run: report, quit, error, crash.                            *)

\* Those that the report counts as failed: a task whose script is missing is counted
\* as missing, whatever became of it.
CountedFailed == {t \in Task : status[t] = "failed" /\ ~plan[t].missing}

\* Mutant: the exit code counts failures only.
ReportFailures ==
  /\ pc = "report"
  /\ exit' = IF CountedFailed # {} THEN 1 ELSE 0
  /\ pc' = "closing"
  /\ UNCHANGED <<manifest, databases, outcome, loop, child, abort, quit, faults>>

Report ==
  /\ pc = "report"
  /\ exit' = IF abort \/ CountedFailed # {} THEN 1 ELSE 0
  /\ pc' = "closing"
  /\ UNCHANGED <<manifest, databases, outcome, loop, child, abort, quit, faults>>

\* Any statement of the sequence outside a task may raise.
PipelineError ==
  /\ pc \in {"finalising", "report"} /\ Fault
  /\ pc' = "erring"
  /\ UNCHANGED <<manifest, databases, outcome, loop, child, ending>>

Close ==
  /\ pc = "closing"
  /\ pc' = "finished"
  /\ UNCHANGED <<manifest, databases, outcome, loop, child, ending, faults>>

First(t) == t \in Unsettled /\ \A u \in Unsettled : t <= u

SettleError ==
  /\ pc = "erring"
  /\ \E t \in Task : First(t) /\ Settle(t, "failed", "error")
  /\ UNCHANGED <<manifest, marker, loop, child, ending, pc>>

CloseError ==
  /\ pc = "erring" /\ Unsettled = {}
  /\ pc' = "finished" /\ abort' = TRUE /\ exit' = 1
  /\ UNCHANGED <<manifest, databases, outcome, loop, child, quit, faults>>

\* action_quit: the flag is set at once, the worker is cancelled afterwards.
Quit ==
  /\ pc \notin {"idle", "finished", "cancelling"} /\ ~quit
  /\ abort' = TRUE /\ quit' = TRUE
  /\ UNCHANGED <<manifest, databases, outcome, loop, child, exit, pc, faults>>

\* At "next" the await is that of the write which led there.
Awaiting == {"resolve", "next", "condition", "once", "notifying", "spawn", "backoff",
             "marking", "finalising", "closing", "erring"}
ChildUp == {"running", "ended", "killing"}

\* CancelledError arrives at an await; a running child is killed first.
Cancelled ==
  /\ quit /\ pc \in Awaiting \cup ChildUp
  /\ quit' = FALSE
  /\ IF pc \in ChildUp THEN pc' = "killing" /\ why' = "cancel"
                       ELSE pc' = "cancelling" /\ UNCHANGED why
  /\ UNCHANGED <<manifest, databases, outcome, loop, attempt, rc, group, facts, done,
                 abort, exit, faults>>

CancelTail ==
  /\ pc = "cancelling"
  /\ \E t \in Task : First(t) /\ Settle(t, "skipped", "cancelled")
  /\ UNCHANGED <<manifest, marker, loop, child, ending, pc>>

CloseCancelled ==
  /\ pc = "cancelling" /\ Unsettled = {}
  /\ pc' = "finished" /\ abort' = TRUE
  /\ exit' = IF exit = 0 THEN 130 ELSE exit
  /\ UNCHANGED <<manifest, databases, outcome, loop, child, quit, faults>>

\* The updater is killed; its orphans are no longer of this run.
Crash ==
  /\ pc \notin {"idle", "finished"} /\ Fault
  /\ pc' = "idle" /\ group' = {}
  /\ UNCHANGED <<manifest, databases, outcome, loop, attempt, rc, why, facts, done, ending>>

-----------------------------------------------------------------------------
\* What the pipeline does by itself; its children end when they please.
Step ==
  \/ Resolve \/ VisitTask \/ SkipAborted \/ EndPass \/ FinalizeRemaining \/ AllFinal
  \/ EvaluateCondition \/ ReadMarker \/ NotifySealed \/ Launch \/ Spawn
  \/ TimesOut \/ EndGroup \/ KillGroup \/ BackOff \/ Retry
  \/ Complete \/ Fail \/ MarkSuccess
  \/ Report \/ Close \/ SettleError \/ CloseError \/ CancelTail \/ CloseCancelled

Next ==
  \/ Step \/ Start \/ Fork \/ ChildEnds \/ Quit \/ Cancelled
  \/ ResolveFails \/ LifecycleError \/ ReadMarkerFails \/ SpawnFails \/ InternalError
  \/ PipelineError \/ Crash

Spec == Init /\ [][Next]_vars
FairSpec == Spec /\ WF_vars(Step)

-----------------------------------------------------------------------------
(* Properties.                                                              *)

\* However a run ends short of a crash (quit, stop-on-fail, failed resolution,
\* error) it tells the truth.  "No tail is ever left pending"; exit code 0, on
\* which the supervisor relies, means that nothing was cut short, as by a quit whose
\* cancellation never arrived, and that nothing failed but what may have become of a
\* task whose script is missing, which is reported as missing and not as a failure;
\* and the state database agrees with what the user was shown, for every task whose
\* writes worked.
TailIsSettled == \A t \in Task : status[t] \in Terminal
SuccessIsComplete ==
  exit = 0 => \A t \in Task :
    /\ reason[t] \notin {"aborted", "cancelled"}
    /\ status[t] = "failed" => plan[t].missing
RecordAgrees == \A t \in Task \ unsaved : record[t] = status[t]
ReportIsTrue ==
  pc = "finished" => TailIsSettled /\ SuccessIsComplete /\ RecordAgrees

\* When the pipeline moves on from an attempt, because it ended, timed out or
\* was cancelled, none of its processes is left to run beside a retry, a later
\* task or the next update.
GroupIsGone == pc \notin {"running", "ended", "killing"} => group = {}

\* A task is given up as "condition never met" before the pass limit only if
\* its condition is false at that moment, although tasks of the same pass, even
\* failed ones, may have made it true after it was looked at.
NoMissedTask ==
  pc = "finalising" /\ ~abort /\ (pass < MaxPasses \/ ~progressed) =>
    \A i \in 1 .. Len(queue) : ~Met(queue[i])

\* A marker names a content that really ran to exit 0 here: an interrupted,
\* failed or suppressed run never counts as the one run.  Conversely a once task
\* that succeeded in a run that exited 0 has its marker, unless the write failed.
Earned(t) == marker[t] # None =>
  IF marker[t].sum = Unread THEN done[t] # {} ELSE marker[t].sum \in done[t]
Owed(t) == status[t] = "success" /\ plan[t].once # "no" /\ t \notin unsaved
MarkersAreExact ==
  /\ \A t \in Task : Earned(t)
  /\ pc = "finished" /\ exit = 0 =>
       \A t \in Task : Owed(t) => marker[t] # None /\ marker[t].sum = checksum[t]

\* A marked forever or sealed task never starts again, nor one marked for its
\* present content, across changes of its mode and unreadable markers; and with
\* --stop-on-fail nothing starts after a task has failed, in the deferred passes
\* either, unless it failed by an exception outside its execution.
Marked(t) == marker[t] # None /\
  \/ plan[t].once \in {"forever", "sealed"} \/ marker[t].mode # "content"
  \/ checksum[t] # Unread /\ checksum[t] = marker[t].sum
StartsAreAllowed ==
  [][ pc = "spawn" /\ pc' = "running" =>
        /\ plan[cur].once # "no" => ~Marked(cur)
        /\ strict => \A t \in Task : status[t] = "failed" => reason[t] = "lifecycle" ]_vars

\* "Abort on the first failure, even ignore-fail ones": with --stop-on-fail nothing
\* runs once a task has failed, for whatever reason.  The code goes on after an
\* exception outside the execution (LifecycleError).
NothingAfterFailure ==
  strict /\ (\E t \in Task : status[t] = "failed") => pc \notin ChildUp

\* A run ends although its children may never end by themselves.
RunEnds == pc \notin {"idle", "finished"} ~> pc \in {"idle", "finished"}

=============================================================================
