--------------------------- MODULE ParakeetDaemon ---------------------------
(***************************************************************************)
(* The Parakeet speech to text daemon (tts_stt/dusky_parakeet/dusky_main.py): *)
(* a recording session with its capture thread and its finalizer thread, the *)
(* manager of the recognition process they share, one reader thread for each *)
(* generation of that process, the control commands, and the service that    *)
(* stops itself after a session.                                            *)
(*                                                                         *)
(* An action is what a thread does while it holds the manager's condition    *)
(* or the daemon's lock, or between two of its waits.  A request id is       *)
(* fresh when nothing remembers it.  Generations are never reused.           *)
(*                                                                         *)
(* Abstracted: audio and texts, time (a limit may pass at any moment, except *)
(* where a comment says which of two is shorter), pausing (which closes a    *)
(* phrase as silence does), live typing, the on-screen indicator.  Left out: *)
(* file sessions.                                                           *)
(***************************************************************************)
EXTENDS Naturals, Sequences, FiniteSets

CONSTANTS
  Id,          \* request ids
  Limit,       \* max_inflight_requests
  Room,        \* size of the queue of phrases
  MaxPhrases,  \* bound on the phrases of the first session, one fewer in each later one
  MaxGen,      \* bound on the processes that are spawned
  MaxStarts,   \* bound on sessions
  MaxFaults,   \* bound on exits, failed starts, errors, broken packets and lost
               \* microphones
  None

Gen == 1 .. MaxGen
Phrase == 1 .. MaxPhrases
End == 0       \* the sentinel of the queue

ASSUME IdAssumption == None \notin Id
ASSUME SizeAssumption ==
  /\ Limit \in Nat \ {0} /\ Room \in Nat \ {0} /\ MaxPhrases \in Nat
  /\ MaxGen \in Nat \ {0}
  /\ MaxStarts \in Nat /\ MaxFaults \in Nat

VARIABLES
  gen, held,       \* the last generation, and whether _proc and _sock are set
  proc, reader,    \* each process and its reader thread, which is "leaving" and then
                   \* has "left" where it gave up on a living process
  shut,            \* generations whose socket the daemon has closed
  box, mail,       \* requests at a process, and its answers under way
  inflight,        \* of an id: its generation, or 0
  results, discarded,
  spc,             \* where the session thread is
  stop, abort, errors,
  active, phrase,  \* what the capture thread listens to
  interim,         \* its pending_interim
  finals,          \* _final_q
  fpc, item, tries, req,  \* the finalizer: its wait, phrase, attempt and request
  restart,         \* _pending_restart
  selfstop, down,  \* _maybe_self_stop, and whether the service is down
  retiring,        \* the process that worker.stop waits for
  locked,          \* the unload command holds the daemon's lock
  warm, starts, faults,
  offered, heard,  \* history: phrases that were spoken to the end, and transcribed
  claimed          \* history: the published transcript says that it is complete

process == <<gen, held, proc, reader, shut, box, mail>>
slots == <<inflight, results, discarded>>
capture == <<active, phrase, interim>>
finalizer == <<fpc, item, tries, req>>
session == <<spc, stop, abort, claimed>>
service == <<restart, selfstop, down, retiring, locked, warm, starts>>
vars == <<process, slots, capture, finalizer, session, service, finals, errors, faults,
          offered, heard>>

ProcessType ==
  /\ gen \in 0 .. MaxGen /\ held \in BOOLEAN
  /\ proc \in [Gen -> {"none", "alive", "closing", "dead"}]
  /\ reader \in [Gen -> {"none", "reading", "reaping", "leaving", "gone", "left"}]
  /\ shut \subseteq Gen
MailType ==
  /\ box \in [Gen -> Seq(Id)] /\ mail \in [Gen -> Seq([id : Id, result : {"ok", "bad"}])]
SlotType ==
  /\ inflight \in [Id -> 0 .. MaxGen] /\ results \in [Id -> {"none", "ok", "bad"}]
  /\ discarded \subseteq Id
SlotsAreLimited == Cardinality({i \in Id : inflight[i] # 0}) <= Limit
PhraseType ==
  /\ phrase \in 0 .. MaxPhrases /\ interim \in Id \cup {None}
  /\ finals \in Seq(Phrase \cup {End}) /\ Len(finals) <= Room
  /\ fpc \in {"off", "get", "submit", "wait", "type"} /\ item \in Phrase \cup {End}
  /\ tries \in 0 .. 2 /\ req \in Id \cup {None}
  /\ offered \subseteq Phrase /\ heard \subseteq Phrase
SessionType ==
  /\ spc \in {"idle", "record", "drain", "join", "abort", "publish", "release", "wait", "reset"}
  /\ stop \in BOOLEAN /\ abort \in BOOLEAN /\ errors \in BOOLEAN /\ active \in BOOLEAN
  /\ restart \in BOOLEAN /\ down \in BOOLEAN /\ locked \in BOOLEAN /\ warm \in BOOLEAN
  /\ selfstop \in {"none", "sleep", "go"} /\ retiring \in 0 .. MaxGen
  /\ starts \in 0 .. MaxStarts /\ faults \in 0 .. MaxFaults /\ claimed \in BOOLEAN
TypeOK ==
  ProcessType /\ MailType /\ SlotType /\ SlotsAreLimited /\ PhraseType /\ SessionType

\* A warm service has spawned its process at boot.
Init ==
  /\ warm \in BOOLEAN /\ gen = (IF warm THEN 1 ELSE 0) /\ held = warm
  /\ proc = [g \in Gen |-> IF g = gen THEN "alive" ELSE "none"]
  /\ reader = [g \in Gen |-> IF g = gen THEN "reading" ELSE "none"]
  /\ shut = {} /\ box = [g \in Gen |-> <<>>] /\ mail = [g \in Gen |-> <<>>]
  /\ inflight = [i \in Id |-> 0] /\ results = [i \in Id |-> "none"] /\ discarded = {}
  /\ spc = "idle" /\ stop = FALSE /\ abort = FALSE /\ errors = FALSE /\ claimed = FALSE
  /\ active = FALSE /\ phrase = 0 /\ interim = None /\ finals = <<>>
  /\ fpc = "off" /\ item = End /\ tries = 0 /\ req = None
  /\ restart = FALSE /\ selfstop = "none" /\ down = FALSE /\ retiring = 0 /\ locked = FALSE
  /\ starts = 0 /\ faults = 0 /\ offered = {} /\ heard = {}

Fault == faults < MaxFaults /\ faults' = faults + 1

-----------------------------------------------------------------------------
(* The manager.                                                             *)

InFlight == {i \in Id : inflight[i] # 0}
Remembered(i) ==
  \/ inflight[i] # 0 \/ results[i] # "none" \/ i \in discarded \/ i \in {interim, req}
  \/ \E g \in Gen : \/ \E n \in 1 .. Len(box[g]) : box[g][n] = i
                    \/ \E n \in 1 .. Len(mail[g]) : mail[g][n].id = i

\* A new uuid: ids are many enough for what can be remembered at a time.
Fresh == {i \in Id : ~Remembered(i)}
NewId == CHOOSE i \in Fresh : TRUE

\* A process that was told to exit or killed: nothing it had is answered.
Kill(g) ==
  IF held /\ proc[g] = "alive"
  THEN proc' = [proc EXCEPT ![g] = "closing"] /\ box' = [box EXCEPT ![g] = <<>>]
  ELSE UNCHANGED <<proc, box>>

\* The handles refer to a process that poll() does not know to be dead.
Usable == held /\ proc[gen] # "dead"
Drop == held' = FALSE /\ shut' = IF held THEN shut \cup {gen} ELSE shut

\* submit puts a request at the present process or at a new one ...
Sent(i) ==
  /\ i \in Fresh
  /\ \/ /\ Usable /\ proc[gen] = "alive"
        /\ UNCHANGED <<gen, held, proc, reader, shut>>
     \/ /\ ~Usable /\ gen < MaxGen /\ gen' = gen + 1 /\ held' = TRUE
        /\ proc' = [proc EXCEPT ![gen'] = "alive"]
        /\ reader' = [reader EXCEPT ![gen'] = "reading"]
        /\ shut' = IF held THEN shut \cup {gen} ELSE shut
  /\ inflight' = [inflight EXCEPT ![i] = gen'] /\ box' = [box EXCEPT ![gen'] = Append(@, i)]
  /\ UNCHANGED <<mail, results, discarded, faults>>

\* ... or raises OSError: the process has closed its end and not been reaped, or
\* none can be started (MaxGen among the reasons).
Raised ==
  /\ \/ Usable /\ proc[gen] = "closing" /\ Drop /\ UNCHANGED faults
     \/ ~Usable /\ Drop /\ IF gen < MaxGen THEN Fault ELSE UNCHANGED faults
  /\ UNCHANGED <<gen, proc, reader, box, mail, slots>>

\* A result is collected; a request is given up before its answer is there.
Pop(i) == results' = [results EXCEPT ![i] = "none"] /\ inflight' = [inflight EXCEPT ![i] = 0]
GiveUp(i) == discarded' = discarded \cup {i} /\ UNCHANGED <<inflight, results>>
Cancel(i) ==
  IF i = None THEN UNCHANGED slots
  ELSE IF results[i] # "none" THEN Pop(i) /\ UNCHANGED discarded
  ELSE GiveUp(i)

-----------------------------------------------------------------------------
(* The process and its reader thread.                                       *)

ProcessUnchanged == UNCHANGED <<capture, finalizer, session, service, finals, errors, offered, heard>>

\* An answer that nobody reads is left out.
Answer(g) ==
  /\ proc[g] = "alive" /\ box[g] # <<>> /\ box' = [box EXCEPT ![g] = Tail(@)]
  /\ \E r \in {"ok", "bad"} :
       /\ mail' = IF reader[g] = "reading"
                  THEN [mail EXCEPT ![g] = Append(@, [id |-> Head(box[g]), result |-> r])]
                  ELSE mail
       /\ IF r = "ok" THEN UNCHANGED faults ELSE Fault
  /\ ProcessUnchanged /\ UNCHANGED <<gen, held, proc, reader, shut, slots>>

\* A crash, or the idle exit of a process that is not warm: its socket closes first.
Collapse(g) ==
  /\ proc[g] = "alive" /\ Fault
  /\ proc' = [proc EXCEPT ![g] = "closing"] /\ box' = [box EXCEPT ![g] = <<>>]
  /\ ProcessUnchanged /\ UNCHANGED <<gen, held, reader, shut, mail, slots>>

Exit(g) ==
  /\ proc[g] = "closing" /\ proc' = [proc EXCEPT ![g] = "dead"]
  /\ ProcessUnchanged /\ UNCHANGED <<gen, held, reader, shut, box, mail, slots, faults>>

\* An answer frees the slot, and is kept unless nobody wants it any more.
Read(g) ==
  /\ reader[g] = "reading" /\ mail[g] # <<>> /\ mail' = [mail EXCEPT ![g] = Tail(@)]
  /\ LET a == Head(mail[g])
     IN /\ inflight' = [inflight EXCEPT ![a.id] = 0]
        /\ IF a.id \in discarded
           THEN discarded' = discarded \ {a.id} /\ UNCHANGED results
           ELSE /\ results' = [results EXCEPT ![a.id] = a.result]
                /\ UNCHANGED discarded
  /\ ProcessUnchanged /\ UNCHANGED <<gen, held, proc, reader, shut, box, faults>>

\* An answer that carries no usable id (two descriptors, not JSON, the refusal of a
\* request that arrived truncated) is dropped: its slot stays taken.
Lose(g) ==
  /\ reader[g] = "reading" /\ mail[g] # <<>> /\ mail' = [mail EXCEPT ![g] = Tail(@)]
  /\ Fault
  /\ ProcessUnchanged /\ UNCHANGED <<gen, held, proc, reader, shut, box, slots>>

\* Mutant: the requests of a dead process fail and keep their slots.
FailGenerationKeepSlots(g) ==
  LET lost == {i \in Id : inflight[i] = g /\ results[i] = "none"}
  IN /\ discarded' = discarded \ lost
     /\ results' = [i \in Id |-> IF i \in lost \ discarded THEN "bad" ELSE results[i]]
     /\ UNCHANGED inflight

FailGeneration(g) ==
  LET lost == {i \in Id : inflight[i] = g /\ results[i] = "none"}
  IN /\ discarded' = discarded \ lost
     /\ results' = [i \in Id |-> IF i \in lost \ discarded THEN "bad" ELSE results[i]]
     /\ inflight' = [i \in Id |-> IF i \in lost THEN 0 ELSE inflight[i]]

\* End of the stream, a connection reset before the last answers were read, or a
\* socket that was closed under the reader.
EndOfStream(g) ==
  /\ reader[g] = "reading" /\ (g \in shut \/ proc[g] \in {"closing", "dead"})
  /\ FailGeneration(g) /\ reader' = [reader EXCEPT ![g] = "reaping"]
  /\ mail' = [mail EXCEPT ![g] = <<>>]
  /\ ProcessUnchanged /\ UNCHANGED <<gen, held, proc, shut, box, faults>>

\* A packet that was truncated, or whose handling raised, ends the reader of a living
\* process: the requests of its generation fail, and its handles stay for the five
\* seconds that it has to end by itself, in which it may be given another request.
Leave(g) ==
  /\ reader[g] = "reading" /\ proc[g] = "alive" /\ mail[g] # <<>> /\ Fault
  /\ FailGeneration(g) /\ reader' = [reader EXCEPT ![g] = "leaving"]
  /\ mail' = [mail EXCEPT ![g] = <<>>]
  /\ ProcessUnchanged /\ UNCHANGED <<gen, held, proc, shut, box>>

\* After which it is killed.
KillLeft(g) ==
  /\ reader[g] = "leaving" /\ proc[g] = "alive"
  /\ proc' = [proc EXCEPT ![g] = "closing"] /\ box' = [box EXCEPT ![g] = <<>>]
  /\ ProcessUnchanged /\ UNCHANGED <<gen, held, reader, shut, mail, slots, faults>>

\* The handles are forgotten unless they are those of a later generation.
Reap(g) ==
  /\ reader[g] \in {"reaping", "leaving"} /\ proc[g] = "dead"
  /\ reader' = [reader EXCEPT ![g] = IF @ = "leaving" THEN "left" ELSE "gone"]
  /\ held' = (held /\ g # gen)
  /\ ProcessUnchanged /\ UNCHANGED <<gen, proc, shut, box, mail, slots, faults>>

-----------------------------------------------------------------------------
(* The finalizer thread.                                                    *)

FinalizerUnchanged == UNCHANGED <<capture, session, service, offered>>

FGet ==
  /\ fpc = "get" /\ finals # <<>> /\ item' = Head(finals) /\ finals' = Tail(finals)
  /\ IF item' = End THEN fpc' = "off" /\ UNCHANGED tries
     ELSE fpc' = "submit" /\ tries' = 1
  /\ FinalizerUnchanged /\ UNCHANGED <<process, slots, req, errors, faults, heard>>

\* The loop looks at the abort event between phrases.
FNext == fpc' = IF abort THEN "off" ELSE "get"

\* A second attempt, or a phrase that is given up and reported.
FailedAttempt ==
  /\ req' = None
  /\ IF tries = 1 THEN fpc' = "submit" /\ tries' = 2 /\ UNCHANGED errors
     ELSE FNext /\ tries' = 0 /\ errors' = TRUE
  /\ UNCHANGED <<item, finals, heard>>

FSubmit ==
  /\ fpc = "submit" /\ Cardinality(InFlight) < Limit
  /\ \/ /\ req' = NewId
        /\ Sent(req') /\ fpc' = "wait" /\ UNCHANGED <<item, tries, finals, errors, heard>>
     \/ Raised /\ FailedAttempt
  /\ FinalizerUnchanged

\* No slot: submit gives up at the abort event, or at its deadline kills the process.
FNoSlot ==
  /\ fpc = "submit" /\ Cardinality(InFlight) >= Limit /\ FailedAttempt
  /\ IF abort THEN UNCHANGED <<proc, box>> ELSE Kill(gen)
  /\ FinalizerUnchanged /\ UNCHANGED <<gen, held, reader, shut, mail, slots, faults>>

FResult ==
  /\ fpc = "wait" /\ results[req] # "none" /\ Pop(req)
  /\ IF results[req] = "ok"
     THEN fpc' = "type" /\ req' = None /\ UNCHANGED <<item, tries, finals, errors, heard>>
     ELSE FailedAttempt
  /\ FinalizerUnchanged /\ UNCHANGED <<process, discarded, faults>>

\* wait_result gives up at the abort event or at its deadline; the latter kills.
FGiveUp ==
  /\ fpc = "wait" /\ results[req] = "none" /\ GiveUp(req) /\ FailedAttempt
  /\ IF abort THEN UNCHANGED <<proc, box>> ELSE Kill(gen)
  /\ FinalizerUnchanged /\ UNCHANGED <<gen, held, reader, shut, mail, faults>>

\* The text is typed and becomes part of the transcript.
FType ==
  /\ fpc = "type" /\ heard' = heard \cup {item} /\ FNext /\ tries' = 0
  /\ FinalizerUnchanged /\ UNCHANGED <<process, slots, item, req, finals, errors, faults>>

-----------------------------------------------------------------------------
(* The capture thread, which is the session's own until it drains.          *)

Recording == spc = "record"
MorePhrases == phrase + starts <= MaxPhrases
CaptureUnchanged == UNCHANGED <<finalizer, service, abort, claimed, stop, heard>>

\* Mutant: the queue has no limit.
OfferAlways(p) ==
  offered' = offered \cup {p} /\ finals' = Append(finals, p) /\ UNCHANGED errors

\* Mutant: a phrase that finds the queue full is dropped without a trace.
OfferQuietly(p) ==
  /\ offered' = offered \cup {p}
  /\ finals' = IF Len(finals) < Room THEN Append(finals, p) ELSE finals
  /\ UNCHANGED errors

\* _offer_final: a full queue makes the transcript partial.
Offer(p) ==
  /\ offered' = offered \cup {p}
  /\ IF Len(finals) < Room
     THEN finals' = Append(finals, p) /\ UNCHANGED errors
     ELSE errors' = TRUE /\ UNCHANGED finals

Onset ==
  /\ Recording /\ ~active /\ MorePhrases /\ active' = TRUE /\ phrase' = phrase + 1
  /\ CaptureUnchanged
  /\ UNCHANGED <<process, slots, interim, finals, errors, faults, offered, spc>>

\* An interim request of a phrase, which is sent only where a slot is free; an
\* OSError of submit ends the capture.
Interim ==
  /\ Recording /\ active /\ interim = None /\ finals = <<>> /\ fpc = "get"
  /\ Cardinality(InFlight) < Limit
  /\ \/ /\ interim' = NewId
        /\ Sent(interim') /\ UNCHANGED <<errors, spc, active>>
     \/ Raised /\ errors' = TRUE /\ spc' = "drain" /\ active' = FALSE /\ UNCHANGED interim
  /\ CaptureUnchanged /\ UNCHANGED <<phrase, finals, offered>>

Poll ==
  /\ Recording /\ interim # None /\ results[interim] # "none" /\ Pop(interim)
  /\ interim' = None /\ CaptureUnchanged
  /\ UNCHANGED <<process, discarded, active, phrase, finals, errors, faults, offered, spc>>

\* Silence, a pause or the longest phrase: the interim is superseded by the final.
ClosePhrase ==
  /\ Recording /\ active /\ Cancel(interim) /\ interim' = None /\ Offer(phrase)
  /\ \/ active' = FALSE /\ UNCHANGED phrase
     \/ MorePhrases /\ phrase' = phrase + 1 /\ UNCHANGED active
  /\ CaptureUnchanged /\ UNCHANGED <<process, faults, spc>>

\* A stop flushes the phrase that is spoken.
CaptureStops ==
  /\ Recording /\ stop /\ spc' = "drain" /\ active' = FALSE /\ interim' = None
  /\ IF active THEN Cancel(interim) /\ Offer(phrase)
     ELSE UNCHANGED <<slots, finals, errors, offered>>
  /\ CaptureUnchanged /\ UNCHANGED <<process, phrase, faults>>

\* A lost microphone: nothing is flushed or cancelled.
CaptureFails ==
  /\ Recording /\ Fault /\ spc' = "drain" /\ active' = FALSE /\ interim' = None
  /\ errors' = TRUE /\ CaptureUnchanged
  /\ UNCHANGED <<process, slots, phrase, finals, offered>>

-----------------------------------------------------------------------------
(* The end of a session.                                                    *)

SessionUnchanged ==
  UNCHANGED <<slots, capture, stop, restart, selfstop, down, locked, warm, starts, faults,
              offered, heard>>

\* The sentinel, for which there is room at last or at the deadline is not.
Sentinel ==
  /\ spc = "drain" /\ spc' = "join"
  /\ \/ Len(finals) < Room /\ finals' = Append(finals, End)
     \/ Len(finals) = Room /\ UNCHANGED finals
  /\ SessionUnchanged /\ UNCHANGED <<process, finalizer, abort, claimed, errors, retiring>>

Joined ==
  /\ spc = "join" /\ fpc = "off" /\ spc' = "publish"
  /\ SessionUnchanged /\ UNCHANGED <<process, finalizer, finals, abort, claimed, errors, retiring>>

\* Mutant: the join has no deadline while a request is waited for.
JoinPatiently ==
  /\ spc = "join" /\ fpc \notin {"off", "wait"} /\ abort' = TRUE /\ spc' = "abort"
  /\ SessionUnchanged /\ UNCHANGED <<process, finalizer, finals, claimed, errors, retiring>>

JoinTimeout ==
  /\ spc = "join" /\ fpc # "off" /\ abort' = TRUE /\ spc' = "abort"
  /\ SessionUnchanged /\ UNCHANGED <<process, finalizer, finals, claimed, errors, retiring>>

\* Mutant: the session does not wait for the finalizer it has aborted.
AbortAtOnce ==
  /\ spc = "abort" /\ errors' = TRUE /\ spc' = "publish"
  /\ SessionUnchanged /\ UNCHANGED <<process, finalizer, finals, abort, claimed, retiring>>

\* One second for the finalizer, whose waits look at the event every 0.2 s.  Only
\* typing may take longer, after which it ends and changes nothing shared, and a
\* queue that is empty because there was no room for the sentinel is for ever.
AbortJoined ==
  /\ spc = "abort" /\ fpc' = "off"
  /\ fpc \in {"off", "type"} \/ (fpc = "get" /\ finals = <<>>)
  /\ errors' = TRUE /\ spc' = "publish"
  /\ SessionUnchanged
  /\ UNCHANGED <<process, item, tries, req, finals, abort, claimed, retiring>>

Publish ==
  /\ spc = "publish" /\ claimed' = ~errors /\ spc' = (IF warm THEN "reset" ELSE "release")
  /\ SessionUnchanged /\ UNCHANGED <<process, finalizer, finals, abort, errors, retiring>>

\* worker.stop: asks the process to exit, kills it if it does not, and waits.
StopWorker ==
  /\ retiring' = (IF held THEN gen ELSE 0) /\ Kill(gen)
  /\ UNCHANGED <<gen, held, reader, shut, mail>>
WorkerStopped == IF retiring = 0 THEN TRUE ELSE proc[retiring] = "dead"

Release ==
  /\ spc = "release" /\ spc' = "wait" /\ StopWorker
  /\ SessionUnchanged /\ UNCHANGED <<finalizer, finals, abort, claimed, errors>>

Released ==
  /\ spc = "wait" /\ WorkerStopped /\ spc' = "reset" /\ retiring' = 0
  /\ SessionUnchanged /\ UNCHANGED <<process, finalizer, finals, abort, claimed, errors>>

\* What belonged to a session goes with it.
Cleared ==
  /\ stop' = FALSE /\ abort' = FALSE /\ errors' = FALSE /\ claimed' = FALSE
  /\ finals' = <<>> /\ item' = End /\ tries' = 0 /\ UNCHANGED req
  /\ active' = FALSE /\ phrase' = 0 /\ interim' = None /\ offered' = {} /\ heard' = {}

\* A fresh RecordingSession and its finalizer.
NewSession == Cleared /\ spc' = "record" /\ starts' = starts + 1 /\ fpc' = "get"

\* Under the lock: a chained take, unless it is too old, or idle; and after an
\* on-demand session the thread that may stop the service.
Reset ==
  /\ spc = "reset" /\ ~locked /\ restart' = FALSE
  /\ \/ restart /\ starts < MaxStarts /\ NewSession /\ UNCHANGED selfstop
     \/ /\ Cleared /\ spc' = "idle" /\ UNCHANGED <<fpc, starts>>
        /\ selfstop' = IF warm THEN "none" ELSE "sleep"
  /\ UNCHANGED <<process, slots, down, retiring, locked, warm, faults>>

-----------------------------------------------------------------------------
(* Commands, which hold the daemon's lock, and the stop of the service.     *)

Start ==
  /\ ~locked /\ spc = "idle" /\ starts < MaxStarts /\ restart' = FALSE /\ NewSession
  /\ UNCHANGED <<process, slots, selfstop, down, retiring, locked, warm, faults>>

\* A toggle in a session stops it, or asks for another one after it.
Toggle ==
  /\ ~locked /\ spc # "idle"
  /\ IF stop THEN restart' = TRUE /\ UNCHANGED stop ELSE stop' = TRUE /\ UNCHANGED restart
  /\ UNCHANGED <<process, slots, capture, finalizer, spc, abort, claimed, finals, errors,
                 selfstop, down, retiring, locked, warm, starts, faults, offered, heard>>

StopCommand ==
  /\ ~locked /\ restart' = FALSE /\ stop' = (stop \/ spc # "idle")
  /\ UNCHANGED <<process, slots, capture, finalizer, spc, abort, claimed, finals, errors,
                 selfstop, down, retiring, locked, warm, starts, faults, offered, heard>>

\* The unload command, which is refused unless idle, keeps the lock until the exit.
UnloadBegins ==
  /\ ~locked /\ spc = "idle" /\ locked' = TRUE /\ StopWorker
  /\ UNCHANGED <<slots, capture, finalizer, session, finals, errors, restart, selfstop, down,
                 warm, starts, faults, offered, heard>>

UnloadEnds ==
  /\ locked /\ WorkerStopped /\ locked' = FALSE /\ retiring' = 0
  /\ UNCHANGED <<process, slots, capture, finalizer, session, finals, errors, restart,
                 selfstop, down, warm, starts, faults, offered, heard>>

\* _maybe_self_stop looks at the state under the lock, and stops the service later.
SelfStopCheck ==
  /\ selfstop = "sleep" /\ ~locked /\ selfstop' = IF spc = "idle" THEN "go" ELSE "none"
  /\ UNCHANGED <<process, slots, capture, finalizer, session, finals, errors, restart, down,
                 retiring, locked, warm, starts, faults, offered, heard>>

SelfStop ==
  /\ selfstop = "go" /\ selfstop' = "none" /\ down' = TRUE
  /\ UNCHANGED <<process, slots, capture, finalizer, session, finals, errors, restart,
                 retiring, locked, warm, starts, faults, offered, heard>>

Rest == down /\ UNCHANGED vars

-----------------------------------------------------------------------------
ProcessStep(g) ==
  \/ Answer(g) \/ Collapse(g) \/ Exit(g)
  \/ Read(g) \/ Lose(g) \/ EndOfStream(g) \/ Leave(g) \/ KillLeft(g) \/ Reap(g)
FinalizerStep == FGet \/ FSubmit \/ FNoSlot \/ FResult \/ FGiveUp \/ FType
CaptureStep == Onset \/ Interim \/ Poll \/ ClosePhrase \/ CaptureStops \/ CaptureFails
SessionStep == \/ Sentinel \/ Joined \/ JoinTimeout \/ AbortJoined \/ Publish \/ Release
               \/ Released \/ Reset
CommandStep == Start \/ Toggle \/ StopCommand \/ UnloadBegins \/ UnloadEnds
ServiceStep == SelfStopCheck \/ SelfStop

Next ==
  \/ \E g \in Gen : ~down /\ ProcessStep(g)
  \/ ~down /\ FinalizerStep
  \/ ~down /\ CaptureStep
  \/ ~down /\ SessionStep
  \/ ~down /\ CommandStep
  \/ ~down /\ ServiceStep
  \/ Rest

Spec == Init /\ [][Next]_vars

\* The session's thread reads frames and sees the stop, runs on, and its deadlines
\* pass; an aborted finalizer goes on; a process that was told to exit does.
\* Nothing of recognition, of its readers or of a finalizer that may still wait.
Fairness ==
  /\ WF_vars(~down /\ (CaptureStops \/ SessionStep))
  /\ WF_vars(~down /\ abort /\ FinalizerStep)
  /\ WF_vars(~down /\ (UnloadEnds \/ \E g \in Gen : Exit(g)))
FairSpec == Spec /\ Fairness

-----------------------------------------------------------------------------
(* Properties.                                                              *)

\* No slot outlives the reader of its generation, which frees it at the latest with
\* the end of the process (_fail_generation's comment tells of the session that hung
\* because two slots were never freed) -- through crashes, kills, respawns and time
\* limits in any order, and answers without an id.  One case is excepted because the
\* code has it: a request that a living process is sent after its reader has given it
\* up keeps its slot for ever.
SlotsAreFreed ==
  \A i \in InFlight : reader[inflight[i]] \notin {"none", "reaping", "gone"}

\* A transcript that is published as complete has every phrase that was spoken to
\* its end, through full queues, second attempts, crashes and the abort.
CompleteIsComplete == claimed => offered \subseteq heard

\* Between sessions an on-demand service has no process: nothing that a session
\* leaves behind, a finalizer included, starts one after the release.
ReleasedWhenIdle == spc = "idle" /\ ~warm => \A g \in Gen : proc[g] # "alive"

\* A session that was told to stop ends, though the process answers nothing and
\* no request times out: drain, join and abort have limits of their own.
SessionEnds == stop ~> (~stop \/ down)

(* Stronger than the code: TLC refutes both.                                 *)

\* Every slot has a reader that will free it.  Not so after Leave.
SlotsComeBack == \A i \in InFlight : reader[inflight[i]] = "reading"

\* The service is stopped between sessions only: "aborted if new work arrives".  A
\* session may start between _maybe_self_stop's look at the state and the stop.
SelfStopSparesSessions == [][down' /\ ~down => spc = "idle"]_vars

=============================================================================
