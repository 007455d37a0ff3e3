--------------------------- MODULE KnownGoodProofs ---------------------------
(***************************************************************************)
(* The safety properties of KnownGood, for every set of members and         *)
(* contents and every number of faults.                                     *)
(***************************************************************************)
EXTENDS KnownGood, TLAPS

\* A launch has settled on KNOWN: PREVIOUS is not the better generation.
SettledPC == {"journal", "check", "check2", "run", "copy", "swap", "demote",
              "drop", "ack", "kill"}
Settled == pc \in SettledPC => Valid(known) \/ ~Valid(previous)

\* While a bundle is published KNOWN and PREVIOUS change hands, and the
\* health report stays the one the snapshot was made from.
PublishingInv ==
  /\ pc \in PublishPC \cup {"ack"} => health \in Bundle
  /\ pc \in {"swap", "demote", "promote"} => tmp = health
  /\ pc \in {"demote"} => previous = NoDir
  /\ pc = "promote" => known = NoDir
  /\ pc = "verify" => known \in {health, Damaged}
  /\ pc \in {"drop", "ack"} => Valid(known)

\* The journal exists while targets are touched and never while a worker is
\* started or runs.
JournalInv ==
  /\ pc \in {"rStage", "rLook", "rPut", "rVerify"} => journal
  /\ pc \in WorkerPC \cup {"check", "check2", "rMatch"} => ~journal

\* A member that is being replaced is one of the bundle's.
LoopInv == pc \in {"rPut", "rVerify"} => idx \in 1..Len(Members)

IInv == /\ LoopInv /\ TypeOK /\ Settled /\ PublishingInv /\ JournalInv
        /\ JournalIsServiceable /\ (half => journal) /\ GenerationSurvives

-----------------------------------------------------------------------------
\* What the proofs use of the constants: members are kinds, and a bundle is a
\* signature, hence none of the markers of a directory that is not one.
LEMMA ConstantFacts ==
  /\ Len(Members) \in Nat /\ Len(Members) > 0
  /\ \A i \in 1..Len(Members) : Members[i] \in Kind
  /\ Bundle \subseteq Signature
  /\ NoDir \notin Bundle /\ Damaged \notin Bundle /\ NoDir # Damaged
  /\ MaxFaults \in Nat
<1>1. Len(Members) \in Nat /\ Len(Members) > 0
  BY MembersAssumption
<1>2. \A i \in 1..Len(Members) : Members[i] \in Kind
  BY DEF Kind
<1>3. Bundle \subseteq Signature
  BY DEF Bundle, Signature
<1>4. NoDir \notin Bundle /\ Damaged \notin Bundle /\ NoDir # Damaged
  BY <1>3, ValuesAssumption
<1> QED
  BY <1>1, <1>2, <1>4, <1>3, BoundsAssumption

\* installed_signature is a signature.
LEMMA SignatureType ==
  ASSUME installed \in [Kind -> Object]
  PROVE  InstalledSignature \in Signature
BY DEF InstalledSignature, Signature, Digest

-----------------------------------------------------------------------------
\* The initial states satisfy the inductive invariant.
LEMMA InitInv == Init => IInv
<1> SUFFICES ASSUME Init PROVE IInv
  OBVIOUS
<1>1. TypeOK
  <2>1. installed \in [Kind -> Object]
    BY DEF Init, Object
  <2>2. idx \in 1..(Len(Members) + 1) /\ faults \in 0..MaxFaults
    BY ConstantFacts DEF Init
  <2>3. pc \in PC
    BY DEF Init, PC
  <2> QED
    BY <2>1, <2>2, <2>3 DEF Init, TypeOK, Slot
<1> QED
  BY <1>1 DEF Init, IInv, Settled, SettledPC, PublishingInv, PublishPC,
     JournalInv, LoopInv, WorkerPC, JournalIsServiceable, GenerationSurvives

\* A process that ends, in whatever way, preserves the invariant: nothing in
\* it is about a process that does not run, except that a journal has a
\* generation to be finished with.
LEMMA StopPreserves ==
  ASSUME IInv, Stop, UNCHANGED <<files, known, previous, journal, history>>,
         tmp' \in Slot, rejected' \in Signature \cup {NoDir},
         faults' \in 0..MaxFaults
  PROVE  IInv'
<1>1. pc' = "off"
  BY DEF Stop, Goto
<1>2. TypeOK'
  <2>1. pc' \in PC
    BY <1>1 DEF PC
  <2>2. /\ ret' \in {"off", "check", "check2"}
        /\ health' \in Signature \cup {NoDir} /\ healthy' \in BOOLEAN
    BY DEF Stop
  <2>4. idx' \in 1..(Len(Members) + 1)
    BY ConstantFacts DEF Stop
  <2>3. /\ installed' \in [Kind -> Object] /\ conflicts' \subseteq (Kind \X Object)
        /\ known' \in Slot /\ previous' \in Slot
        /\ journal' \in BOOLEAN /\ acked' \in BOOLEAN /\ half' \in BOOLEAN
    BY DEF IInv, TypeOK, files, history
  <2> QED
    BY <2>1, <2>2, <2>3, <2>4 DEF TypeOK
<1>3. Settled' /\ PublishingInv' /\ JournalInv' /\ LoopInv'
  BY <1>1 DEF LoopInv, Settled, SettledPC, PublishingInv, PublishPC, JournalInv, WorkerPC
<1>4. JournalIsServiceable' /\ (half => journal)' /\ GenerationSurvives'
  BY DEF IInv, JournalIsServiceable, GenerationSurvives, Recoverable, history
<1> QED
  BY <1>2, <1>3, <1>4 DEF IInv

\* The steps of recovery preserve it.
LEMMA RecoveringInv == IInv /\ Recovering => IInv'
<1> USE ConstantFacts
<1> SUFFICES ASSUME IInv, Recovering PROVE IInv'
  OBVIOUS
<1> USE DEF IInv, TypeOK, Settled, SettledPC, PublishingInv, PublishPC,
        JournalInv, LoopInv, WorkerPC, JournalIsServiceable, GenerationSurvives,
        Recoverable, Valid, Slot, PC, RecoverPC, RestorePC, files, store,
        notes, locals, history, Goto
<1>1. CASE Launch
  BY <1>1 DEF Launch
<1>2. CASE SetAsideKnown
  BY <1>2 DEF SetAsideKnown
<1>3. CASE PromotePrevious
  BY <1>3 DEF PromotePrevious
<1>4. CASE RecoverDropPrevious
  BY <1>4 DEF RecoverDropPrevious, RemoveTreeStep
<1>5. CASE RecoverDone
  BY <1>5 DEF RecoverDone
<1>6. CASE RecoverJournal
  <2>1. CASE ~journal /\ Goto("check") /\ UNCHANGED locals
    BY <1>6, <2>1 DEF RecoverJournal
  <2>2. CASE journal /\ Valid(known) /\ Goto("rJournal") /\ ret' = "check"
             /\ UNCHANGED <<idx, health, healthy>>
    BY <1>6, <2>2 DEF RecoverJournal
  <2>3. CASE journal /\ ~Valid(known) /\ Stop
    BY <1>6, <2>3, StopPreserves DEF RecoverJournal, IInv, TypeOK, store, notes
  <2> QED
    BY <1>6, <2>1, <2>2, <2>3 DEF RecoverJournal
<1>7. CASE CheckScript
  <2>1. rejected' \in Signature \cup {NoDir}
    BY <1>7, SignatureType DEF CheckScript, RememberRejected
  <2>2. CASE Goto("run") /\ UNCHANGED <<locals, rejected>>
    BY <1>7, <2>2 DEF CheckScript
  <2>3. CASE Goto("rJournal") /\ ret' = "check2"
             /\ UNCHANGED <<idx, health, healthy>>
    BY <1>7, <2>1, <2>3 DEF CheckScript
  <2>4. CASE Stop /\ UNCHANGED rejected
    BY <1>7, <2>4, StopPreserves DEF CheckScript, IInv, TypeOK, store
  <2> QED
    BY <1>7, <2>2, <2>3, <2>4 DEF CheckScript
<1>8. CASE CheckScriptAgain
  <2>1. CASE Goto("run") /\ UNCHANGED locals
    BY <1>8, <2>1 DEF CheckScriptAgain
  <2>2. CASE Stop
    BY <1>8, <2>2, StopPreserves DEF CheckScriptAgain, IInv, TypeOK, store, notes
  <2> QED
    BY <1>8, <2>1, <2>2 DEF CheckScriptAgain
<1> QED
  BY <1>1, <1>2, <1>3, <1>4, <1>5, <1>6, <1>7, <1>8 DEF Recovering

\* The steps of publication preserve it.
LEMMA PublishingPreserves == IInv /\ Publishing => IInv'
<1> USE ConstantFacts
<1> SUFFICES ASSUME IInv, Publishing PROVE IInv'
  OBVIOUS
<1> USE DEF IInv, TypeOK, Settled, SettledPC, PublishingInv, PublishPC,
        JournalInv, LoopInv, WorkerPC, JournalIsServiceable, GenerationSurvives,
        Recoverable, Valid, Slot, PC, RecoverPC, RestorePC, files, store,
        notes, locals, history, Goto
<1>1. CASE ReadHealth
  BY <1>1 DEF ReadHealth
<1>2. CASE KillWorker
  BY <1>2 DEF KillWorker
<1>3. CASE CopyMember
  BY <1>3 DEF CopyMember
<1>4. CASE WriteManifest
  BY <1>4 DEF WriteManifest
<1>5. CASE DropPrevious
  BY <1>5 DEF DropPrevious, RemoveTreeStep
<1>6. CASE DemoteKnown
  BY <1>6 DEF DemoteKnown
<1>7. CASE PromoteTmp
  BY <1>7 DEF PromoteTmp, Fault
<1>8. CASE VerifyKnown
  BY <1>8 DEF VerifyKnown
<1>9. CASE Acknowledge
  BY <1>9 DEF Acknowledge
<1>10. CASE CleanupDone
  BY <1>10 DEF CleanupDone
<1> QED
  BY <1>1, <1>2, <1>3, <1>4, <1>5, <1>6, <1>7, <1>8, <1>9, <1>10
     DEF Publishing

\* The steps of a rollback preserve it.
LEMMA RestoringPreserves == IInv /\ Restoring => IInv'
<1> USE ConstantFacts
<1> SUFFICES ASSUME IInv, Restoring PROVE IInv'
  OBVIOUS
<1> USE DEF IInv, TypeOK, Settled, SettledPC, PublishingInv, PublishPC,
        JournalInv, LoopInv, WorkerPC, JournalIsServiceable, GenerationSurvives,
        Recoverable, Valid, Slot, PC, RecoverPC, RestorePC, files, store,
        notes, locals, history, Goto
<1>1. CASE FinishCandidate
  <2>1. rejected' \in Signature \cup {NoDir}
    BY <1>1, SignatureType DEF FinishCandidate, RememberRejected
  <2>2. CASE Valid(known) /\ ~MatchesKnown
    BY <1>1, <2>1, <2>2 DEF FinishCandidate
  <2>3. CASE ~(Valid(known) /\ ~MatchesKnown)
    BY <1>1, <2>1, <2>3, StopPreserves DEF FinishCandidate
  <2> QED
    BY <2>2, <2>3
<1>2. CASE WriteJournal
  <2>1. CASE Valid(known)
    BY <1>2, <2>1 DEF WriteJournal
  <2>2. CASE ~Valid(known)
    BY <1>2, <2>2, StopPreserves DEF WriteJournal
  <2> QED
    BY <2>1, <2>2
<1>3. CASE StageAll
  BY <1>3 DEF StageAll
<1>4. CASE LookAtTarget
  <2>1. /\ installed' \in [Kind -> Object] /\ conflicts' \subseteq (Kind \X Object)
        /\ half' \in BOOLEAN
    <3>1. Members[idx] \in Kind /\ Absent \in Object
      BY <1>4 DEF LookAtTarget, Object
    <3>2. CASE UNCHANGED <<files, half>>
      BY <3>2
    <3>3. CASE /\ conflicts' = conflicts \cup {<<Members[idx], installed[Members[idx]]>>}
               /\ installed' = [installed EXCEPT ![Members[idx]] = Absent]
               /\ half' = TRUE
      BY <3>1, <3>3
    <3> QED
      BY <1>4, <3>2, <3>3 DEF LookAtTarget
  <2>2. /\ pc' \in {"rLook", "rPut"} /\ idx' \in 1..(Len(Members) + 1)
        /\ pc' = "rPut" => idx' \in 1..Len(Members)
    BY <1>4 DEF LookAtTarget
  <2>3. journal /\ journal' /\ UNCHANGED <<store, rejected, ret, health, healthy, acked, faults>>
    BY <1>4 DEF LookAtTarget
  <2> QED
    BY <2>1, <2>2, <2>3
<1>5. CASE PutMember
  <2>1. installed' \in [Kind -> Object] /\ conflicts' \subseteq (Kind \X Object)
    <3>1. journal /\ known \in Bundle
      BY <1>5 DEF PutMember
    <3>2. \A k \in Kind : known[k] \in Object
      BY <3>1 DEF Bundle, Object
    <3> QED
      BY <1>5, <3>2 DEF PutMember
  <2>2. pc' = "rVerify" /\ half' = TRUE /\ idx' \in 1..Len(Members)
    BY <1>5 DEF PutMember
  <2>3. journal /\ journal' /\ UNCHANGED <<store, rejected, locals, acked, faults>>
    BY <1>5 DEF PutMember
  <2> QED
    BY <2>1, <2>2, <2>3
<1>6. CASE VerifyMember
  <2>1. CASE installed[Members[idx]] = known[Members[idx]]
    <3>1. /\ pc' = "rLook" /\ idx' \in 1..(Len(Members) + 1)
          /\ journal /\ UNCHANGED <<files, store, notes, ret, health, healthy,
                                   history, faults>>
      BY <1>6, <2>1 DEF VerifyMember
    <3> QED
      BY <3>1
  <2>2. CASE Stop
    BY <1>6, <2>2, StopPreserves DEF VerifyMember
  <2> QED
    BY <1>6, <2>1, <2>2 DEF VerifyMember
<1>7. CASE UnlinkJournal
  <2>1. /\ pc' = "rMatch" /\ journal' = FALSE /\ half' = FALSE /\ idx' = 1
        /\ UNCHANGED <<files, store, rejected, ret, health, healthy, acked,
                       faults>>
    BY <1>7 DEF UnlinkJournal
  <2>2. TypeOK'
    <3> HIDE DEF Settled, PublishingInv, JournalInv, LoopInv, JournalIsServiceable,
             GenerationSurvives
    <3>1. 1 \in 1..(Len(Members) + 1)
      OBVIOUS
    <3>2. idx' \in 1..(Len(Members) + 1)
      BY <2>1, <3>1
    <3>3. UNCHANGED <<installed, conflicts, known, previous, tmp, rejected, ret, health, healthy,
                      acked, faults>>
      BY <2>1
    <3>4. journal' \in BOOLEAN /\ half' \in BOOLEAN /\ pc' \in PC
      BY <2>1
    <3> HIDE DEF PC, files, store, notes, locals, history, Slot
    <3> QED
      BY <3>2, <3>3, <3>4
  <2> QED
    BY <2>1, <2>2
<1>8. CASE RestoreReturn
  <2>1. CASE Goto(ret) /\ ret # "off" /\ ret' = "off" /\ Valid(known)
             /\ UNCHANGED <<idx, health, healthy>>
    BY <1>8, <2>1 DEF RestoreReturn
  <2>2. CASE Stop
    BY <1>8, <2>2, StopPreserves DEF RestoreReturn
  <2> QED
    BY <1>8, <2>1, <2>2 DEF RestoreReturn
<1> QED
  BY <1>1, <1>2, <1>3, <1>4, <1>5, <1>6, <1>7, <1>8 DEF Restoring

\* Workers, faults, crashes and edits preserve it.
LEMMA EnvironmentPreserves == IInv /\ (Worker \/ Environment) => IInv'
<1> USE ConstantFacts
<1> SUFFICES ASSUME IInv, Worker \/ Environment PROVE IInv'
  OBVIOUS
<1> USE DEF IInv, TypeOK, Settled, SettledPC, PublishingInv, PublishPC,
        JournalInv, LoopInv, WorkerPC, JournalIsServiceable, GenerationSurvives,
        Recoverable, Valid, Slot, PC, RecoverPC, RestorePC, files, store,
        notes, locals, history, Goto
<1>1. CASE WorkerHealth
  BY <1>1, SignatureType DEF WorkerHealth
<1>2. CASE WorkerExit
  <2>1. CASE Goto("finish") /\ UNCHANGED locals
    BY <1>2, <2>1 DEF WorkerExit
  <2>2. CASE Stop
    BY <1>2, <2>2, StopPreserves DEF WorkerExit
  <2> QED
    BY <1>2, <2>1, <2>2 DEF WorkerExit
<1>3. CASE PublishError
  BY <1>3 DEF PublishError, Fault
<1>4. CASE RestoreError
  BY <1>4, StopPreserves DEF RestoreError, Fault
<1>5. CASE InterruptRestore
  BY <1>5 DEF InterruptRestore, Fault
<1>6. CASE Crash
  BY <1>6, StopPreserves DEF Crash, Fault
<1>7. CASE Edit
  BY <1>7 DEF Edit
<1> QED
  BY <1>1, <1>2, <1>3, <1>4, <1>5, <1>6, <1>7 DEF Worker, Environment

\* Every step, and a stuttering one, preserves the invariant.
LEMMA NextInv == IInv /\ [Next]_vars => IInv'
<1> SUFFICES ASSUME IInv, [Next]_vars PROVE IInv'
  OBVIOUS
<1>1. CASE Next
  BY <1>1, RecoveringInv, PublishingPreserves, RestoringPreserves,
     EnvironmentPreserves DEF Next
<1>2. CASE UNCHANGED vars
  BY <1>2 DEF vars, files, store, notes, locals, history, IInv, LoopInv, TypeOK,
     Settled, PublishingInv, JournalInv, JournalIsServiceable,
     GenerationSurvives, Recoverable
<1> QED
  BY <1>1, <1>2

\* The inductive invariant holds throughout.
THEOREM Invariance == Spec => []IInv
<1> QED
  BY InitInv, NextInv, PTL DEF Spec

\* Every variable stays in its range, for any bundle layout and fault count.
THEOREM TypeCorrect == Spec => []TypeOK
<1>1. IInv => TypeOK
  BY DEF IInv
<1> QED
  BY <1>1, Invariance, PTL

\* An acknowledged generation is never lost (publish_known_good,
\* recover_supervisor_state, restore_known_good).
THEOREM GenerationNeverLost == Spec => []GenerationSurvives
<1>1. IInv => GenerationSurvives
  BY DEF IInv
<1> QED
  BY <1>1, Invariance, PTL

\* A journal always finds the generation to finish its rollback with.
THEOREM JournalServiceable == Spec => []JournalIsServiceable
<1>1. IInv => JournalIsServiceable
  BY DEF IInv
<1> QED
  BY <1>1, Invariance, PTL

\* No worker runs on the mixture an interrupted rollback left behind.
THEOREM NeverRunsHalfRestored == Spec => []RollbackIsResumable
<1>1. IInv => RollbackIsResumable
  BY DEF IInv, RollbackIsResumable, JournalInv
<1> QED
  BY <1>1, Invariance, PTL

-----------------------------------------------------------------------------
(* Action properties *)

\* Only the promotion of a snapshot changes the generation a launch would
\* restore, and it changes it to the bundle that was reported healthy.
LEMMA GenerationStep ==
  ASSUME IInv, [Next]_vars, Recoverable' # Recoverable
  PROVE  PromoteTmp /\ Recoverable' \in Bundle /\ Recoverable' = health
<1> USE ConstantFacts DEF Recoverable, Valid
<1>1. CASE UNCHANGED <<known, previous>>
  BY <1>1
<1>2. CASE SetAsideKnown
  BY <1>2 DEF SetAsideKnown
<1>3. CASE PromotePrevious
  BY <1>3 DEF PromotePrevious
<1>4. CASE RecoverDropPrevious
  BY <1>4 DEF RecoverDropPrevious
<1>5. CASE DropPrevious
  <2>1. Valid(known) \/ ~Valid(previous)
    BY <1>5 DEF DropPrevious, IInv, Settled, SettledPC
  <2>2. known' = known /\ previous' \in {previous, Damaged, NoDir}
    BY <1>5 DEF DropPrevious, RemoveTreeStep
  <2> QED
    BY <2>1, <2>2
<1>6. CASE DemoteKnown
  <2>1. previous = NoDir
    BY <1>6 DEF DemoteKnown, IInv, PublishingInv
  <2> QED
    BY <1>6, <2>1 DEF DemoteKnown
<1>7. CASE PromoteTmp
  <2>1. known = NoDir /\ tmp = health /\ health \in Bundle
    BY <1>7 DEF PromoteTmp, IInv, PublishingInv, PublishPC
  <2>2. UNCHANGED previous /\ (known' = tmp \/ known' = Damaged)
    BY <1>7 DEF PromoteTmp
  <2> QED
    BY <1>7, <2>1, <2>2
<1>8. CASE Next
  BY <1>1, <1>2, <1>3, <1>4, <1>5, <1>6, <1>7, <1>8
     DEF Next, Recovering, Publishing, Restoring, Worker, Environment, Launch,
         RecoverDone, RecoverJournal, CheckScript, CheckScriptAgain, ReadHealth,
         KillWorker, CopyMember, WriteManifest, VerifyKnown, Acknowledge,
         CleanupDone, FinishCandidate, WriteJournal, StageAll, LookAtTarget,
         PutMember, VerifyMember, UnlinkJournal, RestoreReturn, WorkerHealth,
         WorkerExit, PublishError, RestoreError, InterruptRestore, Crash, Edit,
         store
<1> QED
  BY <1>1, <1>8 DEF vars, store

\* The current generation only ever advances to the one being published.
THEOREM Advances == Spec => GenerationOnlyAdvances
<1>1. IInv /\ [Next]_vars =>
        [Recoverable' # Recoverable =>
           Recoverable' \in Bundle /\ Recoverable' = health]_vars
  BY GenerationStep
<1> QED
  BY <1>1, Invariance, PTL DEF Spec, GenerationOnlyAdvances

\* A target about to be replaced holds nothing, or the known-good content:
\* what else was there has been moved to the conflicts.
TargetCleared ==
  pc = "rPut" => installed[Members[idx]] \in {Absent, known[Members[idx]]}

\* True as long as nobody edits the files while a rollback runs.
LEMMA TargetClearedStep ==
  ASSUME ~RacingEdits, IInv, TargetCleared, [Next]_vars
  PROVE  TargetCleared'
<1> USE ConstantFacts
<1>1. CASE LookAtTarget
  <2>1. Members[idx] \in Kind /\ installed \in [Kind -> Object]
    BY <1>1 DEF LookAtTarget, IInv, TypeOK
  <2>2. CASE pc' = "rPut"
    BY <1>1, <2>1, <2>2 DEF LookAtTarget, TargetCleared, store, files, Goto
  <2> QED
    BY <2>2 DEF TargetCleared
<1>2. CASE Edit
  BY <1>2 DEF Edit, TargetCleared, RestorePC
<1>3. CASE UNCHANGED vars
  BY <1>3 DEF vars, files, store, locals, TargetCleared
<1>4. ret \in {"off", "check", "check2"} /\ pc \in PC
  BY DEF IInv, TypeOK
<1>5. CASE pc' # "rPut"
  BY <1>5 DEF TargetCleared
<1>6. CASE pc' = "rPut" /\ ~LookAtTarget /\ ~Edit /\ Next
  <2>1. pc = "rPut" /\ UNCHANGED <<installed, known, idx>>
    BY <1>4, <1>6
       DEF Next, Recovering, Publishing, Restoring, Worker, Environment, Launch,
           SetAsideKnown, PromotePrevious, RecoverDropPrevious, RecoverDone,
           RecoverJournal, CheckScript, CheckScriptAgain, ReadHealth,
           KillWorker, CopyMember, WriteManifest, DropPrevious, DemoteKnown,
           PromoteTmp, VerifyKnown, Acknowledge, CleanupDone, FinishCandidate,
           WriteJournal, StageAll, PutMember, VerifyMember, UnlinkJournal,
           RestoreReturn, WorkerHealth, WorkerExit, PublishError, RestoreError,
           InterruptRestore, Crash, Goto, Stop
  <2> QED
    BY <2>1 DEF TargetCleared
<1> QED
  BY <1>1, <1>2, <1>3, <1>5, <1>6

\* A rollback overwrites no object that it did not keep, provided nobody edits
\* the files between its look at them and its os.replace.
THEOREM NothingDestroyed ==
  ASSUME ~RacingEdits PROVE Spec => DisplacedIsPreserved
<1>1. Init => TargetCleared
  BY DEF Init, TargetCleared
<1>2. IInv /\ TargetCleared /\ [Next]_vars => TargetCleared'
  BY TargetClearedStep
<1>3. IInv /\ TargetCleared /\ [Next]_vars =>
        [(pc \in RestorePC /\ <<pc, idx>>' # <<pc, idx>>) =>
           \A k \in Kind : Preserved(k)]_vars
  <2> SUFFICES ASSUME IInv, TargetCleared, Next, pc \in RestorePC,
                      <<pc, idx>>' # <<pc, idx>>, NEW k \in Kind
               PROVE  Preserved(k)
    OBVIOUS
  <2>1. CASE installed' = installed
    BY <2>1 DEF Preserved
  <2>2. installed \in [Kind -> Object]
    BY DEF IInv, TypeOK
  <2>3. CASE LookAtTarget
    <3>1. CASE k = Members[idx]
      BY <2>2, <2>3, <3>1 DEF LookAtTarget, Preserved, files
    <3>2. CASE k # Members[idx]
      BY <2>2, <2>3, <3>2 DEF LookAtTarget, Preserved, files
    <3> QED
      BY <3>1, <3>2
  <2>4. CASE PutMember
    BY <2>2, <2>4 DEF PutMember, Preserved, TargetCleared
  <2>5. CASE Edit
    BY <2>5 DEF Edit, locals
  <2> QED
    BY <2>1, <2>3, <2>4, <2>5
       DEF Next, Recovering, Publishing, Restoring, Worker, Environment, Launch,
           SetAsideKnown, PromotePrevious, RecoverDropPrevious, RecoverDone,
           RecoverJournal, CheckScript, CheckScriptAgain, ReadHealth,
           KillWorker, CopyMember, WriteManifest, DropPrevious, DemoteKnown,
           PromoteTmp, VerifyKnown, Acknowledge, CleanupDone, FinishCandidate,
           WriteJournal, StageAll, VerifyMember, UnlinkJournal, RestoreReturn,
           WorkerHealth, WorkerExit, PublishError, RestoreError,
           InterruptRestore, Crash, files
<1> QED
  BY <1>1, <1>2, <1>3, Invariance, PTL DEF Spec, DisplacedIsPreserved

-----------------------------------------------------------------------------
(* Refinement *)

\* A step of the store is a step of the abstract one, or changes nothing that
\* the abstract one sees.
LEMMA RefinementStep ==
  ASSUME IInv, IInv', [Next]_vars PROVE [Abstract!Next]_(Abstract!gVars)
<1> USE DEF Abstract!Next, Abstract!gVars
<1>1. CASE Recoverable' # Recoverable
  <2>1. PromoteTmp /\ Recoverable' \in Bundle
    BY <1>1, GenerationStep
  <2>2. pc \in WorkerPC /\ pc' \in WorkerPC /\ journal' = journal
    BY <2>1 DEF PromoteTmp, WorkerPC, PublishPC, Goto, notes
  <2>3. (pc \in WorkerPC)' = (pc \in WorkerPC)
    BY <2>2
  <2> QED
    BY <2>1, <2>2, <2>3 DEF Abstract!Publish
<1>2. CASE Recoverable' = Recoverable /\ journal' # journal
  <2>1. journal \in BOOLEAN /\ journal' \in BOOLEAN
    BY DEF IInv, TypeOK
  <2>2. WriteJournal \/ UnlinkJournal
    BY <1>2
       DEF Next, Recovering, Publishing, Restoring, Worker, Environment, Launch,
           SetAsideKnown, PromotePrevious, RecoverDropPrevious, RecoverDone,
           RecoverJournal, CheckScript, CheckScriptAgain, ReadHealth,
           KillWorker, CopyMember, WriteManifest, DropPrevious, DemoteKnown,
           PromoteTmp, VerifyKnown, Acknowledge, CleanupDone, FinishCandidate,
           StageAll, LookAtTarget, PutMember, VerifyMember, RestoreReturn,
           WorkerHealth, WorkerExit, PublishError, RestoreError,
           InterruptRestore, Crash, Edit, notes, vars
  <2>3. pc \notin WorkerPC /\ pc' \notin WorkerPC
    BY <2>2 DEF WriteJournal, UnlinkJournal, WorkerPC, PublishPC, Goto, Stop
  <2>4. (pc \in WorkerPC)' = (pc \in WorkerPC)
    BY <2>3
  <2>5. CASE WriteJournal
    <3>1. Valid(known) /\ journal' = TRUE
      BY <1>2, <2>5 DEF WriteJournal
    <3>2. Recoverable # NoDir
      BY <3>1, ConstantFacts DEF Recoverable, Valid
    <3> QED
      BY <1>2, <2>3, <2>4, <3>1, <3>2 DEF Abstract!BeginRollback
  <2>6. CASE UnlinkJournal
    <3>1. journal = TRUE /\ journal' = FALSE
      BY <1>2, <2>1, <2>6 DEF UnlinkJournal
    <3> QED
      BY <1>2, <2>3, <2>4, <3>1 DEF Abstract!EndRollback
  <2> QED
    BY <2>2, <2>5, <2>6
<1>3. CASE /\ Recoverable' = Recoverable /\ journal' = journal
           /\ pc \notin WorkerPC /\ pc' \in WorkerPC
  <2>1. ~journal
    BY <1>3 DEF IInv, JournalInv
  <2> QED
    BY <1>3, <2>1 DEF Abstract!StartWorker
<1>4. CASE /\ Recoverable' = Recoverable /\ journal' = journal
           /\ pc \in WorkerPC /\ pc' \notin WorkerPC
  BY <1>4 DEF Abstract!StopWorker
<1> QED
  BY <1>1, <1>2, <1>3, <1>4

\* The store implements the abstract specification of one generation that is
\* replaced in one step (module Generation).
THEOREM Implements == Spec => ImplementsGeneration
<1>1. Init => Abstract!Init
  BY ConstantFacts
     DEF Init, Abstract!Init, Recoverable, Valid, WorkerPC, PublishPC
<1>2. IInv /\ IInv' /\ [Next]_vars => [Abstract!Next]_(Abstract!gVars)
  BY RefinementStep
<1> QED
  BY <1>1, <1>2, Invariance, PTL DEF Spec, ImplementsGeneration, Abstract!Spec
=============================================================================
