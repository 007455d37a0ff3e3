------------------------------ MODULE KnownGood ------------------------------
(***************************************************************************)
(* The durable state of the updater's supervisor                           *)
(* (update_dusky/python/update_dusky_supervisor.py) and every file-system   *)
(* step that changes it.                                                    *)
(*                                                                         *)
(* A bundle is the updater script, the active profile and the optional      *)
(* settings file.  Two directories hold published bundles (KNOWN and        *)
(* PREVIOUS), a journal file marks a rollback in progress, and every object *)
(* a rollback displaces is moved to a conflicts directory.  A step of this  *)
(* module is one durable effect (a rename, an unlink, a verified copy), so   *)
(* Crash between two steps is a power loss or a SIGKILL at that boundary.   *)
(* One supervisor acts at a time; the module Supervisor shows that the      *)
(* lock makes it so.  Other processes edit the installed files at will.     *)
(***************************************************************************)
EXTENDS Naturals, Sequences

CONSTANTS
  Members,      \* the members of a bundle, in manifest order
  Optional,     \* those whose absence is a valid configuration
  Contents,     \* regular-file contents, told apart by their digest
  Absent,       \* no object at the pathname
  Irregular,    \* objects that are not regular files (symlink, directory)
  NoDir,        \* a bundle directory that does not exist
  Damaged,      \* a bundle directory that fails verification
  MaxFaults,    \* bound on crashes and I/O errors
  RacingEdits   \* whether files may be edited while a rollback is running

Kind == {Members[i] : i \in 1..Len(Members)}
Script == Members[1]
Object == Contents \cup {Absent} \cup Irregular

\* read_manifest accepts exactly these; an absent member must be optional.
Bundle == {b \in [Kind -> Contents \cup {Absent}] :
             \A k \in Kind \ Optional : b[k] \in Contents}
Slot == Bundle \cup {NoDir, Damaged}

\* digest(): a regular file's content, else None (here Absent).
Digest(o) == IF o \in Contents THEN o ELSE Absent
Signature == [Kind -> Contents \cup {Absent}]

ASSUME MembersAssumption ==
  /\ Members \in Seq(Kind)
  /\ Len(Members) > 0
  /\ Optional \subseteq Kind \ {Script}
ASSUME ValuesAssumption ==
  /\ Absent \notin Contents \cup Irregular
  /\ Contents \cap Irregular = {}
  /\ NoDir # Damaged
  /\ NoDir \notin Signature /\ Damaged \notin Signature
ASSUME BoundsAssumption == MaxFaults \in Nat /\ RacingEdits \in BOOLEAN

VARIABLES
  installed,    \* the files at their live pathnames
  known,        \* STATE/known_good
  previous,     \* STATE/known_good.previous
  tmp,          \* the snapshot being built by publish_known_good
  journal,      \* whether rollback_pending.json exists
  conflicts,    \* what _preserve_conflict moved away: <<member, object>>
  rejected,     \* rejected_candidate.json, a signature or NoDir
  pc,           \* where the supervisor is
  ret,          \* which caller restore_known_good returns to
  idx,          \* the member a copying or restoring loop is at
  health,       \* the digests in health.json, or NoDir
  healthy,      \* healthy_count > 0
  acked,        \* history: a bundle was acknowledged to a worker
  half,         \* history: a rollback changed a file and has not finished
  faults        \* crashes and I/O errors so far

files == <<installed, conflicts>>
store == <<known, previous, tmp>>
notes == <<journal, rejected>>
locals == <<ret, idx, health, healthy>>
history == <<acked, half>>
vars == <<files, store, notes, pc, locals, history, faults>>

RecoverPC == {"recover", "journal", "check", "check2"}
PublishPC == {"copy", "swap", "demote", "promote", "verify", "drop"}
RestorePC == {"rJournal", "rStage", "rLook", "rPut", "rVerify", "rMatch"}
WorkerPC  == {"run"} \cup PublishPC \cup {"ack", "cleanup", "kill"}
PC == {"off", "finish"} \cup RecoverPC \cup RestorePC \cup WorkerPC

\* bundle_valid
Valid(d) == d \in Bundle

\* The generation recover_supervisor_state settles on.
Recoverable == IF Valid(known) THEN known
               ELSE IF Valid(previous) THEN previous ELSE NoDir

\* installed_matches_known: an absent member must not exist at all.
MatchesKnown == \A k \in Kind : installed[k] = known[k]

\* installed_signature
InstalledSignature == [k \in Kind |-> Digest(installed[k])]

\* One step of _remove_tree: a directory losing its first file is no longer
\* a valid bundle; the last step removes it.
RemoveTreeStep(d) == IF Valid(d) THEN Damaged ELSE NoDir

Goto(p) == pc' = p
Fault == faults < MaxFaults /\ faults' = faults + 1

\* The process ends, and its local variables with it.
Stop ==
  /\ Goto("off")
  /\ ret' = "off" /\ idx' = 1 /\ health' = NoDir /\ healthy' = FALSE

Init ==
  /\ installed \in [Kind -> Contents \cup {Absent}]
  /\ known = NoDir /\ previous = NoDir /\ tmp = NoDir
  /\ journal = FALSE /\ conflicts = {} /\ rejected = NoDir
  /\ pc = "off" /\ ret = "off" /\ idx = 1
  /\ health = NoDir /\ healthy = FALSE
  /\ acked = FALSE /\ half = FALSE /\ faults = 0

----------------------------------------------------------------------------
(* Mutated forms: the checks replace one definition below by its mutant and
   must then find the property it is paired with violated.                  *)

\* Recovery drops PREVIOUS whether or not KNOWN is valid.
RecoverDropAlways ==
  /\ pc = "recover" /\ previous # NoDir
  /\ previous' = RemoveTreeStep(previous)
  /\ UNCHANGED <<files, known, tmp, notes, pc, locals, history, faults>>

\* Recovery does not look at the rollback journal.
RecoverJournalIgnored ==
  /\ pc = "journal" /\ Goto("check")
  /\ UNCHANGED <<files, store, notes, locals, history, faults>>

\* The snapshot's copies are not compared with the reported digests.
WriteManifestUnverified ==
  /\ pc = "copy" /\ idx > Len(Members)
  /\ tmp' = InstalledSignature /\ idx' = 1 /\ Goto("swap")
  /\ UNCHANGED <<files, known, previous, notes, ret, health, healthy, history,
                 faults>>

\* The promoted directory is not verified.
VerifyKnownSkipped ==
  /\ pc = "verify" /\ Goto("drop")
  /\ UNCHANGED <<files, store, notes, locals, history, faults>>

\* The displaced object is overwritten instead of moved away.
LookAtTargetUnpreserved ==
  /\ pc = "rLook" /\ idx <= Len(Members)
  /\ Goto("rPut")
  /\ UNCHANGED <<files, store, notes, locals, history, faults>>

----------------------------------------------------------------------------
(* main, _run_supervised and recover_supervisor_state                      *)

\* main() took the supervisor lock.
Launch ==
  /\ pc = "off" /\ Goto("recover")
  /\ UNCHANGED <<files, store, notes, locals, history, faults>>

\* KNOWN is unusable and PREVIOUS complete: KNOWN goes to known_good.corrupt
\* (known_good.failed in publish_known_good's handler) ...
SetAsideKnown ==
  /\ pc \in {"recover", "cleanup"}
  /\ ~Valid(known) /\ Valid(previous) /\ known # NoDir
  /\ known' = NoDir
  /\ UNCHANGED <<files, previous, tmp, notes, pc, locals, history, faults>>

\* ... and PREVIOUS becomes KNOWN.
PromotePrevious ==
  /\ pc \in {"recover", "cleanup"}
  /\ known = NoDir /\ Valid(previous)
  /\ known' = previous /\ previous' = NoDir
  /\ UNCHANGED <<files, tmp, notes, pc, locals, history, faults>>

RecoverDropPrevious ==
  /\ pc = "recover" /\ Valid(known) /\ previous # NoDir
  /\ previous' = RemoveTreeStep(previous)
  /\ UNCHANGED <<files, known, tmp, notes, pc, locals, history, faults>>

RecoverDone ==
  /\ pc = "recover"
  /\ IF Valid(known) THEN previous = NoDir ELSE ~Valid(previous)
  /\ Goto("journal")
  /\ UNCHANGED <<files, store, notes, locals, history, faults>>

\* A rollback journal needs a valid KNOWN to finish the rollback with;
\* without one the launch ends (exit code 70).
RecoverJournal ==
  /\ pc = "journal"
  /\ \/ ~journal /\ Goto("check") /\ UNCHANGED locals
     \/ journal /\ Valid(known) /\ Goto("rJournal")
        /\ ret' = "check" /\ UNCHANGED <<idx, health, healthy>>
     \/ journal /\ ~Valid(known) /\ Stop
  /\ UNCHANGED <<files, store, notes, history, faults>>

\* remember_rejected_candidate, best effort: its failure is only reported.
RememberRejected == rejected' \in {InstalledSignature, rejected}

\* An updater that is missing or not a regular file cannot be launched: it is
\* restored first if it can be.
CheckScript ==
  /\ pc = "check"
  /\ \/ /\ Digest(installed[Script]) # Absent
        /\ Goto("run") /\ UNCHANGED <<locals, rejected>>
     \/ /\ Digest(installed[Script]) = Absent /\ Valid(known)
        /\ RememberRejected /\ Goto("rJournal")
        /\ ret' = "check2" /\ UNCHANGED <<idx, health, healthy>>
     \/ /\ Digest(installed[Script]) = Absent /\ ~Valid(known)
        /\ Stop /\ UNCHANGED rejected
  /\ UNCHANGED <<files, store, journal, history, faults>>

CheckScriptAgain ==
  /\ pc = "check2"
  /\ IF Digest(installed[Script]) # Absent
     THEN Goto("run") /\ UNCHANGED locals ELSE Stop
  /\ UNCHANGED <<files, store, notes, history, faults>>

----------------------------------------------------------------------------
(* run_once: the worker is running                                         *)

\* _supervisor_health_checkpoint writes the digests it reads from disk.
WorkerHealth ==
  /\ pc = "run" /\ health = NoDir
  /\ health' = InstalledSignature
  /\ UNCHANGED <<files, store, notes, pc, ret, idx, healthy, history, faults>>

\* _health_members: every member is re-read and must still carry the claimed
\* digest; absence is accepted for an optional member claimed absent.
ReadHealth ==
  /\ pc = "run" /\ health # NoDir
  /\ IF health \in Bundle /\ \A k \in Kind : installed[k] = health[k]
     THEN Goto("copy") /\ tmp' = Damaged
     ELSE Goto("kill") /\ UNCHANGED tmp
  /\ UNCHANGED <<files, known, previous, notes, locals, history, faults>>

\* The worker ended, or reported that its update is finished.  Exit code 0
\* without an acknowledged health report is not judged (a declined lock
\* conflict ends so); everything else is.
WorkerExit ==
  /\ pc = "run"
  /\ \E rc \in {0, 1} :
       IF rc = 0 /\ ~healthy THEN Stop ELSE Goto("finish") /\ UNCHANGED locals
  /\ UNCHANGED <<files, store, notes, history, faults>>

\* publish_known_good failed: run_once terminates the worker, exit code 70.
KillWorker ==
  /\ pc = "kill" /\ Goto("finish")
  /\ UNCHANGED <<files, store, notes, locals, history, faults>>

----------------------------------------------------------------------------
(* publish_known_good                                                      *)

\* copy_durable and the digest of the copy; the manifest comes last, so the
\* snapshot is a bundle only then.
CopyMember ==
  /\ pc = "copy" /\ idx <= Len(Members)
  /\ LET k == Members[idx] IN
       IF health[k] # Absent /\ installed[k] # health[k]
       THEN Goto("cleanup") /\ idx' = 1
       ELSE UNCHANGED pc /\ idx' = idx + 1
  /\ UNCHANGED <<files, store, notes, ret, health, healthy, history, faults>>

WriteManifest ==
  /\ pc = "copy" /\ idx > Len(Members)
  /\ tmp' = health /\ idx' = 1 /\ Goto("swap")
  /\ UNCHANGED <<files, known, previous, notes, ret, health, healthy, history,
                 faults>>

\* _remove_tree(PREVIOUS), before the swap and again after it.
DropPrevious ==
  /\ pc \in {"swap", "drop"}
  /\ IF previous = NoDir
     THEN Goto(IF pc = "swap" THEN "demote" ELSE "ack") /\ UNCHANGED previous
     ELSE previous' = RemoveTreeStep(previous) /\ UNCHANGED pc
  /\ UNCHANGED <<files, known, tmp, notes, locals, history, faults>>

\* KNOWN -> PREVIOUS
DemoteKnown ==
  /\ pc = "demote" /\ Goto("promote")
  /\ previous' = known /\ known' = NoDir
  /\ UNCHANGED <<files, tmp, notes, locals, history, faults>>

\* tmp -> KNOWN.  A storage fault may leave a directory that fails the
\* self-verification that follows.
PromoteTmp ==
  /\ pc = "promote" /\ Goto("verify")
  /\ \/ known' = tmp /\ UNCHANGED faults
     \/ known' = Damaged /\ Fault
  /\ tmp' = NoDir
  /\ UNCHANGED <<files, previous, notes, locals, history>>

VerifyKnown ==
  /\ pc = "verify"
  /\ Goto(IF Valid(known) THEN "drop" ELSE "cleanup")
  /\ UNCHANGED <<files, store, notes, locals, history, faults>>

\* The ack file is created; the worker consumes it and goes on.
Acknowledge ==
  /\ pc = "ack" /\ Goto("run")
  /\ healthy' = TRUE /\ acked' = TRUE /\ health' = NoDir
  /\ UNCHANGED <<files, store, notes, ret, idx, half, faults>>

\* An exception anywhere in publish_known_good, or while creating the ack.
PublishError ==
  /\ pc \in PublishPC \cup {"ack"} /\ Fault
  /\ Goto(IF pc = "ack" THEN "kill" ELSE "cleanup") /\ idx' = 1
  /\ UNCHANGED <<files, store, notes, ret, health, healthy, history>>

\* The handler removes the snapshot and, after SetAsideKnown and
\* PromotePrevious when they apply, re-raises.
CleanupDone ==
  /\ pc = "cleanup" /\ (Valid(known) \/ ~Valid(previous))
  /\ Goto("kill") /\ tmp' = NoDir
  /\ UNCHANGED <<files, known, previous, notes, locals, history, faults>>

----------------------------------------------------------------------------
(* _finish_candidate and restore_known_good                                *)

FinishCandidate ==
  /\ pc = "finish"
  /\ IF Valid(known) /\ ~MatchesKnown
     THEN /\ RememberRejected /\ Goto("rJournal")
          /\ health' = NoDir /\ healthy' = FALSE /\ UNCHANGED <<ret, idx>>
     ELSE Stop /\ UNCHANGED rejected
  /\ UNCHANGED <<files, store, journal, history, faults>>

WriteJournal ==
  /\ pc = "rJournal"
  /\ IF Valid(known)
     THEN journal' = TRUE /\ Goto("rStage") /\ UNCHANGED locals
     ELSE UNCHANGED journal /\ Stop
  /\ UNCHANGED <<files, store, rejected, history, faults>>

\* Every present member is copied next to its target and verified before the
\* first target is touched.
StageAll ==
  /\ pc = "rStage" /\ Goto("rLook")
  /\ UNCHANGED <<files, store, notes, locals, history, faults>>

\* lstat, digest and, when the object is not the known-good one,
\* _preserve_conflict.  A member recorded absent is only moved away.
LookAtTarget ==
  /\ pc = "rLook" /\ idx <= Len(Members)
  /\ LET k == Members[idx]
         o == installed[k]
     IN /\ IF o # Absent /\ o # known[k]
           THEN /\ conflicts' = conflicts \cup {<<k, o>>}
                /\ installed' = [installed EXCEPT ![k] = Absent]
                /\ half' = TRUE
           ELSE UNCHANGED <<files, half>>
        /\ IF known[k] = Absent THEN idx' = idx + 1 /\ UNCHANGED pc
                                ELSE Goto("rPut") /\ UNCHANGED idx
  /\ UNCHANGED <<store, notes, ret, health, healthy, acked, faults>>

\* os.replace(tmp, dst): whatever is there now is gone.
PutMember ==
  /\ pc = "rPut" /\ Goto("rVerify")
  /\ installed' = [installed EXCEPT ![Members[idx]] = known[Members[idx]]]
  /\ half' = TRUE
  /\ UNCHANGED <<conflicts, store, notes, locals, acked, faults>>

\* The target must carry the digest now; the journal's index is advanced.
VerifyMember ==
  /\ pc = "rVerify"
  /\ IF installed[Members[idx]] = known[Members[idx]]
     THEN Goto("rLook") /\ idx' = idx + 1 /\ UNCHANGED <<ret, health, healthy>>
     ELSE Stop
  /\ UNCHANGED <<files, store, notes, history, faults>>

UnlinkJournal ==
  /\ pc = "rLook" /\ idx > Len(Members)
  /\ journal' = FALSE /\ half' = FALSE /\ idx' = 1 /\ Goto("rMatch")
  /\ UNCHANGED <<files, store, rejected, ret, health, healthy, acked, faults>>

\* restore_known_good returns installed_matches_known(); a caller that gets
\* False ends the launch.
RestoreReturn ==
  /\ pc = "rMatch"
  /\ IF Valid(known) /\ MatchesKnown /\ ret # "off"
     THEN Goto(ret) /\ ret' = "off" /\ UNCHANGED <<idx, health, healthy>>
     ELSE Stop
  /\ UNCHANGED <<files, store, notes, history, faults>>

\* An OSError in restore_known_good: it returns False and keeps the journal.
RestoreError ==
  /\ pc \in RestorePC /\ Stop /\ Fault
  /\ UNCHANGED <<files, store, notes, history>>

\* A KeyboardInterrupt is none of the exceptions restore_known_good catches:
\* run_once ends and _run_supervised judges the candidate once more.
InterruptRestore ==
  /\ pc \in RestorePC /\ ret = "off" /\ Goto("finish") /\ Fault
  /\ idx' = 1 /\ UNCHANGED <<ret, health, healthy>>
  /\ UNCHANGED <<files, store, notes, history>>

----------------------------------------------------------------------------
(* The environment                                                         *)

\* A kill or power loss.  A snapshot directory left behind is never read.
Crash ==
  /\ pc # "off" /\ Stop /\ tmp' = NoDir /\ Fault
  /\ UNCHANGED <<files, known, previous, notes, history>>

\* The user, the worker's synchronisation or an orphaned worker changes a
\* live file.
Edit ==
  /\ RacingEdits \/ pc \notin RestorePC
  /\ \E k \in Kind, o \in Object :
       installed' = [installed EXCEPT ![k] = o]
  /\ UNCHANGED <<conflicts, store, notes, pc, locals, history, faults>>

Recovering == Launch \/ SetAsideKnown \/ PromotePrevious \/ RecoverDropPrevious
              \/ RecoverDone \/ RecoverJournal \/ CheckScript
              \/ CheckScriptAgain
Publishing == ReadHealth \/ KillWorker \/ CopyMember \/ WriteManifest
              \/ DropPrevious \/ DemoteKnown \/ PromoteTmp \/ VerifyKnown
              \/ Acknowledge \/ CleanupDone
Restoring == FinishCandidate \/ WriteJournal \/ StageAll \/ LookAtTarget
             \/ PutMember \/ VerifyMember \/ UnlinkJournal \/ RestoreReturn
Worker == WorkerHealth \/ WorkerExit
Environment == PublishError \/ RestoreError \/ InterruptRestore \/ Crash
               \/ Edit

Next == Recovering \/ Publishing \/ Restoring \/ Worker \/ Environment

Spec == Init /\ [][Next]_vars

\* The user keeps launching the updater, and a launched supervisor keeps
\* running; nothing is assumed of the worker, of faults or of edits.
FairSpec == Spec /\ WF_vars(Recovering) /\ WF_vars(Restoring)
                 /\ WF_vars(Publishing)

----------------------------------------------------------------------------
(* Properties                                                              *)

\* Every variable stays in its range; in particular KNOWN and PREVIOUS are a
\* complete bundle, missing or damaged.
TypeOK ==
  /\ installed \in [Kind -> Object]
  /\ known \in Slot /\ previous \in Slot /\ tmp \in Slot
  /\ journal \in BOOLEAN /\ conflicts \subseteq (Kind \X Object)
  /\ rejected \in Signature \cup {NoDir}
  /\ pc \in PC /\ ret \in {"off", "check", "check2"}
  /\ idx \in 1..(Len(Members) + 1)
  /\ health \in Signature \cup {NoDir} /\ healthy \in BOOLEAN
  /\ acked \in BOOLEAN /\ half \in BOOLEAN
  /\ faults \in 0..MaxFaults

\* Once a bundle has been acknowledged to a worker there is, at every rename
\* boundary of publication, recovery and rollback, a complete generation the
\* next launch can restore ("a crash at every rename boundary is recoverable",
\* publish_known_good).
GenerationSurvives == acked => Recoverable # NoDir

\* The generation a launch would restore changes only to the bundle whose
\* health report is being published, and is never lost: neither a failed
\* verification nor the handler nor recovery falls back further than that.
GenerationOnlyAdvances ==
  [][Recoverable' # Recoverable =>
       Recoverable' \in Bundle /\ Recoverable' = health]_vars

\* A rollback that stopped half way leaves its journal behind, which can always be
\* worked off (without a valid KNOWN every later launch would end with "recovery
\* data retained"), and no worker is started from the mixture of old and new files.
JournalIsServiceable == journal => Valid(known)
RollbackIsResumable ==
  /\ half => journal
  /\ JournalIsServiceable
  /\ pc \in WorkerPC => ~half

Preserved(k) ==
  \/ installed'[k] = installed[k]
  \/ installed[k] = Absent \/ installed[k] = known[k]
  \/ <<k, installed[k]>> \in conflicts'

\* A rollback destroys nothing: when it changes a live file, the object that
\* was there is the known-good one or is kept among the conflicts ("Preserve
\* every displaced non-known-good object, including a locally edited regular
\* file", restore_known_good).
DisplacedIsPreserved ==
  [][(pc \in RestorePC /\ <<pc, idx>>' # <<pc, idx>>) =>
       \A k \in Kind : Preserved(k)]_vars

\* A rollback that was interrupted is finished once the updater is launched
\* again and faults cease.
RollbackCompletes == journal ~> ~journal

\* The detailed store implements the abstract one.
Abstract == INSTANCE Generation WITH
  Generations <- Bundle, None <- NoDir, gen <- Recoverable,
  pending <- journal, running <- pc \in WorkerPC
ImplementsGeneration == Abstract!Spec
=============================================================================
