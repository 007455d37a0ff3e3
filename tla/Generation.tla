------------------------------ MODULE Generation ------------------------------
(***************************************************************************)
(* What the supervisor's durable state promises, with the file-system steps *)
(* left out: one current generation that is replaced in one step by the     *)
(* bundle of a running worker and never lost, and a rollback to it that is  *)
(* either not pending or pending, and no worker runs while it is pending.   *)
(***************************************************************************)
CONSTANTS
  Generations,   \* the bundles that can be published
  None           \* no generation was ever published

VARIABLES gen, pending, running
gVars == <<gen, pending, running>>

Init == gen = None /\ pending = FALSE /\ running = FALSE

\* A worker is only started on a bundle no rollback is half way through.
StartWorker ==
  /\ ~running /\ ~pending
  /\ running' = TRUE /\ UNCHANGED <<gen, pending>>

StopWorker == running /\ running' = FALSE /\ UNCHANGED <<gen, pending>>

Publish ==
  /\ running
  /\ gen' \in Generations /\ UNCHANGED <<pending, running>>

BeginRollback ==
  /\ ~running /\ gen # None
  /\ pending' = TRUE /\ UNCHANGED <<gen, running>>

EndRollback ==
  /\ pending /\ ~running
  /\ pending' = FALSE /\ UNCHANGED <<gen, running>>

Next == StartWorker \/ StopWorker \/ Publish \/ BeginRollback \/ EndRollback

Spec == Init /\ [][Next]_gVars
=============================================================================
