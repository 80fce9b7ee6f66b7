------------------------------- MODULE VmTask -------------------------------
(***************************************************************************)
(* What vm_task_impl promises the rest of the runner process: a VM is      *)
(* created or not, runs, may be told to stop, ends with one exit status,   *)
(* the completion task is told once, and only then is the VM dropped.      *)
(* Runner is built on this; VmSession shows how a Linux VM keeps it.       *)
(***************************************************************************)

VARIABLES
  stage,   (* how far the task has come *)
  exit     (* how the VM ended, until the completion task is told *)

vars == <<stage, exit>>

Stages == {"none", "creating", "running", "stopping", "ended", "told", "gone"}
Exits == {"success", "failed"}

(* A view may begin when the task is spawned. *)
Init == stage \in {"none", "creating"} /\ exit = "none"

Launch == stage = "none" /\ stage' = "creating" /\ UNCHANGED exit

Created ==
  /\ stage = "creating"
  /\ \/ stage' = "running" /\ UNCHANGED exit
     \/ stage' = "ended" /\ exit' = "failed"

Stop == stage = "running" /\ stage' = "stopping" /\ UNCHANGED exit

End ==
  /\ stage \in {"running", "stopping"}
  /\ stage' = "ended" /\ exit' \in Exits

Tell == stage = "ended" /\ stage' = "told" /\ exit' = "none"

Drop == stage = "told" /\ stage' = "gone" /\ UNCHANGED exit

Next == Launch \/ Created \/ Stop \/ End \/ Tell \/ Drop

Spec == Init /\ [][Next]_vars

=============================================================================
