----------------------------- MODULE MCDispatch ------------------------------
(* Small instances of Dispatch for TLC. *)
EXTENDS Dispatch

CONSTANTS p1, p2, h1, linux

OnePlatform == [p \in Procs |-> linux]

(* The processes have different limits: 1 has room for the smallest job,   *)
(* 2 also for the next, and nobody for one that asks for 3.                *)
LimitOne    == [p \in Procs |-> 1]
LimitsDiffer == [p \in Procs |-> IF p = p1 THEN 1 ELSE 2]

(* Budgets: at most one fault of each of these kinds. *)
Allow(kinds) == [kind \in FaultKinds |-> IF kind \in kinds THEN 1 ELSE 0]

NoFaults      == Allow({})
Timeout       == Allow({"timeout"})
LostRunner    == Allow({"runner", "network", "stop"})
LostBackend   == Allow({"backend", "launch", "timeout", "github"})

(* Bound: two jobs that are not a job and its retry come without faults.   *)
RetryOrNoFault ==
  faults = Budget \/ \A j \in Jobs : j > 1 =>
                       jobs[j].status = "absent" \/ jobs[j].prev # None

==============================================================================
