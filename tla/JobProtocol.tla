----------------------------- MODULE JobProtocol -----------------------------
(***************************************************************************)
(* The vocabulary the backend and the runners share: the statuses a job    *)
(* goes through and the rules each side applies to a change of status.     *)
(* JobStatus::Complete(c) is written as the completion status c itself,    *)
(* which is also how the jobs table stores it.                             *)
(***************************************************************************)

(* CompletionStatus *)
Completions == {"failed", "success", "cancelled", "timed_out", "skipped"}

(* JobStatus *)
JobStatuses == {"queued", "running"} \cup Completions

(* Mutant: any job that has left the queue can be retried. *)
IsRetryableOnceRunning(status) == status \in Completions \cup {"running"}

(* Job::is_retryable: complete, and not a success. *)
IsRetryable(status) == status \in Completions \ {"success"}

(* Job::cancel and Job::is_cancellable: queued or running. *)
IsCancellable(status) == status \in {"queued", "running"}

==============================================================================
