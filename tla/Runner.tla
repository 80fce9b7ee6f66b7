------------------------------- MODULE Runner -------------------------------
(***************************************************************************)
(* The tasks of a runner process and what lies between them: the main      *)
(* loop, the completion task and one task per VM; JobManager with its lock *)
(* and its channel of status events, the channel of completions and one    *)
(* control channel per VM.  A writer of JobManager sends its event before  *)
(* it lets go of the lock, and only the main loop, itself a writer, reads  *)
(* the events.                                                             *)
(*                                                                         *)
(* The backend appears as the messages it may send: a job is granted once, *)
(* cancelled or timed out only after that (Dispatch).                      *)
(***************************************************************************)
EXTENDS Naturals, Sequences, SequencesExt, FiniteSets

CONSTANTS
  Jobs,
  StatusCap, CompletionCap, ControlCap,  (* 100, 100 and 10 in the code *)
  MaxOrders   (* cancellations and timeouts that arrive for one job *)

ASSUME RunnerAssumption ==
  /\ {StatusCap, CompletionCap, ControlCap} \subseteq Nat \ {0}
  /\ MaxOrders \in Nat

VmExits == {"success", "failed"}
Orders == {"cancelled", "timed_out"}
Completions == VmExits \cup Orders
Statuses == {"queued", "running"} \cup Completions

VARIABLES
  jobs,           (* JobManager.jobs, "absent" before register_job *)
  writer,         (* who holds the lock while its event waits for room *)
  status_rx,      (* the status events not yet read *)
  main,           (* where the main loop is, for which job and status *)
  shutting_down,
  completion_rx,  (* the completions not yet read *)
  completing,     (* the completion the completion task is handling *)
  vm, exit,       (* each VM task, and how its VM ended *)
  control,        (* commands waiting in each control channel *)
  registered,     (* the jobs that have a control channel in the map *)
  orders,         (* how many cancellations and timeouts came for each job *)
  reports         (* UpdateJobStatus messages handed to the client *)

jobManager == <<jobs, writer, status_rx>>
loop == <<main, shutting_down, orders>>
completions == <<completion_rx, completing>>
vms == <<vm, exit, control, registered>>
vars == <<jobManager, loop, completions, vms, reports>>

VmStages == {"none", "creating", "running", "stopping", "ended", "told", "gone"}
Places == {"select", "top", "count", "register", "launch", "update",
           "shutdown", "exited"}

NoEvent == [job |-> "none", status |-> "none"]
NoWriter == [job |-> "none", status |-> "none", by |-> "none"]
Events == [job : Jobs, status : Statuses]
Event(j, s) == [job |-> j, status |-> s]

TypeOK ==
  /\ jobs \in [Jobs -> Statuses \cup {"absent"}]
  /\ writer \in {NoWriter} \cup
       [job : Jobs, status : Statuses, by : {"main", "completion"}]
  /\ status_rx \in Seq(Events) /\ Len(status_rx) <= StatusCap
  /\ main \in [at : Places, job : Jobs \cup {"none"}, status : Statuses \cup {"none"}]
  /\ shutting_down \in BOOLEAN
  /\ completion_rx \in Seq(Events) /\ Len(completion_rx) <= CompletionCap
  /\ completing \in Events \cup {NoEvent}
  /\ vm \in [Jobs -> VmStages]
  /\ exit \in [Jobs -> VmExits \cup {"none"}]
  /\ control \in [Jobs -> 0 .. ControlCap]
  /\ registered \in SUBSET Jobs
  /\ orders \in [Jobs -> 0 .. MaxOrders]
  /\ reports \in [Jobs -> Seq(Completions)]

Init ==
  /\ jobs = [j \in Jobs |-> "absent"]
  /\ writer = NoWriter
  /\ status_rx = <<>>
  /\ main = [at |-> "select", job |-> "none", status |-> "none"]
  /\ shutting_down = FALSE
  /\ completion_rx = <<>> /\ completing = NoEvent
  /\ vm = [j \in Jobs |-> "none"] /\ exit = [j \in Jobs |-> "none"]
  /\ control = [j \in Jobs |-> 0] /\ registered = {}
  /\ orders = [j \in Jobs |-> 0]
  /\ reports = [j \in Jobs |-> <<>>]

Alive == main.at # "exited"
LockFree == writer = NoWriter

-----------------------------------------------------------------------------
(* JobManager *)

(* Mutants: a job that is over may end again; the roles of Queued and      *)
(* Running are swapped.                                                    *)
AllowedAgain(from, to) ==
  \/ from = "queued" /\ to \in {"running", "cancelled"}
  \/ from \notin {"queued", "absent", to} /\ to \in Completions

AllowedSwapped(from, to) ==
  \/ from = "queued" /\ to \in {"running"} \cup Completions
  \/ from = "running" /\ to = "cancelled"

(* The transitions update_job_status lets through. *)
Allowed(from, to) ==
  \/ from = "queued" /\ to \in {"running", "cancelled"}
  \/ from = "running" /\ to \in Completions

(* The write is visible when the lock is let go, which is after the send.  *)
Write(by, j, s) ==
  /\ jobs' = [jobs EXCEPT ![j] = s]
  /\ IF Len(status_rx) < StatusCap
     THEN status_rx' = Append(status_rx, Event(j, s)) /\ UNCHANGED writer
     ELSE writer' = [job |-> j, status |-> s, by |-> by] /\ UNCHANGED status_rx

UpdateJobStatus(by, j, s) ==
  /\ LockFree
  /\ IF Allowed(jobs[j], s) THEN Write(by, j, s) ELSE UNCHANGED jobManager

(* The writer finds room for its event. *)
SendEvent ==
  /\ Alive /\ ~LockFree
  /\ Len(status_rx) < StatusCap
  /\ status_rx' = Append(status_rx, Event(writer.job, writer.status))
  /\ writer' = NoWriter
  /\ UNCHANGED <<jobs, loop, completions, vms, reports>>

(* Mutant: active_job_count counts every job there ever was. *)
EveryJob == {j \in Jobs : jobs[j] # "absent"}

(* active_job_count *)
ActiveJobs == {j \in Jobs : jobs[j] \in {"queued", "running"}}

-----------------------------------------------------------------------------
(* The main loop *)

MainGoesOn == writer.by # "main"

At(place, j, s) == [at |-> place, job |-> j, status |-> s]

(* The next iteration starts with a test that asks JobManager only while   *)
(* shutting down.                                                          *)
NextIteration == At(IF shutting_down THEN "top" ELSE "select", "none", "none")

Selecting == main.at = "select" /\ MainGoesOn

(* Mutant: every event is sent on as an end. *)
ReportEveryStatus ==
  /\ Selecting
  /\ status_rx # <<>>
  /\ LET e == Head(status_rx) IN
       reports' = [reports EXCEPT ![e.job] = Append(@, e.status)]
  /\ status_rx' = Tail(status_rx)
  /\ main' = NextIteration
  /\ UNCHANGED <<jobs, writer, shutting_down, orders, completions, vms>>

(* job_status_rx.recv: an end is sent to the backend. *)
ReceiveStatus ==
  /\ Selecting
  /\ status_rx # <<>>
  /\ LET e == Head(status_rx) IN
       reports' = IF e.status \in Completions
                  THEN [reports EXCEPT ![e.job] = Append(@, e.status)]
                  ELSE reports
  /\ status_rx' = Tail(status_rx)
  /\ main' = NextIteration
  /\ UNCHANGED <<jobs, writer, shutting_down, orders, completions, vms>>

ReadJobClaimed(j) ==
  /\ Selecting /\ ~shutting_down
  /\ jobs[j] = "absent"
  /\ main' = At("register", j, "none")
  /\ UNCHANGED <<jobManager, shutting_down, orders, completions, vms, reports>>

ReadOrder(j, s) ==
  /\ Selecting /\ ~shutting_down
  /\ jobs[j] # "absent" /\ orders[j] < MaxOrders
  /\ orders' = [orders EXCEPT ![j] = @ + 1]
  /\ main' = At("update", j, s)
  /\ UNCHANGED <<jobManager, shutting_down, completions, vms, reports>>

(* The metrics tick counts the jobs, which takes the lock for reading. *)
Tick ==
  /\ Selecting
  /\ main' = At("count", "none", "none")
  /\ UNCHANGED <<jobManager, shutting_down, orders, completions, vms, reports>>

CountJobs ==
  /\ main.at = "count" /\ LockFree
  /\ main' = NextIteration
  /\ UNCHANGED <<jobManager, shutting_down, orders, completions, vms, reports>>

Drain ==
  /\ Selecting /\ ~shutting_down
  /\ shutting_down' = TRUE
  /\ main' = At("top", "none", "none")
  /\ UNCHANGED <<jobManager, orders, completions, vms, reports>>

(* Exit if we're shutting down and all jobs are complete. *)
TestExit ==
  /\ main.at = "top" /\ LockFree
  /\ main' = At(IF ActiveJobs = {} THEN "exited" ELSE "select", "none", "none")
  /\ UNCHANGED <<jobManager, shutting_down, orders, completions, vms, reports>>

RegisterJob ==
  /\ main.at = "register" /\ LockFree
  /\ Write("main", main.job, "queued")
  /\ main' = [main EXCEPT !.at = "launch"]
  /\ UNCHANGED <<shutting_down, orders, completions, vms, reports>>

(* Mutant: the control channel is not yet in the map. *)
LaunchUnregistered ==
  /\ main.at = "launch" /\ MainGoesOn
  /\ vm' = [vm EXCEPT ![main.job] = "creating"]
  /\ main' = At("update", main.job, "running")
  /\ UNCHANGED <<jobManager, shutting_down, orders, completions, exit, control,
                 registered, reports>>

(* launch_vm spawns the task and never fails; set_job_running follows. *)
LaunchVm ==
  /\ main.at = "launch" /\ MainGoesOn
  /\ registered' = registered \cup {main.job}
  /\ vm' = [vm EXCEPT ![main.job] = "creating"]
  /\ main' = At("update", main.job, "running")
  /\ UNCHANGED <<jobManager, shutting_down, orders, completions, exit, control,
                 reports>>

(* set_job_running or complete_job; an order then goes to the VM. *)
UpdateJob ==
  /\ main.at = "update"
  /\ UpdateJobStatus("main", main.job, main.status)
  /\ main' = IF main.status = "running" THEN NextIteration
             ELSE [main EXCEPT !.at = "shutdown"]
  /\ UNCHANGED <<shutting_down, orders, completions, vms, reports>>

(* shutdown_vm waits for room; without a control channel it does nothing.  *)
ShutdownVm ==
  /\ main.at = "shutdown" /\ MainGoesOn
  /\ IF main.job \in registered
     THEN /\ control[main.job] < ControlCap
          /\ control' = [control EXCEPT ![main.job] = @ + 1]
     ELSE UNCHANGED control
  /\ main' = NextIteration
  /\ UNCHANGED <<jobManager, shutting_down, orders, completions, vm, exit,
                 registered, reports>>

-----------------------------------------------------------------------------
(* The completion task *)

ReceiveCompletion ==
  /\ Alive
  /\ completing = NoEvent /\ writer.by # "completion"
  /\ completion_rx # <<>>
  /\ completing' = Head(completion_rx)
  /\ completion_rx' = Tail(completion_rx)
  /\ UNCHANGED <<jobManager, loop, vms, reports>>

CompleteJob ==
  /\ Alive
  /\ completing # NoEvent
  /\ UpdateJobStatus("completion", completing.job, completing.status)
  /\ completing' = NoEvent
  /\ UNCHANGED <<loop, completion_rx, vms, reports>>

-----------------------------------------------------------------------------
(* vm_task_impl *)

(* create_vm, set_job_config and start, one of which may fail. *)
CreateVm(j) ==
  /\ Alive /\ vm[j] = "creating"
  /\ \/ vm' = [vm EXCEPT ![j] = "running"] /\ UNCHANGED exit
     \/ vm' = [vm EXCEPT ![j] = "ended"] /\ exit' = [exit EXCEPT ![j] = "failed"]
  /\ UNCHANGED <<jobManager, loop, completions, control, registered, reports>>

(* Mutant: a command is taken while the VM is being created. *)
StopAnyVm(j) ==
  /\ Alive /\ vm[j] \in {"creating", "running"}
  /\ control[j] > 0
  /\ control' = [control EXCEPT ![j] = @ - 1]
  /\ vm' = [vm EXCEPT ![j] = "stopping"]
  /\ UNCHANGED <<jobManager, loop, completions, exit, registered, reports>>

(* select: a command is received and the VM told to shut down, or it ends. *)
StopVm(j) ==
  /\ Alive /\ vm[j] = "running"
  /\ control[j] > 0
  /\ control' = [control EXCEPT ![j] = @ - 1]
  /\ vm' = [vm EXCEPT ![j] = "stopping"]
  /\ UNCHANGED <<jobManager, loop, completions, exit, registered, reports>>

VmEnds(j, s) ==
  /\ Alive /\ vm[j] \in {"running", "stopping"}
  /\ vm' = [vm EXCEPT ![j] = "ended"]
  /\ exit' = [exit EXCEPT ![j] = s]
  /\ UNCHANGED <<jobManager, loop, completions, control, registered, reports>>

SendCompletion(j) ==
  /\ Alive /\ vm[j] = "ended"
  /\ Len(completion_rx) < CompletionCap
  /\ completion_rx' = Append(completion_rx, Event(j, exit[j]))
  /\ vm' = [vm EXCEPT ![j] = "told"] /\ exit' = [exit EXCEPT ![j] = "none"]
  /\ UNCHANGED <<jobManager, loop, completing, control, registered, reports>>

(* The VM is dropped and its control channel taken out of the map; what    *)
(* is left in the channel goes with the receiver.                          *)
EndTask(j) ==
  /\ Alive /\ vm[j] = "told"
  /\ vm' = [vm EXCEPT ![j] = "gone"]
  /\ registered' = registered \ {j}
  /\ control' = [control EXCEPT ![j] = 0]
  /\ UNCHANGED <<jobManager, loop, completions, exit, reports>>

-----------------------------------------------------------------------------
MainStep ==
  \/ CountJobs \/ TestExit \/ RegisterJob \/ LaunchVm \/ UpdateJob \/ ShutdownVm

Reads ==
  \/ Drain \/ Tick
  \/ \E j \in Jobs : ReadJobClaimed(j) \/ \E s \in Orders : ReadOrder(j, s)

VmTask(j) ==
  \/ CreateVm(j) \/ StopVm(j) \/ SendCompletion(j) \/ EndTask(j)
  \/ \E s \in VmExits : VmEnds(j, s)

Next ==
  \/ SendEvent \/ MainStep \/ Reads \/ ReceiveStatus
  \/ ReceiveCompletion \/ CompleteJob
  \/ \E j \in Jobs : VmTask(j)

Spec == Init /\ [][Next]_vars

(* Tasks run; select picks among its ready branches at random, so a branch *)
(* that is ready again and again is taken.  Nothing is said of creation    *)
(* and of the guest, which may hang.                                       *)
FairSpec ==
  /\ Spec
  /\ WF_vars(SendEvent) /\ WF_vars(MainStep) /\ SF_vars(ReceiveStatus)
  /\ WF_vars(ReceiveCompletion) /\ SF_vars(CompleteJob)
  /\ \A j \in Jobs : SF_vars(SendCompletion(j))

-----------------------------------------------------------------------------
(* Correctness *)

(* The events the main loop has not read yet, and which of them end j.     *)
Waiting == IF LockFree THEN status_rx ELSE Append(status_rx, writer)

UnreadEnds(j) ==
  {i \in DOMAIN Waiting : Waiting[i].job = j /\ Waiting[i].status \in Completions}

(* However the completion task, cancellations and timeouts race, JobManager *)
(* gives a job one end, and the backend is told that one, once: it has been *)
(* told, or there is one event from which it will be.                      *)
EndsOnce ==
  \A j \in Jobs :
    IF jobs[j] \notin Completions THEN reports[j] = <<>> /\ UnreadEnds(j) = {}
    ELSE \/ reports[j] = <<jobs[j]>> /\ UnreadEnds(j) = {}
         \/ /\ reports[j] = <<>>
            /\ \E i \in UnreadEnds(j) :
                 UnreadEnds(j) = {i} /\ Waiting[i].status = jobs[j]

(* Once a job is marked cancelled or timed out, the command to stop its VM *)
(* is in the VM's control channel, even if the VM is still being built.    *)
OrderReachesVm ==
  \A j \in Jobs :
    jobs[j] \in Orders /\ vm[j] \in {"creating", "running"} =>
      control[j] > 0 \/ (main.at = "shutdown" /\ main.job = j)

(* The channel is full and its only reader waits for room in it, or for    *)
(* the lock that the one who waits for room holds: nobody moves again.     *)
WaitsForItself ==
  /\ Len(status_rx) = StatusCap /\ ~LockFree
  /\ writer.by = "main" \/ main.at \in {"top", "count", "register", "update"}

(* A VM that ends while its job is running is reported, unless the main    *)
(* loop waits for itself or the process has exited.                        *)
EndedVmIsReported ==
  \A j \in Jobs :
    vm[j] = "ended" /\ jobs[j] = "running" ~>
      reports[j] # <<>> \/ WaitsForItself \/ ~Alive

(* A process that is told to stop exits once the VMs of its jobs end,      *)
(* unless the main loop waits for itself.                                  *)
DrainEnds ==
  shutting_down /\ (\A j \in ActiveJobs : vm[j] = "ended") ~>
    WaitsForItself \/ ~Alive

(* The task of each VM is one that VmTask describes, as VmSession shows of *)
(* a Linux VM (vm_task_impl).                                              *)
TaskOf(j) == INSTANCE VmTask WITH stage <- vm[j], exit <- exit[j]

VmTasksKept ==
  /\ \A j \in Jobs : TaskOf(j)!Init
  /\ [][\A j \in Jobs : [TaskOf(j)!Next]_(TaskOf(j)!vars)]_vars

(* runner.rs: a completion is rejected if the job was already marked as    *)
(* cancelled or timed out.                                                 *)
CompletionRejectedOnlyWhenMarked ==
  [][completing # NoEvent /\ completing' = NoEvent /\ UNCHANGED jobs =>
       jobs[completing.job] \in Orders]_vars

==============================================================================
