---------------------------- MODULE RunnerProofs ----------------------------
(***************************************************************************)
(* Theorems about Runner, for any number of jobs and orders and any        *)
(* capacity of the channels.                                               *)
(***************************************************************************)
EXTENDS Runner, TLAPS

-----------------------------------------------------------------------------
(* The inductive invariant *)

LoopStates == [at : Places, job : Jobs \cup {"none"}, status : Statuses \cup {"none"}]
Writers == [job : Jobs, status : Statuses, by : {"main", "completion"}]

(* The type invariant in parts: one for each group of variables.           *)
JobsOK ==
  /\ jobs \in [Jobs -> Statuses \cup {"absent"}]
  /\ writer \in {NoWriter} \cup Writers
  /\ status_rx \in Seq(Events) /\ Len(status_rx) <= StatusCap

ReportsOK == reports \in [Jobs -> Seq(Completions)]

LoopOK ==
  /\ main \in LoopStates
  /\ shutting_down \in BOOLEAN
  /\ orders \in [Jobs -> 0 .. MaxOrders]

CompletionsOK ==
  /\ completion_rx \in Seq(Events) /\ Len(completion_rx) <= CompletionCap
  /\ completing \in Events \cup {NoEvent}

VmsOK ==
  /\ vm \in [Jobs -> VmStages]
  /\ exit \in [Jobs -> VmExits \cup {"none"}]
  /\ control \in [Jobs -> 0 .. ControlCap]
  /\ registered \in SUBSET Jobs

(* A completion carries the exit status of a VM.                           *)
VmEvents == [job : Jobs, status : VmExits]

CompletionInv ==
  /\ completion_rx \in Seq(VmEvents) /\ Len(completion_rx) <= CompletionCap
  /\ completing \in VmEvents \cup {NoEvent}
  /\ \A j \in Jobs : vm[j] = "ended" => exit[j] \in VmExits

(* What the main loop knows of the job it is about: only it registers and  *)
(* launches, and a job has a VM only after that.                           *)
LoopInv ==
  /\ main.at \in {"register", "launch", "update", "shutdown"} => main.job \in Jobs
  /\ main.at = "update" => main.status \in {"running"} \cup Orders
  /\ main.at = "register" => jobs[main.job] = "absent"
  /\ main.at = "launch" => jobs[main.job] = "queued" /\ vm[main.job] = "none"
  /\ \A j \in Jobs : jobs[j] = "absent" => vm[j] = "none"

(* The control channel of a VM is in the map as long as the VM can run.    *)
ControlInv == \A j \in Jobs : vm[j] \in {"creating", "running"} => j \in registered

RunnerInv ==
  /\ JobsOK /\ ReportsOK /\ LoopOK /\ CompletionsOK /\ VmsOK
  /\ CompletionInv /\ LoopInv /\ ControlInv /\ OrderReachesVm /\ EndsOnce

LEMMA Capacities ==
  /\ StatusCap \in Nat /\ StatusCap >= 1 /\ CompletionCap \in Nat /\ CompletionCap >= 1
  /\ ControlCap \in Nat /\ ControlCap >= 1 /\ MaxOrders \in Nat
<1>1. QED
  BY RunnerAssumption

LEMMA TypeParts ==
  TypeOK <=> JobsOK /\ ReportsOK /\ LoopOK /\ CompletionsOK /\ VmsOK
<1>1. QED
  BY DEF TypeOK, JobsOK, ReportsOK, LoopOK, CompletionsOK, VmsOK, LoopStates, Writers

LEMMA RunnerInit == Init => RunnerInv
<1> SUFFICES ASSUME Init PROVE RunnerInv
  OBVIOUS
<1> USE Capacities DEF Init
<1>1. JobsOK /\ ReportsOK
  BY DEF JobsOK, ReportsOK
<1>2. LoopOK
  <2>1. main \in LoopStates
    BY DEF LoopStates, Places
  <2>2. orders \in [Jobs -> 0 .. MaxOrders]
    OBVIOUS
  <2>3. QED
    BY <2>1, <2>2 DEF LoopOK
<1>3. CompletionsOK
  BY DEF CompletionsOK
<1>4. VmsOK
  BY DEF VmsOK, VmStages
<1>5. CompletionInv /\ LoopInv /\ ControlInv /\ OrderReachesVm
  BY DEF CompletionInv, LoopInv, ControlInv, OrderReachesVm, VmExits, Orders
<1>6. EndsOnce
  BY DEF EndsOnce, UnreadEnds, Waiting, LockFree, Completions, VmExits, Orders
<1>7. QED
  BY <1>1, <1>2, <1>3, <1>4, <1>5, <1>6 DEF RunnerInv

-----------------------------------------------------------------------------
(* Lemmas about what the steps are made of *)

LEMMA Appended ==
  ASSUME NEW S, NEW s \in Seq(S), NEW e \in S
  PROVE  /\ Append(s, e) \in Seq(S) /\ Len(Append(s, e)) = Len(s) + 1
         /\ \A i \in 1 .. Len(s) : Append(s, e)[i] = s[i]
         /\ Append(s, e)[Len(s) + 1] = e
<1>1. QED
  OBVIOUS

LEMMA Taken ==
  ASSUME NEW S, NEW s \in Seq(S), s # <<>>
  PROVE  /\ Head(s) \in S /\ Tail(s) \in Seq(S) /\ Len(Tail(s)) <= Len(s)
         /\ Len(s) \in Nat \ {0} /\ Len(Tail(s)) = Len(s) - 1 /\ Head(s) = s[1]
         /\ \A i \in 1 .. Len(s) - 1 : Tail(s)[i] = s[i + 1]
<1>1. QED
  OBVIOUS

(* The main loop goes from one place to the next about the same job.       *)
LEMMA MainMoves ==
  ASSUME main \in LoopStates, NEW p \in Places, main' = [main EXCEPT !.at = p]
  PROVE  /\ main' \in LoopStates
         /\ main'.at = p /\ main'.job = main.job /\ main'.status = main.status
<1> DEFINE m == [main EXCEPT !.at = p]
<1>1. m \in LoopStates
  BY Zenon DEF LoopStates
<1>2. m.at = p /\ m.job = main.job /\ m.status = main.status
  BY Zenon DEF LoopStates
<1>3. main' = m
  OBVIOUS
<1> HIDE DEF m
<1>4. QED
  BY <1>1, <1>2, <1>3

LEMMA IterationStarts ==
  ASSUME NextIteration = main'
  PROVE  main' \in LoopStates /\ main'.at \in {"top", "select"}
<1>1. QED
  BY DEF NextIteration, At, LoopStates, Places

(* What a write of JobManager does to it.                                  *)
LEMMA WriteOK ==
  ASSUME JobsOK, LockFree, NEW by \in {"main", "completion"}, NEW j \in Jobs,
         NEW s \in Statuses, Write(by, j, s)
  PROVE  JobsOK' /\ jobs' = [jobs EXCEPT ![j] = s]
<1> USE Capacities
<1>1. jobs' = [jobs EXCEPT ![j] = s] /\ jobs' \in [Jobs -> Statuses \cup {"absent"}]
  BY DEF Write, JobsOK
<1>2. CASE Len(status_rx) < StatusCap
  <2>1. status_rx' = Append(status_rx, Event(j, s)) /\ UNCHANGED writer
    BY <1>2 DEF Write
  <2>2. Event(j, s) \in Events
    BY DEF Event, Events
  <2>3. status_rx' \in Seq(Events) /\ Len(status_rx') <= StatusCap
    BY <1>2, <2>1, <2>2, Appended DEF JobsOK
  <2>4. QED
    BY <1>1, <2>1, <2>3 DEF JobsOK
<1>3. CASE ~(Len(status_rx) < StatusCap)
  <2>1. writer' = [job |-> j, status |-> s, by |-> by] /\ UNCHANGED status_rx
    BY <1>3 DEF Write
  <2>2. writer' \in Writers
    BY <2>1 DEF Writers
  <2>3. QED
    BY <1>1, <2>1, <2>2 DEF JobsOK
<1>4. QED
  BY <1>2, <1>3

LEMMA UpdateOK ==
  ASSUME JobsOK, NEW by \in {"main", "completion"}, NEW j \in Jobs, NEW s \in Statuses,
         UpdateJobStatus(by, j, s)
  PROVE  /\ JobsOK'
         /\ \/ Allowed(jobs[j], s) /\ jobs' = [jobs EXCEPT ![j] = s] /\ LockFree /\ Write(by, j, s)
            \/ ~Allowed(jobs[j], s) /\ UNCHANGED jobManager
<1>1. CASE Allowed(jobs[j], s)
  BY <1>1, WriteOK DEF UpdateJobStatus
<1>2. CASE ~Allowed(jobs[j], s)
  BY <1>2 DEF UpdateJobStatus, jobManager, JobsOK
<1>3. QED
  BY <1>1, <1>2

-----------------------------------------------------------------------------
(* Every step preserves each part *)

LEMMA JobsOKStep ==
  ASSUME RunnerInv, [Next]_vars
  PROVE  JobsOK'
<1>1. JobsOK /\ LoopOK /\ LoopInv /\ CompletionInv
  BY DEF RunnerInv
<1>2. ASSUME UNCHANGED jobManager PROVE JobsOK'
  BY <1>1, <1>2 DEF JobsOK, jobManager
<1>3. CASE SendEvent
  <2>1. /\ Len(status_rx) < StatusCap
        /\ status_rx' = Append(status_rx, Event(writer.job, writer.status))
        /\ writer' = NoWriter /\ UNCHANGED jobs /\ writer # NoWriter
    BY <1>3 DEF SendEvent, LockFree
  <2>2. Event(writer.job, writer.status) \in Events
    BY <1>1, <2>1 DEF JobsOK, Writers, Event, Events
  <2>3. status_rx' \in Seq(Events) /\ Len(status_rx') <= StatusCap
    BY <1>1, <2>1, <2>2, Appended, Capacities DEF JobsOK
  <2>4. QED
    BY <1>1, <2>1, <2>3 DEF JobsOK
<1>4. CASE RegisterJob
  <2>1. main.job \in Jobs /\ "queued" \in Statuses
    BY <1>1, <1>4 DEF RegisterJob, LoopInv, Statuses
  <2>2. QED
    BY <1>1, <1>4, <2>1, WriteOK DEF RegisterJob
<1>5. CASE UpdateJob
  <2>1. main.job \in Jobs /\ main.status \in Statuses
    BY <1>1, <1>5 DEF UpdateJob, LoopInv, Statuses, Completions
  <2>2. QED
    BY <1>1, <1>5, <2>1, UpdateOK DEF UpdateJob
<1>6. CASE ReceiveStatus
  <2>1. status_rx # <<>> /\ status_rx' = Tail(status_rx) /\ UNCHANGED <<jobs, writer>>
    BY <1>6 DEF ReceiveStatus
  <2>2. status_rx' \in Seq(Events) /\ Len(status_rx') <= StatusCap
    BY <1>1, <2>1, Taken, Capacities DEF JobsOK
  <2>3. QED
    BY <1>1, <2>1, <2>2 DEF JobsOK
<1>7. CASE CompleteJob
  <2>1. completing.job \in Jobs /\ completing.status \in Statuses
    BY <1>1, <1>7 DEF CompleteJob, CompletionInv, VmEvents, Statuses, Completions
  <2>2. QED
    BY <1>1, <1>7, <2>1, UpdateOK DEF CompleteJob
<1>8. CASE CountJobs \/ TestExit \/ LaunchVm \/ ShutdownVm \/ Reads \/ ReceiveCompletion
  BY <1>2, <1>8 DEF CountJobs, TestExit, LaunchVm, ShutdownVm, Reads, Drain, Tick,
     ReadJobClaimed, ReadOrder, ReceiveCompletion
<1>9. CASE \E j \in Jobs : VmTask(j)
  BY <1>2, <1>9 DEF VmTask, CreateVm, StopVm, SendCompletion, EndTask, VmEnds
<1>10. CASE UNCHANGED vars
  BY <1>2, <1>10 DEF vars
<1>11. QED
  BY <1>3, <1>4, <1>5, <1>6, <1>7, <1>8, <1>9, <1>10 DEF Next, MainStep

LEMMA ReportsOKStep ==
  ASSUME RunnerInv, [Next]_vars
  PROVE  ReportsOK'
<1>1. JobsOK /\ ReportsOK
  BY DEF RunnerInv
<1>2. CASE ReceiveStatus
  <2> DEFINE e == Head(status_rx)
  <2>1. e \in Events
    BY <1>1, <1>2, Taken DEF ReceiveStatus, JobsOK
  <2>2. CASE e.status \in Completions
    <3>1. reports' = [reports EXCEPT ![e.job] = Append(@, e.status)]
      BY <1>2, <2>2 DEF ReceiveStatus
    <3>2. e.job \in Jobs
      BY <2>1 DEF Events
    <3>3. Append(reports[e.job], e.status) \in Seq(Completions)
      BY <1>1, <2>2, <3>2 DEF ReportsOK
    <3> HIDE DEF e
    <3>4. QED
      BY <1>1, <3>1, <3>3 DEF ReportsOK
  <2>3. CASE e.status \notin Completions
    BY <1>1, <1>2, <2>3 DEF ReceiveStatus, ReportsOK
  <2>4. QED
    BY <2>2, <2>3
<1>3. ASSUME UNCHANGED reports PROVE ReportsOK'
  BY <1>1, <1>3 DEF ReportsOK
<1>4. CASE SendEvent \/ MainStep \/ Reads \/ ReceiveCompletion \/ CompleteJob
  BY <1>3, <1>4 DEF SendEvent, MainStep, CountJobs, TestExit, RegisterJob, LaunchVm,
     UpdateJob, ShutdownVm, Reads, Drain, Tick, ReadJobClaimed, ReadOrder,
     ReceiveCompletion, CompleteJob
<1>5. CASE \E j \in Jobs : VmTask(j)
  BY <1>3, <1>5 DEF VmTask, CreateVm, StopVm, SendCompletion, EndTask, VmEnds
<1>6. CASE UNCHANGED vars
  BY <1>3, <1>6 DEF vars
<1>7. QED
  BY <1>2, <1>4, <1>5, <1>6 DEF Next

(* What a step makes of the main loop, its job included.                   *)
LEMMA LoopOKStep ==
  ASSUME RunnerInv, [Next]_vars
  PROVE  LoopOK'
<1>1. LoopOK /\ LoopInv
  BY DEF RunnerInv
<1> USE Capacities
<1>2. ASSUME UNCHANGED loop PROVE LoopOK'
  BY <1>1, <1>2 DEF LoopOK, loop
<1>3. ASSUME main' \in LoopStates, UNCHANGED <<shutting_down, orders>> PROVE LoopOK'
  BY <1>1, <1>3 DEF LoopOK
<1>4. CASE CountJobs \/ ShutdownVm \/ ReceiveStatus
  BY <1>3, <1>4, IterationStarts DEF CountJobs, ShutdownVm, ReceiveStatus
<1>5. CASE RegisterJob
  BY <1>1, <1>3, <1>5, MainMoves DEF RegisterJob, LoopOK, Places
<1>6. CASE UpdateJob
  <2>1. CASE main.status = "running"
    BY <1>3, <1>6, <2>1, IterationStarts DEF UpdateJob
  <2>2. CASE main.status # "running"
    BY <1>1, <1>3, <1>6, <2>2, MainMoves DEF UpdateJob, LoopOK, Places
  <2>3. QED
    BY <2>1, <2>2
<1>7. CASE TestExit \/ Tick
  BY <1>3, <1>7 DEF TestExit, Tick, At, LoopStates, Places
<1>8. CASE LaunchVm
  <2>1. main.job \in Jobs
    BY <1>1, <1>8 DEF LaunchVm, LoopInv
  <2>2. QED
    BY <1>3, <1>8, <2>1 DEF LaunchVm, At, LoopStates, Places, Statuses
<1>9. CASE Drain
  BY <1>1, <1>9 DEF Drain, LoopOK, At, LoopStates, Places
<1>10. ASSUME NEW j \in Jobs, ReadJobClaimed(j) PROVE LoopOK'
  BY <1>3, <1>10 DEF ReadJobClaimed, At, LoopStates, Places
<1>11. ASSUME NEW j \in Jobs, NEW s \in Orders, ReadOrder(j, s) PROVE LoopOK'
  <2>1. main' \in LoopStates
    BY <1>11 DEF ReadOrder, At, LoopStates, Places, Statuses, Completions
  <2>2. orders' \in [Jobs -> 0 .. MaxOrders]
    BY <1>1, <1>11 DEF ReadOrder, LoopOK
  <2>3. QED
    BY <1>1, <1>11, <2>1, <2>2 DEF ReadOrder, LoopOK
<1>12. CASE SendEvent \/ ReceiveCompletion \/ CompleteJob
  BY <1>2, <1>12 DEF SendEvent, ReceiveCompletion, CompleteJob
<1>13. CASE \E j \in Jobs : VmTask(j)
  BY <1>2, <1>13 DEF VmTask, CreateVm, StopVm, SendCompletion, EndTask, VmEnds
<1>14. CASE UNCHANGED vars
  BY <1>2, <1>14 DEF vars
<1>15. QED
  BY <1>4, <1>5, <1>6, <1>7, <1>8, <1>9, <1>10, <1>11, <1>12, <1>13, <1>14
     DEF Next, MainStep, Reads

LEMMA CompletionInvStep ==
  ASSUME RunnerInv, [Next]_vars
  PROVE  CompletionInv'
<1>1. CompletionInv /\ VmsOK
  BY DEF RunnerInv
<1> USE Capacities
<1>2. ASSUME UNCHANGED <<completions, vm, exit>> PROVE CompletionInv'
  BY <1>1, <1>2 DEF CompletionInv, completions
<1>3. CASE SendEvent \/ Reads \/ ReceiveStatus
  BY <1>2, <1>3 DEF SendEvent, Reads, Drain, Tick, ReadJobClaimed, ReadOrder,
     ReceiveStatus, vms
<1>4. CASE CountJobs \/ TestExit \/ RegisterJob \/ UpdateJob \/ ShutdownVm
  BY <1>2, <1>4 DEF CountJobs, TestExit, RegisterJob, UpdateJob, ShutdownVm, vms
<1>5. CASE LaunchVm
  <2>1. /\ \E j : vm' = [vm EXCEPT ![j] = "creating"]
        /\ UNCHANGED <<completions, exit>>
    BY <1>5 DEF LaunchVm
  <2>2. QED
    BY <1>1, <2>1 DEF CompletionInv, VmsOK, completions
<1>6. CASE ReceiveCompletion
  <2>1. /\ completion_rx # <<>> /\ completing' = Head(completion_rx)
        /\ completion_rx' = Tail(completion_rx) /\ UNCHANGED <<vm, exit>>
    BY <1>6 DEF ReceiveCompletion, vms
  <2>2. /\ completing' \in VmEvents /\ completion_rx' \in Seq(VmEvents)
        /\ Len(completion_rx') <= CompletionCap
    BY <1>1, <2>1, Taken DEF CompletionInv
  <2>3. QED
    BY <1>1, <2>1, <2>2 DEF CompletionInv
<1>7. CASE CompleteJob
  BY <1>1, <1>7 DEF CompleteJob, CompletionInv, vms
<1>8. ASSUME NEW j \in Jobs, VmTask(j) PROVE CompletionInv'
  <2>1. CASE CreateVm(j) \/ StopVm(j) \/ EndTask(j)
    BY <1>1, <2>1 DEF CreateVm, StopVm, EndTask, CompletionInv, VmsOK, completions,
       VmExits
  <2>2. CASE \E s \in VmExits : VmEnds(j, s)
    BY <1>1, <2>2 DEF VmEnds, CompletionInv, VmsOK, completions
  <2>3. CASE SendCompletion(j)
    <3>1. /\ vm[j] = "ended" /\ Len(completion_rx) < CompletionCap
          /\ completion_rx' = Append(completion_rx, Event(j, exit[j]))
          /\ vm' = [vm EXCEPT ![j] = "told"] /\ exit' = [exit EXCEPT ![j] = "none"]
          /\ UNCHANGED completing
      BY <2>3 DEF SendCompletion
    <3>2. Event(j, exit[j]) \in VmEvents
      BY <1>1, <3>1 DEF CompletionInv, Event, VmEvents
    <3>3. completion_rx' \in Seq(VmEvents) /\ Len(completion_rx') <= CompletionCap
      BY <1>1, <3>1, <3>2, Appended DEF CompletionInv
    <3>4. \A k \in Jobs : vm'[k] = "ended" => exit'[k] \in VmExits
      BY <1>1, <3>1 DEF CompletionInv, VmsOK
    <3>5. QED
      BY <1>1, <3>1, <3>3, <3>4 DEF CompletionInv
  <2>4. QED
    BY <1>8, <2>1, <2>2, <2>3 DEF VmTask
<1>9. CASE UNCHANGED vars
  BY <1>2, <1>9 DEF vars, vms
<1>10. QED
  BY <1>3, <1>4, <1>5, <1>6, <1>7, <1>8, <1>9 DEF Next, MainStep

LEMMA VmsOKStep ==
  ASSUME RunnerInv, [Next]_vars
  PROVE  VmsOK'
<1>1. VmsOK /\ LoopInv
  BY DEF RunnerInv
<1> USE Capacities
<1>2. ASSUME UNCHANGED vms PROVE VmsOK'
  BY <1>1, <1>2 DEF VmsOK, vms
<1>3. CASE SendEvent \/ Reads \/ ReceiveStatus \/ ReceiveCompletion \/ CompleteJob
  BY <1>2, <1>3 DEF SendEvent, Reads, Drain, Tick, ReadJobClaimed, ReadOrder,
     ReceiveStatus, ReceiveCompletion, CompleteJob
<1>4. CASE CountJobs \/ TestExit \/ RegisterJob \/ UpdateJob
  BY <1>2, <1>4 DEF CountJobs, TestExit, RegisterJob, UpdateJob
<1>5. CASE LaunchVm
  BY <1>1, <1>5 DEF LaunchVm, VmsOK, LoopInv, VmStages
<1>6. CASE ShutdownVm
  <2>1. control' \in [Jobs -> 0 .. ControlCap]
    BY <1>1, <1>6 DEF ShutdownVm, VmsOK, LoopInv
  <2>2. QED
    BY <1>1, <1>6, <2>1 DEF ShutdownVm, VmsOK
<1>7. ASSUME NEW j \in Jobs, VmTask(j) PROVE VmsOK'
  <2>1. CASE CreateVm(j)
    BY <1>1, <2>1 DEF CreateVm, VmsOK, VmStages, VmExits
  <2>2. CASE StopVm(j)
    BY <1>1, <2>2 DEF StopVm, VmsOK, VmStages
  <2>3. CASE \E s \in VmExits : VmEnds(j, s)
    BY <1>1, <2>3 DEF VmEnds, VmsOK, VmStages
  <2>4. CASE SendCompletion(j)
    BY <1>1, <2>4 DEF SendCompletion, VmsOK, VmStages
  <2>5. CASE EndTask(j)
    BY <1>1, <2>5 DEF EndTask, VmsOK, VmStages
  <2>6. QED
    BY <1>7, <2>1, <2>2, <2>3, <2>4, <2>5 DEF VmTask
<1>8. CASE UNCHANGED vars
  BY <1>2, <1>8 DEF vars
<1>9. QED
  BY <1>3, <1>4, <1>5, <1>6, <1>7, <1>8 DEF Next, MainStep

(* How JobManager may change: RegisterJob makes the job of the main loop   *)
(* queued, and update_job_status goes on only from what is not over.       *)
LEMMA JobsChange ==
  ASSUME RunnerInv, [Next]_vars
  PROVE  \/ UNCHANGED jobs
         \/ RegisterJob /\ jobs' = [jobs EXCEPT ![main.job] = "queued"]
         \/ /\ UpdateJob /\ Allowed(jobs[main.job], main.status)
            /\ jobs' = [jobs EXCEPT ![main.job] = main.status]
         \/ /\ CompleteJob /\ Allowed(jobs[completing.job], completing.status)
            /\ jobs' = [jobs EXCEPT ![completing.job] = completing.status]
<1>1. CASE RegisterJob
  BY <1>1 DEF RegisterJob, Write
<1>2. CASE UpdateJob
  BY <1>2 DEF UpdateJob, UpdateJobStatus, Write, jobManager
<1>3. CASE CompleteJob
  BY <1>3 DEF CompleteJob, UpdateJobStatus, Write, jobManager
<1>4. CASE SendEvent \/ Reads \/ ReceiveStatus \/ ReceiveCompletion
  BY <1>4 DEF SendEvent, Reads, Drain, Tick, ReadJobClaimed, ReadOrder,
     ReceiveStatus, ReceiveCompletion, jobManager
<1>5. CASE CountJobs \/ TestExit \/ LaunchVm \/ ShutdownVm
  BY <1>5 DEF CountJobs, TestExit, LaunchVm, ShutdownVm, jobManager
<1>6. CASE \E j \in Jobs : VmTask(j)
  BY <1>6 DEF VmTask, CreateVm, StopVm, SendCompletion, EndTask, VmEnds, jobManager
<1>7. CASE UNCHANGED vars
  BY <1>7 DEF vars, jobManager
<1>8. QED
  BY <1>1, <1>2, <1>3, <1>4, <1>5, <1>6, <1>7 DEF Next, MainStep

LEMMA LoopInvStep ==
  ASSUME RunnerInv, [Next]_vars
  PROVE  LoopInv'
<1>1. JobsOK /\ LoopOK /\ VmsOK /\ LoopInv /\ CompletionInv
  BY DEF RunnerInv
<1>2. ASSUME UNCHANGED <<main, jobs, vm>> PROVE LoopInv'
  BY <1>1, <1>2 DEF LoopInv
<1>3. ASSUME UNCHANGED <<jobs, vm>>, main'.at \in {"top", "select", "count", "exited"}
      PROVE  LoopInv'
  BY <1>1, <1>3 DEF LoopInv
<1>4. CASE SendEvent \/ ReceiveCompletion
  BY <1>2, <1>4 DEF SendEvent, ReceiveCompletion, loop, vms, jobManager
<1>5. CASE CountJobs \/ TestExit \/ ShutdownVm \/ Drain \/ Tick \/ ReceiveStatus
  BY <1>3, <1>5, IterationStarts DEF CountJobs, TestExit, ShutdownVm, Drain, Tick,
     ReceiveStatus, At, vms, jobManager
<1>6. CASE RegisterJob
  <2>1. /\ main.at = "register" /\ main.job \in Jobs /\ jobs[main.job] = "absent"
        /\ vm[main.job] = "none"
    BY <1>1, <1>6 DEF RegisterJob, LoopInv
  <2>2. main'.at = "launch" /\ main'.job = main.job /\ UNCHANGED vm
    BY <1>1, <1>6, MainMoves DEF RegisterJob, LoopOK, Places, vms
  <2>3. jobs' = [jobs EXCEPT ![main.job] = "queued"]
    BY <1>6 DEF RegisterJob, Write
  <2>4. QED
    BY <1>1, <2>1, <2>2, <2>3 DEF LoopInv, JobsOK
<1>7. CASE LaunchVm
  <2>1. main.job \in Jobs /\ jobs[main.job] = "queued"
    BY <1>1, <1>7 DEF LaunchVm, LoopInv
  <2>2. /\ main'.at = "update" /\ main'.job = main.job /\ main'.status = "running"
        /\ vm' = [vm EXCEPT ![main.job] = "creating"] /\ UNCHANGED jobs
    BY <1>7 DEF LaunchVm, At, jobManager
  <2>3. QED
    BY <1>1, <2>1, <2>2 DEF LoopInv, VmsOK
<1>8. CASE UpdateJob
  <2>1. main.job \in Jobs /\ main.status \in {"running"} \cup Orders /\ UNCHANGED vm
    BY <1>1, <1>8 DEF UpdateJob, LoopInv, vms
  <2>2. main'.at \in {"top", "select", "shutdown"} /\ main'.job \in Jobs \cup {"none"}
        /\ (main'.at = "shutdown" => main'.job = main.job)
    <3>1. CASE main.status = "running"
      BY <1>8, <3>1, IterationStarts DEF UpdateJob, LoopStates
    <3>2. CASE main.status # "running"
      BY <1>1, <1>8, <2>1, <3>2, MainMoves DEF UpdateJob, LoopOK, Places
    <3>3. QED
      BY <3>1, <3>2
  <2>3. \/ UNCHANGED jobs
        \/ /\ jobs[main.job] # "absent"
           /\ jobs' = [jobs EXCEPT ![main.job] = main.status]
    BY <1>8, <2>1 DEF UpdateJob, UpdateJobStatus, Write, Allowed, jobManager
  <2>4. ASSUME NEW j \in Jobs, jobs'[j] = "absent" PROVE jobs[j] = "absent"
    BY <1>1, <2>1, <2>3, <2>4 DEF JobsOK, Orders
  <2>5. QED
    BY <1>1, <2>1, <2>2, <2>4 DEF LoopInv
<1>9. CASE CompleteJob
  <2>1. completing.status \in VmExits /\ UNCHANGED <<main, vm>>
    BY <1>1, <1>9 DEF CompleteJob, CompletionInv, VmEvents, loop, vms
  <2>2. \/ UNCHANGED jobs
        \/ /\ jobs[completing.job] = "running"
           /\ jobs' = [jobs EXCEPT ![completing.job] = completing.status]
    BY <1>9, <2>1 DEF CompleteJob, UpdateJobStatus, Write, Allowed, VmExits, jobManager
  <2>3. ASSUME NEW j \in Jobs, jobs[j] \in {"absent", "queued"} \/ jobs'[j] = "absent"
        PROVE  jobs'[j] = jobs[j]
    BY <1>1, <2>1, <2>2, <2>3 DEF JobsOK, VmExits
  <2>4. QED
    BY <1>1, <2>1, <2>3 DEF LoopInv
<1>10. ASSUME NEW j \in Jobs, ReadJobClaimed(j) PROVE LoopInv'
  BY <1>1, <1>10 DEF ReadJobClaimed, At, LoopInv, vms, jobManager
<1>11. ASSUME NEW j \in Jobs, NEW s \in Orders, ReadOrder(j, s) PROVE LoopInv'
  BY <1>1, <1>11 DEF ReadOrder, At, LoopInv, vms, jobManager
<1>12. ASSUME NEW j \in Jobs, VmTask(j) PROVE LoopInv'
  <2>1. /\ UNCHANGED <<main, jobs>> /\ vm[j] # "none"
        /\ \E s : vm' = [vm EXCEPT ![j] = s]
    BY <1>12 DEF VmTask, CreateVm, StopVm, SendCompletion, EndTask, VmEnds, loop,
       jobManager
  <2>2. QED
    BY <1>1, <2>1 DEF LoopInv, VmsOK
<1>13. CASE UNCHANGED vars
  BY <1>2, <1>13 DEF vars, loop, vms, jobManager
<1>14. QED
  BY <1>4, <1>5, <1>6, <1>7, <1>8, <1>9, <1>10, <1>11, <1>12, <1>13
     DEF Next, MainStep, Reads

LEMMA ControlInvStep ==
  ASSUME RunnerInv, [Next]_vars
  PROVE  ControlInv'
<1>1. VmsOK /\ ControlInv
  BY DEF RunnerInv
<1>2. ASSUME UNCHANGED <<vm, registered>> PROVE ControlInv'
  BY <1>1, <1>2 DEF ControlInv
<1>3. CASE SendEvent \/ Reads \/ ReceiveStatus \/ ReceiveCompletion \/ CompleteJob
  BY <1>2, <1>3 DEF SendEvent, Reads, Drain, Tick, ReadJobClaimed, ReadOrder,
     ReceiveStatus, ReceiveCompletion, CompleteJob, vms
<1>4. CASE CountJobs \/ TestExit \/ RegisterJob \/ UpdateJob \/ ShutdownVm
  BY <1>2, <1>4 DEF CountJobs, TestExit, RegisterJob, UpdateJob, ShutdownVm, vms
<1>5. CASE LaunchVm
  BY <1>1, <1>5 DEF LaunchVm, VmsOK, ControlInv
<1>6. ASSUME NEW j \in Jobs, VmTask(j) PROVE ControlInv'
  BY <1>1, <1>6 DEF VmTask, CreateVm, StopVm, SendCompletion, EndTask, VmEnds,
     VmsOK, ControlInv
<1>7. CASE UNCHANGED vars
  BY <1>2, <1>7 DEF vars, vms
<1>8. QED
  BY <1>3, <1>4, <1>5, <1>6, <1>7 DEF Next, MainStep

(* An order marks the job before the main loop goes to the VM with it, and *)
(* a VM that has not been launched belongs to a job without orders.        *)
LEMMA OrderReachesVmStep ==
  ASSUME RunnerInv, [Next]_vars
  PROVE  OrderReachesVm'
<1>1. JobsOK /\ LoopOK /\ VmsOK /\ CompletionInv /\ LoopInv /\ ControlInv /\ OrderReachesVm
  BY DEF RunnerInv
<1> USE Capacities
<1>2. ASSUME UNCHANGED <<jobs, vm, control>>, main' = main \/ main.at # "shutdown"
      PROVE  OrderReachesVm'
  BY <1>1, <1>2 DEF OrderReachesVm
<1>3. CASE SendEvent \/ ReceiveCompletion
  BY <1>2, <1>3 DEF SendEvent, ReceiveCompletion, loop, vms, jobManager
<1>4. CASE CountJobs \/ TestExit \/ Reads \/ ReceiveStatus
  BY <1>2, <1>4 DEF CountJobs, TestExit, Reads, Drain, Tick, ReadJobClaimed,
     ReadOrder, ReceiveStatus, Selecting, vms, jobManager
<1>5. CASE RegisterJob
  <2>1. /\ main.at = "register" /\ jobs' = [jobs EXCEPT ![main.job] = "queued"]
        /\ UNCHANGED <<vm, control>>
    BY <1>5 DEF RegisterJob, Write, vms
  <2>2. QED
    BY <1>1, <2>1 DEF OrderReachesVm, JobsOK, Orders
<1>6. CASE LaunchVm
  <2>1. /\ main.at = "launch" /\ jobs[main.job] = "queued" /\ UNCHANGED <<jobs, control>>
        /\ vm' = [vm EXCEPT ![main.job] = "creating"]
    BY <1>1, <1>6 DEF LaunchVm, LoopInv, jobManager
  <2>2. QED
    BY <1>1, <2>1 DEF OrderReachesVm, VmsOK, Orders
<1>7. CASE UpdateJob
  <2>1. /\ main.at = "update" /\ main.job \in Jobs
        /\ main.status \in {"running"} \cup Orders /\ UNCHANGED <<vm, control>>
    BY <1>1, <1>7 DEF UpdateJob, LoopInv, vms
  <2>2. jobs' = jobs \/ jobs' = [jobs EXCEPT ![main.job] = main.status]
    BY <1>7 DEF UpdateJob, UpdateJobStatus, Write, jobManager
  <2>3. CASE main.status = "running"
    BY <1>1, <2>1, <2>2, <2>3 DEF OrderReachesVm, JobsOK, Orders
  <2>4. CASE main.status # "running"
    <3>1. main'.at = "shutdown" /\ main'.job = main.job
      BY <1>1, <1>7, <2>4, MainMoves DEF UpdateJob, LoopOK, Places
    <3>2. QED
      BY <1>1, <2>1, <2>2, <3>1 DEF OrderReachesVm, JobsOK
  <2>5. QED
    BY <2>3, <2>4
<1>8. CASE ShutdownVm
  <2>1. /\ main.at = "shutdown" /\ main.job \in Jobs /\ UNCHANGED <<jobs, vm>>
        /\ IF main.job \in registered
           THEN control' = [control EXCEPT ![main.job] = @ + 1]
           ELSE UNCHANGED control
    BY <1>1, <1>8 DEF ShutdownVm, LoopInv, jobManager
  <2>2. ASSUME NEW j \in Jobs, jobs[j] \in Orders, vm[j] \in {"creating", "running"}
        PROVE  control'[j] > 0
    <3>1. CASE j = main.job
      <4>1. j \in registered /\ control[j] \in Nat
        BY <1>1, <2>2 DEF ControlInv, VmsOK
      <4>2. QED
        BY <1>1, <2>1, <3>1, <4>1 DEF VmsOK
    <3>2. CASE j # main.job
      BY <1>1, <2>1, <2>2, <3>2 DEF OrderReachesVm, VmsOK
    <3>3. QED
      BY <3>1, <3>2
  <2>3. QED
    BY <2>1, <2>2 DEF OrderReachesVm
<1>9. CASE CompleteJob
  <2>1. /\ jobs' = jobs \/ jobs' = [jobs EXCEPT ![completing.job] = completing.status]
        /\ completing.status \in VmExits /\ UNCHANGED <<main, vm, control>>
    BY <1>1, <1>9 DEF CompleteJob, UpdateJobStatus, Write, jobManager, CompletionInv,
       VmEvents, loop, vms
  <2>2. QED
    BY <1>1, <2>1 DEF OrderReachesVm, JobsOK, VmExits, Orders
<1>10. ASSUME NEW j \in Jobs, VmTask(j) PROVE OrderReachesVm'
  <2>1. UNCHANGED <<main, jobs>>
    BY <1>10 DEF VmTask, CreateVm, StopVm, SendCompletion, EndTask, VmEnds, loop,
       jobManager
  <2>2. ASSUME NEW k \in Jobs, vm'[k] \in {"creating", "running"}
        PROVE  vm[k] \in {"creating", "running"} /\ control'[k] = control[k]
    BY <1>1, <1>10, <2>2 DEF VmTask, CreateVm, StopVm, SendCompletion, EndTask,
       VmEnds, VmsOK
  <2>3. QED
    BY <1>1, <2>1, <2>2 DEF OrderReachesVm
<1>11. CASE UNCHANGED vars
  BY <1>2, <1>11 DEF vars, loop, vms, jobManager
<1>12. QED
  BY <1>3, <1>4, <1>5, <1>6, <1>7, <1>8, <1>9, <1>10, <1>11 DEF Next, MainStep

-----------------------------------------------------------------------------
(* One end for each job *)

EndsIn(w, j) == {i \in DOMAIN w : w[i].job = j /\ w[i].status \in Completions}

SameEvent(e, f) == e.job = f.job /\ e.status = f.status

LEMMA EndsAppended ==
  ASSUME NEW w, NEW u, NEW n \in Nat, DOMAIN w = 1 .. n, DOMAIN u = 1 .. n + 1,
         \A i \in 1 .. n : SameEvent(u[i], w[i]), NEW j
  PROVE  EndsIn(u, j) = EndsIn(w, j) \cup
           (IF u[n + 1].job = j /\ u[n + 1].status \in Completions THEN {n + 1} ELSE {})
<1>1. \A i : i \in 1 .. n + 1 <=> i \in 1 .. n \/ i = n + 1
  OBVIOUS
<1>2. n + 1 \notin 1 .. n
  OBVIOUS
<1>3. QED
  BY <1>1, <1>2 DEF EndsIn, SameEvent

LEMMA EndsTaken ==
  ASSUME NEW w, NEW u, NEW n \in Nat \ {0}, DOMAIN w = 1 .. n, DOMAIN u = 1 .. n - 1,
         \A i \in 1 .. n - 1 : SameEvent(u[i], w[i + 1]), NEW j
  PROVE  /\ \A i \in EndsIn(u, j) : i + 1 \in EndsIn(w, j)
         /\ \A i \in EndsIn(w, j) : i = 1 \/ i - 1 \in EndsIn(u, j)
<1>1. ASSUME NEW i \in EndsIn(u, j) PROVE i + 1 \in EndsIn(w, j)
  BY DEF EndsIn, SameEvent
<1>2. ASSUME NEW i \in EndsIn(w, j), i # 1 PROVE i - 1 \in EndsIn(u, j)
  <2>1. i \in 1 .. n /\ i - 1 \in 1 .. n - 1 /\ (i - 1) + 1 = i
    BY <1>2 DEF EndsIn
  <2>2. SameEvent(u[i - 1], w[i])
    BY <2>1
  <2>3. QED
    BY <2>1, <2>2 DEF EndsIn, SameEvent
<1>3. QED
  BY <1>1, <1>2

(* The events not read yet form a sequence, whoever waits to send one.     *)
LEMMA WaitingDomain ==
  ASSUME NEW r \in Seq(Events), NEW free \in BOOLEAN, NEW e, NEW w,
         w = IF free THEN r ELSE Append(r, e)
  PROVE  \E n \in Nat :
           /\ DOMAIN w = 1 .. n /\ n = Len(r) + (IF free THEN 0 ELSE 1)
           /\ \A i \in 1 .. Len(r) : w[i] = r[i]
           /\ ~free => w[Len(r) + 1] = e
<1>1. Len(r) \in Nat
  OBVIOUS
<1>2. CASE free
  BY <1>1, <1>2
<1>3. CASE ~free
  <2>1. w = Append(r, e)
    BY <1>3
  <2>2. DOMAIN w = 1 .. Len(r) + 1
    BY <1>1, <2>1
  <2>3. \A i \in 1 .. Len(r) : w[i] = r[i]
    BY <1>1, <2>1
  <2>4. w[Len(r) + 1] = e
    BY <1>1, <2>1
  <2>5. QED
    BY <1>1, <1>3, <2>2, <2>3, <2>4
<1>4. QED
  BY <1>2, <1>3

(* A write adds one event at the end; only of a job that is not over.      *)
LEMMA EndsOnceWrite ==
  ASSUME JobsOK, JobsOK', EndsOnce, LockFree, NEW by, NEW j \in Jobs, NEW s \in Statuses,
         Write(by, j, s), jobs[j] \notin Completions, UNCHANGED reports
  PROVE  EndsOnce'
<1> USE Capacities
<1>1. PICK n \in Nat : /\ DOMAIN Waiting = 1 .. n /\ n = Len(status_rx)
                       /\ \A i \in 1 .. n : Waiting[i] = status_rx[i]
  <2>1. status_rx \in Seq(Events) /\ LockFree \in BOOLEAN
    BY DEF JobsOK, LockFree
  <2>2. QED
    BY <2>1, WaitingDomain DEF Waiting
<1>2. /\ DOMAIN Waiting' = 1 .. n + 1
      /\ \A i \in 1 .. n : Waiting'[i] = Waiting[i]
      /\ Waiting'[n + 1].job = j /\ Waiting'[n + 1].status = s
  <2>1. PICK m \in Nat :
          /\ DOMAIN Waiting' = 1 .. m
          /\ m = Len(status_rx') + (IF LockFree' THEN 0 ELSE 1)
          /\ \A i \in 1 .. Len(status_rx') : Waiting'[i] = status_rx'[i]
          /\ ~LockFree' => Waiting'[Len(status_rx') + 1] = writer'
    <3>1. status_rx' \in Seq(Events) /\ LockFree' \in BOOLEAN
      BY DEF JobsOK, LockFree
    <3>2. QED
      BY <3>1, WaitingDomain DEF Waiting
  <2>2. CASE Len(status_rx) < StatusCap
    <3>1. status_rx' = Append(status_rx, Event(j, s)) /\ writer' = writer
      BY <2>2 DEF Write
    <3>2. LockFree' /\ m = n + 1 /\ Len(status_rx') = n + 1
      BY <1>1, <2>1, <3>1 DEF LockFree, JobsOK
    <3>3. /\ \A i \in 1 .. n : status_rx'[i] = status_rx[i]
          /\ status_rx'[n + 1] = Event(j, s)
      BY <1>1, <3>1 DEF JobsOK
    <3>4. QED
      BY <1>1, <2>1, <3>2, <3>3 DEF Event
  <2>3. CASE ~(Len(status_rx) < StatusCap)
    <3>1. writer' = [job |-> j, status |-> s, by |-> by] /\ status_rx' = status_rx
      BY <2>3 DEF Write
    <3>2. writer'.job = j /\ writer'.status = s
      BY <3>1
    <3>3. writer'.status # "none"
      BY <3>2 DEF Statuses, Completions, VmExits, Orders
    <3>4. ~LockFree'
      BY <3>3 DEF LockFree, NoWriter
    <3>5. QED
      BY <1>1, <2>1, <3>1, <3>2, <3>4
  <2>4. QED
    BY <2>2, <2>3
<1>3. jobs' = [jobs EXCEPT ![j] = s]
  BY DEF Write
<1>4. ASSUME NEW k \in Jobs
      PROVE  UnreadEnds(k)' = UnreadEnds(k) \cup
               (IF k = j /\ s \in Completions THEN {n + 1} ELSE {})
  BY <1>1, <1>2, EndsAppended DEF UnreadEnds, EndsIn, SameEvent
<1>5. ASSUME NEW k \in Jobs, k # j \/ s \notin Completions
      PROVE  IF jobs'[k] \notin Completions THEN reports'[k] = <<>> /\ UnreadEnds(k)' = {}
             ELSE \/ reports'[k] = <<jobs'[k]>> /\ UnreadEnds(k)' = {}
                  \/ /\ reports'[k] = <<>>
                     /\ \E i \in UnreadEnds(k)' :
                          UnreadEnds(k)' = {i} /\ Waiting'[i].status = jobs'[k]
  <2>1. UnreadEnds(k)' = UnreadEnds(k)
    BY <1>4, <1>5
  <2>2. \A i \in UnreadEnds(k) : Waiting'[i] = Waiting[i]
    BY <1>1, <1>2 DEF UnreadEnds
  <2>3. k # j => jobs'[k] = jobs[k]
    BY <1>3 DEF JobsOK
  <2>4. k = j => jobs'[k] \notin Completions /\ jobs[k] \notin Completions
    BY <1>3, <1>5 DEF JobsOK
  <2>5. QED
    BY <2>1, <2>2, <2>3, <2>4 DEF EndsOnce
<1>6. ASSUME s \in Completions
      PROVE  /\ jobs'[j] = s /\ reports'[j] = <<>>
             /\ UnreadEnds(j)' = {n + 1} /\ Waiting'[n + 1].status = s
  BY <1>2, <1>3, <1>4, <1>6 DEF EndsOnce, JobsOK
<1>7. QED
  BY <1>5, <1>6 DEF EndsOnce

LEMMA EndsOnceSend ==
  ASSUME JobsOK, EndsOnce, SendEvent
  PROVE  EndsOnce'
<1>1. /\ ~LockFree /\ status_rx \in Seq(Events) /\ writer' = NoWriter
      /\ status_rx' = Append(status_rx, Event(writer.job, writer.status))
      /\ UNCHANGED <<jobs, reports>>
  BY DEF SendEvent, JobsOK
<1>2. PICK n \in Nat :
        /\ n = Len(status_rx) /\ Waiting = Append(status_rx, writer)
        /\ Waiting' = Append(status_rx, Event(writer.job, writer.status))
  BY <1>1 DEF Waiting, LockFree
<1>3. /\ DOMAIN Waiting = 1 .. n + 1 /\ DOMAIN Waiting' = 1 .. n + 1
      /\ \A i \in 1 .. n : Waiting[i] = status_rx[i] /\ Waiting'[i] = status_rx[i]
      /\ Waiting[n + 1] = writer /\ Waiting'[n + 1] = Event(writer.job, writer.status)
  BY <1>1, <1>2
<1>4. \A i \in 1 .. n + 1 : SameEvent(Waiting'[i], Waiting[i])
  <2>1. SameEvent(Event(writer.job, writer.status), writer)
    BY DEF SameEvent, Event
  <2>2. ASSUME NEW i \in 1 .. n + 1 PROVE SameEvent(Waiting'[i], Waiting[i])
    <3>1. i \in 1 .. n \/ i = n + 1
      OBVIOUS
    <3>2. QED
      BY <1>3, <2>1, <3>1 DEF SameEvent
  <2>3. QED
    BY <2>2
<1>5. ASSUME NEW j \in Jobs
      PROVE  /\ UnreadEnds(j)' = UnreadEnds(j)
             /\ \A i \in UnreadEnds(j) : Waiting'[i].status = Waiting[i].status
  BY <1>3, <1>4 DEF UnreadEnds, SameEvent
<1>6. QED
  BY <1>1, <1>5 DEF EndsOnce

LEMMA EndsOnceReceive ==
  ASSUME JobsOK, ReportsOK, EndsOnce, ReceiveStatus
  PROVE  EndsOnce'
<1> DEFINE e == Head(status_rx)
<1>1. /\ status_rx \in Seq(Events) /\ status_rx # <<>> /\ status_rx' = Tail(status_rx)
      /\ UNCHANGED <<jobs, writer>>
      /\ reports' = IF e.status \in Completions
                    THEN [reports EXCEPT ![e.job] = Append(@, e.status)] ELSE reports
  BY DEF ReceiveStatus, JobsOK
<1>2. /\ e \in Events /\ status_rx' \in Seq(Events) /\ Len(status_rx) \in Nat \ {0}
      /\ Len(status_rx') = Len(status_rx) - 1 /\ e = status_rx[1]
      /\ \A i \in 1 .. Len(status_rx) - 1 : status_rx'[i] = status_rx[i + 1]
  BY <1>1, Taken
<1>3. LockFree \in BOOLEAN /\ LockFree' = LockFree
  BY <1>1 DEF LockFree
<1>4. PICK n \in Nat :
        /\ DOMAIN Waiting = 1 .. n /\ n = Len(status_rx) + (IF LockFree THEN 0 ELSE 1)
        /\ \A i \in 1 .. Len(status_rx) : Waiting[i] = status_rx[i]
        /\ ~LockFree => Waiting[Len(status_rx) + 1] = writer
  BY <1>1, <1>3, WaitingDomain DEF Waiting
<1>5. PICK m \in Nat :
        /\ DOMAIN Waiting' = 1 .. m /\ m = Len(status_rx') + (IF LockFree THEN 0 ELSE 1)
        /\ \A i \in 1 .. Len(status_rx') : Waiting'[i] = status_rx'[i]
        /\ ~LockFree => Waiting'[Len(status_rx') + 1] = writer
  <2>1. Waiting' = IF LockFree THEN status_rx' ELSE Append(status_rx', writer)
    BY <1>1, <1>3 DEF Waiting
  <2>2. QED
    BY <1>2, <1>3, <2>1, WaitingDomain
<1>6. /\ n \in Nat \ {0} /\ m = n - 1 /\ Waiting[1] = e
      /\ \A i \in 1 .. n - 1 : Waiting'[i] = Waiting[i + 1]
  <2>1. n \in Nat \ {0} /\ m = n - 1 /\ Waiting[1] = e
    BY <1>2, <1>4, <1>5
  <2>2. ASSUME NEW i \in 1 .. n - 1 PROVE Waiting'[i] = Waiting[i + 1]
    <3>1. CASE i \in 1 .. Len(status_rx) - 1
      BY <1>2, <1>4, <1>5, <3>1
    <3>2. CASE i \notin 1 .. Len(status_rx) - 1
      <4>1. ~LockFree /\ i = Len(status_rx)
        BY <1>2, <1>4, <3>2
      <4>2. QED
        BY <1>2, <1>4, <1>5, <4>1
    <3>3. QED
      BY <3>1, <3>2
  <2>3. QED
    BY <2>1, <2>2
<1>7. ASSUME NEW j \in Jobs
      PROVE  /\ \A i \in UnreadEnds(j)' : i \in 1 .. n - 1 /\ i + 1 \in UnreadEnds(j)
             /\ \A i \in UnreadEnds(j) : i \in 1 .. n /\ (i = 1 \/ i - 1 \in UnreadEnds(j)')
             /\ \A i \in UnreadEnds(j)' : Waiting'[i] = Waiting[i + 1]
             /\ 1 \in UnreadEnds(j) <=> e.job = j /\ e.status \in Completions
  BY <1>4, <1>5, <1>6, EndsTaken DEF UnreadEnds, EndsIn, SameEvent
<1> HIDE DEF e
<1>8. ASSUME NEW j \in Jobs
      PROVE  IF jobs'[j] \notin Completions THEN reports'[j] = <<>> /\ UnreadEnds(j)' = {}
             ELSE \/ reports'[j] = <<jobs'[j]>> /\ UnreadEnds(j)' = {}
                  \/ /\ reports'[j] = <<>>
                     /\ \E i \in UnreadEnds(j)' :
                          UnreadEnds(j)' = {i} /\ Waiting'[i].status = jobs'[j]
  <2>1. CASE UnreadEnds(j) = {}
    <3>1. UnreadEnds(j)' = {} /\ reports'[j] = reports[j]
      BY <1>1, <1>7, <2>1 DEF ReportsOK
    <3>2. QED
      BY <1>1, <2>1, <3>1 DEF EndsOnce
  <2>2. CASE UnreadEnds(j) # {}
    <3>1. PICK i \in UnreadEnds(j) :
            /\ UnreadEnds(j) = {i} /\ Waiting[i].status = jobs[j]
            /\ jobs[j] \in Completions /\ reports[j] = <<>> /\ i \in 1 .. n
      BY <1>7, <2>2 DEF EndsOnce
    <3>2. CASE i = 1
      <4>1. UnreadEnds(j)' = {}
        BY <1>7, <3>1, <3>2
      <4>2. e.job = j /\ e.status = jobs[j]
        BY <1>6, <1>7, <3>1, <3>2
      <4>3. reports'[j] = Append(<<>>, jobs[j])
        BY <1>1, <3>1, <4>2 DEF ReportsOK
      <4>4. reports'[j] = <<jobs[j]>>
        BY <4>3
      <4>5. QED
        BY <1>1, <3>1, <4>1, <4>4
    <3>3. CASE i # 1
      <4>1. i - 1 \in UnreadEnds(j)' /\ Waiting'[i - 1] = Waiting[i]
        BY <1>7, <3>1, <3>3
      <4>2. \A k \in UnreadEnds(j)' : k = i - 1
        BY <1>7, <3>1
      <4>3. UnreadEnds(j)' = {i - 1}
        BY <4>1, <4>2
      <4>4. reports'[j] = <<>>
        BY <1>1, <1>7, <3>1, <3>3 DEF ReportsOK
      <4>5. QED
        BY <1>1, <3>1, <4>1, <4>3, <4>4
    <3>4. QED
      BY <3>2, <3>3
  <2>3. QED
    BY <2>1, <2>2
<1>9. QED
  BY <1>8 DEF EndsOnce

LEMMA EndsOnceStep ==
  ASSUME RunnerInv, [Next]_vars
  PROVE  EndsOnce'
<1>1. JobsOK /\ JobsOK' /\ ReportsOK /\ CompletionInv /\ LoopInv /\ EndsOnce
  BY JobsOKStep DEF RunnerInv
<1>2. ASSUME UNCHANGED <<jobs, writer, status_rx, reports>> PROVE EndsOnce'
  BY <1>1, <1>2 DEF EndsOnce, UnreadEnds, Waiting, LockFree
<1>3. CASE SendEvent
  BY <1>1, <1>3, EndsOnceSend
<1>4. CASE ReceiveStatus
  BY <1>1, <1>4, EndsOnceReceive
<1>5. CASE RegisterJob
  <2>1. /\ LockFree /\ Write("main", main.job, "queued") /\ main.job \in Jobs
        /\ jobs[main.job] = "absent" /\ UNCHANGED reports
    BY <1>1, <1>5 DEF RegisterJob, LoopInv
  <2>2. jobs[main.job] \notin Completions /\ "queued" \in Statuses
    BY <2>1 DEF Completions, VmExits, Orders, Statuses
  <2>3. QED
    BY <1>1, <2>1, <2>2, EndsOnceWrite
<1>6. ASSUME NEW by \in {"main", "completion"}, NEW j \in Jobs, NEW s \in Statuses,
             UpdateJobStatus(by, j, s), UNCHANGED reports
      PROVE  EndsOnce'
  <2>1. CASE Allowed(jobs[j], s)
    <3>1. jobs[j] \notin Completions
      BY <2>1 DEF Allowed, Completions, VmExits, Orders
    <3>2. LockFree /\ Write(by, j, s)
      BY <1>6, <2>1 DEF UpdateJobStatus
    <3>3. QED
      BY <1>1, <1>6, <3>1, <3>2, EndsOnceWrite
  <2>2. CASE ~Allowed(jobs[j], s)
    BY <1>2, <1>6, <2>2 DEF UpdateJobStatus, jobManager
  <2>3. QED
    BY <2>1, <2>2
<1>7. CASE UpdateJob
  <2>1. main.job \in Jobs /\ main.status \in Statuses
    BY <1>1, <1>7 DEF UpdateJob, LoopInv, Statuses, Completions
  <2>2. QED
    BY <1>6, <1>7, <2>1 DEF UpdateJob
<1>8. CASE CompleteJob
  <2>1. completing.job \in Jobs /\ completing.status \in Statuses
    BY <1>1, <1>8 DEF CompleteJob, CompletionInv, VmEvents, Statuses, Completions
  <2>2. QED
    BY <1>6, <1>8, <2>1 DEF CompleteJob
<1>9. CASE CountJobs \/ TestExit \/ LaunchVm \/ ShutdownVm \/ Reads \/ ReceiveCompletion
  BY <1>2, <1>9 DEF CountJobs, TestExit, LaunchVm, ShutdownVm, Reads, Drain, Tick,
     ReadJobClaimed, ReadOrder, ReceiveCompletion, jobManager
<1>10. CASE \E j \in Jobs : VmTask(j)
  BY <1>2, <1>10 DEF VmTask, CreateVm, StopVm, SendCompletion, EndTask, VmEnds,
     jobManager
<1>11. CASE UNCHANGED vars
  BY <1>2, <1>11 DEF vars, jobManager
<1>12. QED
  BY <1>3, <1>4, <1>5, <1>7, <1>8, <1>9, <1>10, <1>11 DEF Next, MainStep

LEMMA RunnerStep == RunnerInv /\ [Next]_vars => RunnerInv'
<1> SUFFICES ASSUME RunnerInv, [Next]_vars PROVE RunnerInv'
  OBVIOUS
<1>1. JobsOK' /\ ReportsOK' /\ LoopOK' /\ CompletionInv' /\ VmsOK'
  BY JobsOKStep, ReportsOKStep, LoopOKStep, CompletionInvStep, VmsOKStep
<1>2. CompletionsOK'
  <2>1. VmEvents \subseteq Events
    BY DEF VmEvents, Events, Statuses, Completions
  <2>2. completion_rx' \in Seq(Events)
    BY <1>1, <2>1 DEF CompletionInv
  <2>3. QED
    BY <1>1, <2>1, <2>2 DEF CompletionInv, CompletionsOK
<1>3. LoopInv' /\ ControlInv' /\ OrderReachesVm' /\ EndsOnce'
  BY LoopInvStep, ControlInvStep, OrderReachesVmStep, EndsOnceStep
<1>4. QED
  BY <1>1, <1>2, <1>3 DEF RunnerInv

(* The maps of JobManager and VmManager, the channels between the tasks    *)
(* and the tasks of the VMs agree at every step of the main loop.          *)
THEOREM RunnerInvariant == Spec => []RunnerInv
<1>1. QED
  BY RunnerInit, RunnerStep, PTL DEF Spec

-----------------------------------------------------------------------------
(* What follows from it *)

(* JobManager, the channels and the VM tasks always have their types, and  *)
(* no channel exceeds its capacity.                                        *)
THEOREM Typing == Spec => []TypeOK
<1>1. RunnerInv => TypeOK
  BY TypeParts DEF RunnerInv
<1>2. QED
  BY <1>1, RunnerInvariant, PTL

(* update_job_status lets one end of a job through, however the completion *)
(* task, cancellations and timeouts race, and the main loop reports that   *)
(* one once, also when its event has to wait for room in the channel.      *)
THEOREM OneEnd == Spec => []EndsOnce
<1>1. RunnerInv => EndsOnce
  BY DEF RunnerInv
<1>2. QED
  BY <1>1, RunnerInvariant, PTL

(* complete_job marks a job before shutdown_vm goes to its VM, and finds   *)
(* the control channel that launch_vm has put into the map: the command is *)
(* waiting for a VM that is still being created.                           *)
THEOREM OrderWaitsForVm == Spec => []OrderReachesVm
<1>1. RunnerInv => OrderReachesVm
  BY DEF RunnerInv
<1>2. QED
  BY <1>1, RunnerInvariant, PTL

-----------------------------------------------------------------------------
(* The VM tasks implement VmTask *)

LEMMA TaskStep ==
  ASSUME RunnerInv, [Next]_vars, NEW j \in Jobs
  PROVE  [TaskOf(j)!Next]_(TaskOf(j)!vars)
<1> USE DEF TaskOf!vars, TaskOf!Next
<1>1. VmsOK /\ LoopInv /\ CompletionInv
  BY DEF RunnerInv
<1>2. ASSUME UNCHANGED <<vm, exit>> PROVE UNCHANGED TaskOf(j)!vars
  BY <1>2
<1>3. CASE SendEvent \/ Reads \/ ReceiveStatus \/ ReceiveCompletion \/ CompleteJob
  BY <1>2, <1>3 DEF SendEvent, Reads, Drain, Tick, ReadJobClaimed, ReadOrder,
     ReceiveStatus, ReceiveCompletion, CompleteJob, vms
<1>4. CASE CountJobs \/ TestExit \/ RegisterJob \/ UpdateJob \/ ShutdownVm
  BY <1>2, <1>4 DEF CountJobs, TestExit, RegisterJob, UpdateJob, ShutdownVm, vms
<1>5. CASE LaunchVm
  BY <1>1, <1>5 DEF LaunchVm, LoopInv, VmsOK, TaskOf!Launch
<1>6. ASSUME NEW k \in Jobs, VmTask(k) PROVE [TaskOf(j)!Next]_(TaskOf(j)!vars)
  <2>1. CASE k # j
    BY <1>1, <1>6, <2>1 DEF VmTask, CreateVm, StopVm, SendCompletion, EndTask,
       VmEnds, VmsOK
  <2>2. CASE k = j /\ CreateVm(j)
    BY <1>1, <2>2 DEF CreateVm, VmsOK, TaskOf!Created
  <2>3. CASE k = j /\ StopVm(j)
    BY <1>1, <2>3 DEF StopVm, VmsOK, TaskOf!Stop
  <2>4. CASE k = j /\ \E s \in VmExits : VmEnds(j, s)
    BY <1>1, <2>4 DEF VmEnds, VmExits, VmsOK, TaskOf!End, TaskOf!Exits
  <2>5. CASE k = j /\ SendCompletion(j)
    BY <1>1, <2>5 DEF SendCompletion, VmsOK, TaskOf!Tell
  <2>6. CASE k = j /\ EndTask(j)
    BY <1>1, <2>6 DEF EndTask, VmsOK, TaskOf!Drop
  <2>7. QED
    BY <1>6, <2>1, <2>2, <2>3, <2>4, <2>5, <2>6 DEF VmTask
<1>7. CASE UNCHANGED vars
  BY <1>2, <1>7 DEF vars, vms
<1>8. QED
  BY <1>3, <1>4, <1>5, <1>6, <1>7 DEF Next, MainStep

(* Every task that launch_vm spawns is a VmTask: launched once, its        *)
(* completion sent once, its VM dropped after that.                        *)
THEOREM VmTasksImplemented == Spec => VmTasksKept
<1>1. Init => \A j \in Jobs : TaskOf(j)!Init
  BY DEF Init, TaskOf!Init
<1>2. RunnerInv /\ [Next]_vars => [\A j \in Jobs : [TaskOf(j)!Next]_(TaskOf(j)!vars)]_vars
  BY TaskStep
<1>3. QED
  BY <1>1, <1>2, RunnerInvariant, PTL DEF Spec, VmTasksKept

=============================================================================
