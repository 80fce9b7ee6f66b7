----------------------------- MODULE VmSession ------------------------------
(***************************************************************************)
(* The life of one Linux VM.  On the host: vm_task_impl, LinuxVm and its   *)
(* two child processes, the vsock server with the task that handles the    *)
(* guest's connection, and the task that streams the job's log to the log  *)
(* service.  In the guest: init, then the driver with the task that writes *)
(* its log lines to the connection.                                        *)
(*                                                                         *)
(* The host tasks and the guest meet in job_result, in the connection      *)
(* (wire), in the log channel (logs) and in the processes themselves.  A   *)
(* spawned task that is not aborted goes on when its spawner is gone; what *)
(* is queued for a task is gone when that task ends.                       *)
(***************************************************************************)
EXTENDS Naturals, Sequences, SequencesExt

CONSTANTS
  WriterCap,   (* VsockWriter's channel; 100 in the code *)
  LogCap,      (* LOG_CHANNEL_BUFFER_SIZE *)
  WireCap,     (* bound: messages in the guest's connection *)
  MaxLines,    (* bound: lines the driver writes *)
  MaxTries,    (* connection attempts of the driver; 11 in the code *)
  MaxOrders    (* bound: commands sent to the VM *)

ASSUME VmSessionAssumption ==
  /\ {WriterCap, LogCap, WireCap, MaxTries} \subseteq Nat \ {0}
  /\ MaxLines \in Nat /\ MaxOrders \in Nat

VARIABLES
  task,        (* where vm_task_impl is *)
  ordered,     (* it has taken a command, and waits without select *)
  verdict,     (* the job result its wait has read *)
  status,      (* VmExitStatus, once there is one *)
  orders, control,    (* commands sent so far, and not yet taken *)
  drop,        (* what the drop of the LinuxVm does next *)
  vmm, virtiofsd,     (* the child processes *)
  rootfs,      (* vm_rootfs_dir is on disk *)
  guards,      (* resources, IP address and CID the VM holds *)
  server, handler,    (* the vsock server, the task of the connection *)
  job_result,
  stream, service,    (* the log stream's task, the log service *)
  logs, posted,       (* lines in the log channel, lines it was sent *)
  guest, tries,       (* where the guest is *)
  outcome,     (* what the driver reported *)
  wire,        (* messages from the driver to the handler *)
  buffer,      (* lines in the VsockWriter's channel *)
  written,     (* how many lines the driver has written *)
  refused      (* lines for which that channel had no room *)

taskVars  == <<task, ordered, verdict, status, orders, control, drop>>
hostVars  == <<vmm, virtiofsd, rootfs, guards>>
vsockVars == <<server, handler, job_result>>
logVars   == <<stream, service, logs, posted>>
bootVars  == <<guest, tries, outcome>>
lineVars  == <<wire, buffer, written, refused>>
vars == <<taskVars, hostVars, vsockVars, logVars, bootVars, lineVars>>

Creating ==
  {"reserve", "rootfs", "virtiofsd", "hypervisor", "sockets", "ip", "cid",
   "define", "configure", "boot"}

Working == {"network", "setup", "clone", "build"}   (* the driver logs *)

Results == {"success", "failed"}
AllGuards == {"job", "ip", "cid"}
Dead == {"clean", "crashed", "killed"}   (* code 0, another code, a signal *)

Claimed == 0   (* the log's first line; the driver's are 1 .. written *)
Lines == 0 .. MaxLines

Ready == [type |-> "Ready"]
LogMsg(n) == [type |-> "Log", line |-> n]
Complete(result) == [type |-> "Complete", result |-> result]
Messages == {Ready} \cup {LogMsg(n) : n \in Lines} \cup {Complete(r) : r \in Results}

TypeOK ==
  /\ task \in Creating \cup
       {"wait", "check", "stopping", "killing", "ended", "failed", "told", "gone"}
  /\ ordered \in BOOLEAN /\ rootfs \in BOOLEAN
  /\ drop \in {"no", "vmm", "virtiofsd", "rootfs", "guards", "done"}
  /\ {verdict, status, outcome, job_result} \subseteq Results \cup {"none"}
  /\ orders \in 0 .. MaxOrders /\ control \in 0 .. orders
  /\ vmm \in {"none", "up"} \cup Dead
  /\ virtiofsd \in {"none", "up", "dead"}
  /\ guards \subseteq AllGuards
  /\ server \in {"none", "spawned", "listening", "over"}
  /\ handler \in {"none", "config", "ready", "serve", "store", "closed"}
  /\ stream \in {"starting", "open", "closed"} /\ service \in {"up", "down"}
  /\ logs \in Seq(Lines) /\ Len(logs) <= LogCap
  /\ posted \in Seq(Lines)
  /\ guest \in {"off", "init", "root", "connect", "config", "report", "halting",
                "over"} \cup Working
  /\ tries \in 0 .. MaxTries
  /\ wire \in Seq(Messages) /\ Len(wire) <= WireCap
  /\ buffer \in Seq(Lines) /\ Len(buffer) <= WriterCap
  /\ written \in Lines /\ refused \subseteq 1 .. written

(* launch_vm has spawned the task. *)
Init ==
  /\ task = "reserve" /\ ordered = FALSE
  /\ verdict = "none" /\ status = "none" /\ outcome = "none"
  /\ orders = 0 /\ control = 0 /\ drop = "no"
  /\ vmm = "none" /\ virtiofsd = "none" /\ rootfs = FALSE /\ guards = {}
  /\ server = "none" /\ handler = "none" /\ job_result = "none"
  /\ stream = "starting" /\ service = "up" /\ logs = <<>> /\ posted = <<>>
  /\ guest = "off" /\ tries = 0
  /\ wire = <<>> /\ buffer = <<>> /\ written = 0 /\ refused = {}

-----------------------------------------------------------------------------
(* Child processes, the guest and the abort of the server, where several   *)
(* callers need them.  The handler is a task of its own and outlives the   *)
(* server.                                                                 *)

Killed(p) == IF p = "up" THEN "killed" ELSE p

(* The lines in the memory of a guest end with it. *)
StopGuest ==
  /\ guest' = IF guest = "off" THEN "off" ELSE "over"
  /\ buffer' = <<>>

(* Mutant: the hypervisor is only asked to shut down. *)
KillVirtiofsdOnly ==
  /\ virtiofsd' = IF virtiofsd = "up" THEN "dead" ELSE virtiofsd
  /\ UNCHANGED <<vmm, guest, buffer>>

KillProcesses ==
  /\ vmm' = Killed(vmm)
  /\ virtiofsd' = IF virtiofsd = "up" THEN "dead" ELSE virtiofsd
  /\ StopGuest

AbortServer == server' = IF server = "none" THEN "none" ELSE "over"

-----------------------------------------------------------------------------
(* Drop for LinuxVm, then its fields.  It blocks its thread and no other.  *)

BeginDrop == drop = "no" /\ drop' = "vmm" /\ AbortServer

Dropping(from, to) ==
  /\ drop = from /\ drop' = to
  /\ UNCHANGED <<task, ordered, verdict, status, orders, control, vsockVars,
                 logVars, tries, outcome, wire, written, refused>>

(* Mutant: the second process is forgotten. *)
DropHypervisorOnly ==
  /\ Dropping("vmm", "rootfs")
  /\ vmm' = Killed(vmm) /\ StopGuest
  /\ UNCHANGED <<virtiofsd, rootfs, guards>>

DropHypervisor ==
  /\ Dropping("vmm", "virtiofsd")
  /\ vmm' = Killed(vmm) /\ StopGuest
  /\ UNCHANGED <<virtiofsd, rootfs, guards>>

DropVirtiofsd ==
  /\ Dropping("virtiofsd", "rootfs")
  /\ virtiofsd' = IF virtiofsd = "up" THEN "dead" ELSE virtiofsd
  /\ UNCHANGED <<vmm, rootfs, guards, guest, buffer>>

(* A failure is only logged. *)
RemoveRootfs ==
  /\ Dropping("rootfs", "guards")
  /\ rootfs' \in {FALSE, rootfs}
  /\ UNCHANGED <<vmm, virtiofsd, guards, guest, buffer>>

ReleaseGuards ==
  /\ Dropping("guards", "done")
  /\ guards' = {}
  /\ UNCHANGED <<vmm, virtiofsd, rootfs, guest, buffer>>

DropStep == DropHypervisor \/ DropVirtiofsd \/ RemoveRootfs \/ ReleaseGuards

-----------------------------------------------------------------------------
(* LinuxVm::new, set_job_config and start *)

Goto(from, to) ==
  /\ task = from /\ task' = to
  /\ UNCHANGED <<ordered, verdict, status, orders, control, drop>>

AllocateResources ==
  /\ Goto("reserve", "rootfs")
  /\ guards' = {"job"}
  /\ UNCHANGED <<vmm, virtiofsd, rootfs>>

CopyRootfs ==
  /\ Goto("rootfs", "virtiofsd")
  /\ rootfs' = TRUE
  /\ UNCHANGED <<vmm, virtiofsd, guards>>

SpawnVirtiofsd ==
  /\ Goto("virtiofsd", "hypervisor")
  /\ virtiofsd' = "up"
  /\ UNCHANGED <<vmm, rootfs, guards>>

SpawnHypervisor ==
  /\ Goto("hypervisor", "sockets")
  /\ vmm' = "up"
  /\ UNCHANGED <<virtiofsd, rootfs, guards>>

(* Each process may die before or after it has made its socket. *)
WaitForSockets == Goto("sockets", "ip") /\ UNCHANGED hostVars

TakeAddress(kind, next) ==
  /\ Goto(kind, next)
  /\ guards' = guards \cup {kind}
  /\ UNCHANGED <<vmm, virtiofsd, rootfs>>

DefineVm == vmm = "up" /\ Goto("define", "configure") /\ UNCHANGED hostVars

NewStep ==
  /\ \/ AllocateResources \/ CopyRootfs \/ SpawnVirtiofsd \/ SpawnHypervisor
     \/ WaitForSockets
     \/ TakeAddress("ip", "cid") \/ TakeAddress("cid", "define")
     \/ DefineVm
  /\ UNCHANGED <<vsockVars, logVars, bootVars, lineVars>>

(* A step of new fails: there is no LinuxVm yet, so the guards are dropped *)
(* but nobody kills the processes or removes the directory.                *)
NewFails ==
  /\ task \in Creating \ {"sockets", "configure", "boot"}
  /\ Goto(task, "failed")
  /\ guards' = {}
  /\ rootfs' \in {rootfs, rootfs \/ task = "rootfs"}
  /\ UNCHANGED <<vmm, virtiofsd, vsockVars, logVars, bootVars, lineVars>>

(* The server task takes over the sender of the log channel. *)
SetJobConfig ==
  /\ Goto("configure", "boot")
  /\ server' = "spawned"
  /\ UNCHANGED <<hostVars, handler, job_result, logVars, bootVars, lineVars>>

StartVm ==
  /\ vmm = "up" /\ Goto("boot", "wait")
  /\ guest' = "init"
  /\ UNCHANGED <<hostVars, vsockVars, logVars, tries, outcome, lineVars>>

(* The LinuxVm is dropped before the failure is known to anybody. *)
StartFails ==
  /\ task = "boot" /\ task' = "failed"
  /\ BeginDrop
  /\ UNCHANGED <<ordered, verdict, status, orders, control, hostVars, handler,
                 job_result, logVars, bootVars, lineVars>>

-----------------------------------------------------------------------------
(* wait and shutdown *)

(* wait looks at the result, and lets go of it. *)
ReadResult ==
  /\ task = "wait"
  /\ verdict' = job_result
  /\ IF job_result # "none"
     THEN task' = "stopping" /\ AbortServer
     ELSE task' = "check" /\ UNCHANGED server
  /\ UNCHANGED <<ordered, status, orders, control, drop, hostVars, handler,
                 job_result, logVars, bootVars, lineVars>>

(* Mutant: a process that died of a signal counts as ended well. *)
ExitStatusIgnoresSignals == IF vmm = "crashed" THEN "failed" ELSE "success"

(* How wait judges a process that ended while it knew of no result. *)
ExitStatus == IF vmm = "clean" THEN "success" ELSE "failed"

TryWait ==
  /\ task = "check"
  /\ IF vmm \in Dead
     THEN task' = "ended" /\ status' = ExitStatus
     ELSE task' = "wait" /\ UNCHANGED status
  /\ UNCHANGED <<ordered, verdict, orders, control, drop, hostVars, vsockVars,
                 logVars, bootVars, lineVars>>

(* JobManager's main loop cancels or times the job out: shutdown_vm. *)
SendShutdown ==
  /\ task # "gone" /\ orders < MaxOrders
  /\ orders' = orders + 1 /\ control' = control + 1
  /\ UNCHANGED <<task, ordered, verdict, status, drop, hostVars, vsockVars,
                 logVars, bootVars, lineVars>>

(* select takes the command at an await of wait, its own shutdown included.*)
TakeCommand ==
  /\ task \in {"wait", "stopping", "killing"} /\ ~ordered
  /\ control > 0
  /\ control' = control - 1 /\ ordered' = TRUE
  /\ task' = "stopping" /\ verdict' = "none"
  /\ AbortServer
  /\ UNCHANGED <<status, orders, drop, hostVars, handler, job_result, logVars,
                 bootVars, lineVars>>

(* The API call, which may fail. *)
ShutdownVm ==
  /\ Goto("stopping", "killing")
  /\ StopGuest \/ UNCHANGED <<guest, buffer>>
  /\ UNCHANGED <<hostVars, vsockVars, logVars, tries, outcome, wire, written, refused>>

(* After the pause the processes are killed; wait has its answer, or the   *)
(* command's shutdown goes on to wait.                                     *)
KillVm ==
  /\ task = "killing"
  /\ KillProcesses
  /\ task' = IF verdict = "none" THEN "wait" ELSE "ended"
  /\ status' = verdict
  /\ UNCHANGED <<ordered, verdict, orders, control, drop, rootfs, guards,
                 vsockVars, logVars, tries, outcome, wire, written, refused>>

(* Mutant: the VM leaves before the completion task is told. *)
LeaveUntold ==
  /\ task \in {"ended", "failed"} /\ drop \in {"no", "done"}
  /\ task' = "gone"
  /\ UNCHANGED <<ordered, verdict, status, orders, control, drop, hostVars,
                 vsockVars, logVars, bootVars, lineVars>>

SendCompletion ==
  /\ task \in {"ended", "failed"} /\ drop \in {"no", "done"}
  /\ task' = "told"
  /\ status' = IF task = "failed" THEN "failed" ELSE status
  /\ UNCHANGED <<ordered, verdict, orders, control, drop, hostVars, vsockVars,
                 logVars, bootVars, lineVars>>

(* The arm of the match ends, and with it a LinuxVm that ran. *)
DropVm ==
  /\ task = "told" /\ server # "none"
  /\ BeginDrop
  /\ UNCHANGED <<task, ordered, verdict, status, orders, control, hostVars,
                 handler, job_result, logVars, bootVars, lineVars>>

(* The control channel leaves the map. *)
EndTask ==
  /\ task = "told" /\ task' = "gone"
  /\ server = "none" \/ drop = "done"
  /\ control' = 0
  /\ UNCHANGED <<ordered, verdict, status, orders, drop, hostVars, vsockVars,
                 logVars, bootVars, lineVars>>

-----------------------------------------------------------------------------
(* start_unix_config_server and handle_guest_connection *)

ServerBinds ==
  /\ server = "spawned"
  /\ server' \in {"listening", "over"}
  /\ UNCHANGED <<taskVars, hostVars, handler, job_result, logVars, bootVars,
                 lineVars>>

SendConfig ==
  /\ handler = "config" /\ handler' = "ready"
  /\ UNCHANGED <<taskVars, hostVars, server, job_result, logVars, bootVars,
                 lineVars>>

ReadReady ==
  /\ handler = "ready" /\ wire # <<>>
  /\ handler' = "serve" /\ wire' = Tail(wire)
  /\ UNCHANGED <<taskVars, hostVars, server, job_result, logVars, bootVars,
                 buffer, written, refused>>

Reading == handler = "serve" /\ wire # <<>>

(* Mutant: the handler does not wait for room in the log channel. *)
ReadLogTrySend ==
  /\ Reading /\ Head(wire).type = "Log"
  /\ wire' = Tail(wire)
  /\ logs' = IF stream # "closed" /\ Len(logs) < LogCap
             THEN Append(logs, Head(wire).line) ELSE logs
  /\ UNCHANGED <<taskVars, hostVars, vsockVars, stream, service, posted,
                 bootVars, buffer, written, refused>>

(* A line waits for room in the log channel, whose receiver may be gone.   *)
ReadLog ==
  /\ Reading /\ Head(wire).type = "Log"
  /\ wire' = Tail(wire)
  /\ \/ /\ stream # "closed" /\ Len(logs) < LogCap
        /\ logs' = Append(logs, Head(wire).line)
     \/ stream = "closed" /\ UNCHANGED logs
  /\ UNCHANGED <<taskVars, hostVars, vsockVars, stream, service, posted,
                 bootVars, buffer, written, refused>>

(* Mutant: the handler gives up on Complete. *)
ReadCompleteOnly ==
  /\ Reading /\ Head(wire).type = "Complete"
  /\ wire' = Tail(wire) /\ handler' = "closed"
  /\ UNCHANGED <<taskVars, hostVars, server, job_result, logVars, bootVars,
                 buffer, written, refused>>

(* The result is stored later, under its own lock; nothing more is read.   *)
ReadComplete ==
  /\ Reading /\ Head(wire).type = "Complete"
  /\ wire' = Tail(wire) /\ handler' = "store"
  /\ UNCHANGED <<taskVars, hostVars, server, job_result, logVars, bootVars,
                 buffer, written, refused>>

(* The connection is closed, with what it may still have brought. *)
StoreResult ==
  /\ handler = "store" /\ handler' = "closed"
  /\ job_result' = outcome
  /\ AbortServer /\ wire' = <<>>
  /\ UNCHANGED <<taskVars, hostVars, logVars, bootVars, buffer, written, refused>>

(* The connection ends under the handler. *)
LoseGuest ==
  /\ handler \in {"config", "ready", "serve"}
  /\ vmm # "up" \/ (guest = "over" /\ wire = <<>>)
  /\ handler' = "closed" /\ wire' = <<>>
  /\ UNCHANGED <<taskVars, hostVars, server, job_result, logVars, bootVars,
                 buffer, written, refused>>

-----------------------------------------------------------------------------
(* setup_log_stream, and the log service as it appears from here *)

StartStream ==
  /\ stream = "starting" /\ Len(logs) < LogCap
  /\ stream' = "open"
  /\ logs' = Append(logs, Claimed)
  /\ UNCHANGED <<taskVars, hostVars, vsockVars, service, posted, bootVars,
                 lineVars>>

PostLine ==
  /\ stream = "open" /\ service = "up"
  /\ logs # <<>>
  /\ posted' = Append(posted, Head(logs)) /\ logs' = Tail(logs)
  /\ UNCHANGED <<taskVars, hostVars, vsockVars, stream, service, bootVars,
                 lineVars>>

(* Who can still put a line into the channel: the stream's own task keeps  *)
(* the clone it sent the first line with.                                  *)
LogSenders ==
  {"stream"}
    \cup {t \in {"task"} : task \in Creating \ {"boot"}}
    \cup {t \in {"server"} : server \in {"spawned", "listening"}}
    \cup {t \in {"handler"} : handler \notin {"none", "closed"}}

(* The body of the request ends with its last sender, which never happens  *)
(* as the stream's own task is one of them, or the request fails.  The     *)
(* receiver goes with the body, and the lines it has not read with it.     *)
CloseStream ==
  /\ stream = "open"
  /\ (logs = <<>> /\ LogSenders = {}) \/ service = "down"
  /\ stream' = "closed" /\ logs' = <<>>
  /\ UNCHANGED <<taskVars, hostVars, vsockVars, service, posted, bootVars,
                 lineVars>>

ServiceFails ==
  /\ service = "up" /\ service' = "down"
  /\ UNCHANGED <<taskVars, hostVars, vsockVars, stream, logs, posted, bootVars,
                 lineVars>>

-----------------------------------------------------------------------------
(* The guest: init, the driver's main, VsockWriter's task *)

GuestGoes(from, to) ==
  /\ guest = from /\ guest' = to
  /\ UNCHANGED <<taskVars, hostVars, vsockVars, logVars, tries, outcome>>

(* mount_essential_filesystems and the other mounts of init. *)
MountFilesystems == GuestGoes("init", "root") /\ UNCHANGED lineVars

(* The virtiofs root, chroot, and exec of the driver. *)
SwitchRoot == GuestGoes("root", "connect") /\ UNCHANGED lineVars

Connect ==
  /\ guest = "connect" /\ server = "listening"
  /\ guest' = "config" /\ handler' = "config"
  /\ UNCHANGED <<taskVars, hostVars, server, job_result, logVars, tries,
                 outcome, lineVars>>

RetryConnect ==
  /\ guest = "connect" /\ server # "listening"
  /\ tries' = tries + 1
  /\ guest' = IF tries + 1 = MaxTries THEN "over" ELSE "connect"
  /\ UNCHANGED <<taskVars, hostVars, vsockVars, logVars, outcome, lineVars>>

ReceiveConfig ==
  /\ handler = "ready"
  /\ GuestGoes("config", "network")
  /\ wire' = <<Ready>>
  /\ UNCHANGED <<buffer, written, refused>>

ConfigureNetwork == GuestGoes("network", "setup") /\ UNCHANGED lineVars

(* Nix for a single user, then the privileges are dropped. *)
SetUpNix == GuestGoes("setup", "clone") /\ UNCHANGED lineVars

CloneRepository == GuestGoes("clone", "build") /\ UNCHANGED lineVars

(* A step of init or a step before run_devenv fails: the process ends      *)
(* without a report, and what its writer had not sent is gone.             *)
FailEarly ==
  /\ \E at \in {"init", "root", "config", "network", "setup", "clone"} :
       GuestGoes(at, "over")
  /\ buffer' = <<>> /\ UNCHANGED <<wire, written, refused>>

RunDevenv ==
  /\ guest = "build" /\ guest' = "report"
  /\ outcome' \in Results
  /\ UNCHANGED <<taskVars, hostVars, vsockVars, logVars, tries, lineVars>>

(* Mutant: the writer's channel is unbounded. *)
WriteLineAlways ==
  /\ guest \in Working \cup {"halting"}
  /\ written < MaxLines
  /\ written' = written + 1
  /\ buffer' = Append(buffer, written + 1)
  /\ UNCHANGED <<taskVars, hostVars, vsockVars, logVars, bootVars, wire, refused>>

(* tracing: try_send into the writer's channel. *)
WriteLine ==
  /\ guest \in Working \cup {"halting"}
  /\ written < MaxLines
  /\ written' = written + 1
  /\ IF Len(buffer) < WriterCap
     THEN buffer' = Append(buffer, written + 1) /\ UNCHANGED refused
     ELSE refused' = refused \cup {written + 1} /\ UNCHANGED buffer
  /\ UNCHANGED <<taskVars, hostVars, vsockVars, logVars, bootVars, wire>>

Connected == guest \in Working \cup {"report", "halting"}

(* The writer's task sends while it holds the reporter. *)
SendLine ==
  /\ Connected /\ buffer # <<>>
  /\ buffer' = Tail(buffer)
  /\ IF handler = "closed" THEN UNCHANGED wire
     ELSE Len(wire) < WireCap /\ wire' = Append(wire, LogMsg(Head(buffer)))
  /\ UNCHANGED <<taskVars, hostVars, vsockVars, logVars, bootVars, written, refused>>

(* report_complete takes the reporter too, ahead of the lines not sent.    *)
ReportComplete ==
  /\ GuestGoes("report", "halting")
  /\ IF handler = "closed" THEN UNCHANGED wire
     ELSE Len(wire) < WireCap /\ wire' = Append(wire, Complete(outcome))
  /\ UNCHANGED <<buffer, written, refused>>

(* The guest halts, or is not allowed to and the driver returns. *)
Halt ==
  /\ GuestGoes("halting", "over")
  /\ buffer' = <<>> /\ UNCHANGED <<wire, written, refused>>

-----------------------------------------------------------------------------
(* The child processes may end by themselves. *)

HypervisorExits ==
  /\ vmm = "up" /\ vmm' \in {"clean", "crashed"}
  /\ StopGuest
  /\ UNCHANGED <<taskVars, virtiofsd, rootfs, guards, vsockVars, logVars,
                 tries, outcome, wire, written, refused>>

VirtiofsdExits ==
  /\ virtiofsd = "up" /\ virtiofsd' = "dead"
  /\ UNCHANGED <<taskVars, vmm, rootfs, guards, vsockVars, logVars, bootVars,
                 lineVars>>

-----------------------------------------------------------------------------
TaskStep ==
  \/ NewStep \/ SetJobConfig \/ StartVm
  \/ ReadResult \/ TryWait \/ ShutdownVm \/ KillVm
  \/ SendCompletion \/ DropVm \/ DropStep \/ EndTask

HandlerStep ==
  \/ SendConfig \/ ReadReady \/ ReadLog \/ ReadComplete \/ StoreResult

StreamStep == StartStream \/ PostLine \/ CloseStream

GuestStep ==
  \/ MountFilesystems \/ SwitchRoot \/ Connect \/ RetryConnect
  \/ ReceiveConfig \/ ConfigureNetwork \/ SetUpNix \/ CloneRepository
  \/ FailEarly \/ RunDevenv \/ WriteLine \/ SendLine \/ ReportComplete \/ Halt

Next ==
  \/ TaskStep \/ NewFails \/ StartFails \/ SendShutdown \/ TakeCommand
  \/ ServerBinds \/ HandlerStep \/ LoseGuest
  \/ StreamStep \/ ServiceFails
  \/ GuestStep \/ HypervisorExits \/ VirtiofsdExits

Spec == Init /\ [][Next]_vars

(* Tasks run, and a command that waits is taken: select picks among its    *)
(* ready branches at random.  The log service reads what it is sent while  *)
(* it is up.  Nothing is said of creation and of the guest, which may hang.*)
FairSpec ==
  /\ Spec
  /\ WF_vars(ReadResult \/ TryWait \/ ShutdownVm \/ KillVm)
  /\ WF_vars(SendCompletion \/ DropVm \/ DropStep \/ EndTask) /\ SF_vars(TakeCommand)
  /\ WF_vars(HandlerStep) /\ WF_vars(vmm # "up" /\ LoseGuest)
  /\ WF_vars(StreamStep)

-----------------------------------------------------------------------------
(* A VM ends as a success only if its driver reported one or the           *)
(* hypervisor ended by itself with code 0; being killed never counts       *)
(* (LinuxVm::wait, with orders, crashes and its own shutdown in between).  *)
SuccessHasAReason ==
  status = "success" => job_result = "success" \/ vmm = "clean"

(* A message that carries no line counts like Claimed.                     *)
Carried(messages) ==
  [i \in DOMAIN messages |-> IF messages[i].type = "Log" THEN messages[i].line ELSE Claimed]

(* The lines on their way, from the log service back to the driver.        *)
Underway == posted \o logs \o Carried(wire) \o buffer

(* The lines the writer's channel took, and those of them that are nowhere *)
(* any more.                                                               *)
Accepted == (1 .. written) \ refused
Missing == Accepted \ ToSet(Underway)

(* Lines vanish only with the task that was to read them: when the log     *)
(* stream, the handler or the guest has ended.  So the log service gets,   *)
(* in order and once, the lines that VsockWriter accepted, up to the       *)
(* first that was lost, and none after it (VsockWriter::write,             *)
(* handle_guest_connection, setup_log_stream).                             *)
LinesAccountedFor ==
  /\ ToSet(Underway) \ {Claimed} \subseteq Accepted
  /\ \A i, k \in DOMAIN Underway :
       i < k => Underway[i] < Underway[k] \/ Underway[k] = Claimed
  /\ Missing # {} => stream = "closed" \/ handler = "closed" \/ guest = "over"
  /\ \A n \in Missing, line \in ToSet(posted \o logs) : line < n

(* Once there is a LinuxVm its processes run only while it has all its     *)
(* guards, a guest never runs without them, and virtiofsd serves no        *)
(* directory that was removed; when the task is gone the processes of the  *)
(* LinuxVm are too (Drop for LinuxVm).  A new that failed leaves its       *)
(* processes behind, and a directory that cannot be removed stays.         *)
GuardsOutlastProcesses ==
  /\ server # "none" /\ "up" \in {vmm, virtiofsd} => guards = AllGuards
  /\ guest \notin {"off", "over"} => guards = AllGuards
  /\ virtiofsd = "up" => rootfs
  /\ task = "gone" => guards = {} /\ (server = "none" \/ "up" \notin {vmm, virtiofsd})

(* The task keeps what the rest of the runner builds on (vm_task_impl).    *)
Contract ==
  INSTANCE VmTask WITH
    stage <- IF task \in Creating THEN "creating"
             ELSE IF task \in {"ended", "failed"} THEN "ended"
             ELSE IF task \in {"told", "gone"} THEN task
             ELSE IF ordered THEN "stopping" ELSE "running",
    exit <- IF task = "ended" THEN status
            ELSE IF task = "failed" THEN "failed" ELSE "none"

VmTaskKept == Contract!Spec

(* The task of the log stream sends the first line into the channel that   *)
(* it alone reads, before it reads: it finds it full and waits for itself. *)
StreamWaitsForItself == stream = "starting" /\ Len(logs) = LogCap

(* A report of the driver ends the VM, whatever lines lie ahead of it and  *)
(* whatever becomes of the log and of the processes, unless the handler is *)
(* held up by a log stream that never begins to read (ReadLog,             *)
(* StoreResult, wait, SendCompletion).                                     *)
ReportEnds == guest = "halting" ~> task = "gone" \/ StreamWaitsForItself

(* A command given to a VM that runs ends it, even when it comes while     *)
(* wait shuts the VM down (the select of vm_task_impl).                    *)
OrderEnds == (task = "wait" /\ control > 0) ~> task = "gone"

=============================================================================
