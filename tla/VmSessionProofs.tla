--------------------------- MODULE VmSessionProofs ---------------------------
(***************************************************************************)
(* Theorems about VmSession, for any capacity of the channels and any      *)
(* number of lines, connection attempts and commands.                      *)
(***************************************************************************)
EXTENDS VmSession, SequenceTheorems, TLAPS

-----------------------------------------------------------------------------
(* The inductive invariant *)

(* The type invariant in parts: one for each group of variables.           *)
TaskOK ==
  /\ task \in Creating \cup
       {"wait", "check", "stopping", "killing", "ended", "failed", "told", "gone"}
  /\ ordered \in BOOLEAN
  /\ verdict \in Results \cup {"none"} /\ status \in Results \cup {"none"}
  /\ orders \in 0 .. MaxOrders /\ control \in 0 .. orders
  /\ drop \in {"no", "vmm", "virtiofsd", "rootfs", "guards", "done"}

HostOK ==
  /\ vmm \in {"none", "up"} \cup Dead
  /\ virtiofsd \in {"none", "up", "dead"}
  /\ rootfs \in BOOLEAN
  /\ guards \subseteq AllGuards

VsockOK ==
  /\ server \in {"none", "spawned", "listening", "over"}
  /\ handler \in {"none", "config", "ready", "serve", "store", "closed"}
  /\ job_result \in Results \cup {"none"}

StreamOK == stream \in {"starting", "open", "closed"} /\ service \in {"up", "down"}

GuestOK ==
  /\ guest \in {"off", "init", "root", "connect", "config", "report", "halting",
                "over"} \cup Working
  /\ tries \in 0 .. MaxTries
  /\ outcome \in Results \cup {"none"}

QueuesOK ==
  /\ logs \in Seq(Lines) /\ Len(logs) <= LogCap
  /\ posted \in Seq(Lines)
  /\ wire \in Seq(Messages) /\ Len(wire) <= WireCap
  /\ buffer \in Seq(Lines) /\ Len(buffer) <= WriterCap
  /\ written \in Lines /\ refused \subseteq 1 .. written

(* The guest boots once, stops trying in time, and has an outcome to       *)
(* report.                                                                 *)
GuestInv ==
  /\ task \in Creating => guest = "off"
  /\ guest \in {"off", "init", "root"} => tries = 0
  /\ guest = "connect" => tries < MaxTries
  /\ guest = "report" => outcome # "none"

(* There is one connection and one result: what wait has read is what the  *)
(* handler stored.                                                         *)
ResultInv ==
  /\ guest \in {"off", "init", "root", "connect"} => handler = "none"
  /\ job_result # "none" => handler = "closed"
  /\ verdict # "none" => verdict = job_result
  /\ status # "none" => task \in {"ended", "told", "gone"}
  /\ task = "ended" => status # "none"
  /\ SuccessHasAReason

(* A command can only be taken when there is a VM.                         *)
OrderInv == ordered => task \notin Creating

(* What the VM holds while it is made and while it runs, and how its drop  *)
(* takes it apart: the guards go when the rest is at its end.              *)
HostInv ==
  /\ server # "none" => task \notin Creating \ {"boot"}
  /\ task \in {"boot", "wait", "check", "stopping", "killing", "ended"} => server # "none"
  /\ server = "none" /\ task \notin Creating => guards = {}
  /\ server = "none" => drop = "no"
  /\ task \in {"define", "configure"} => guards = AllGuards
  /\ task = "cid" => guards = {"job", "ip"}
  /\ task = "ip" => guards = {"job"}
  /\ task \in {"rootfs", "virtiofsd", "hypervisor", "sockets"} => guards = {"job"}
  /\ task = "virtiofsd" \/ virtiofsd = "up" => rootfs
  /\ guest # "off" => server # "none"
  /\ task \in Creating \cup {"wait", "check", "stopping", "killing", "ended"} => drop = "no"
  /\ server # "none" /\ drop # "done" => guards = AllGuards
  /\ drop = "done" => guards = {}
  /\ drop \in {"virtiofsd", "rootfs", "guards", "done"} =>
       vmm # "up" /\ guest \in {"off", "over"}
  /\ drop \in {"rootfs", "guards", "done"} => virtiofsd # "up"
  /\ task = "gone" => server = "none" \/ drop = "done"

SessionInv ==
  /\ TaskOK /\ HostOK /\ VsockOK /\ StreamOK /\ GuestOK /\ QueuesOK
  /\ GuestInv /\ ResultInv /\ OrderInv /\ HostInv

LEMMA Capacities ==
  /\ WriterCap \in Nat /\ WriterCap >= 1 /\ LogCap \in Nat /\ LogCap >= 1
  /\ WireCap \in Nat /\ WireCap >= 1 /\ MaxTries \in Nat /\ MaxTries >= 1
  /\ MaxLines \in Nat /\ MaxOrders \in Nat
<1>1. QED
  BY VmSessionAssumption

LEMMA TypeParts ==
  TypeOK <=> TaskOK /\ HostOK /\ VsockOK /\ StreamOK /\ GuestOK /\ QueuesOK
<1>1. QED
  BY DEF TypeOK, TaskOK, HostOK, VsockOK, StreamOK, GuestOK, QueuesOK

LEMMA SessionInit == Init => SessionInv
<1> SUFFICES ASSUME Init PROVE SessionInv
  OBVIOUS
<1> USE Capacities DEF Init
<1>1. /\ task \in Creating /\ orders \in 0 .. MaxOrders /\ control \in 0 .. orders
      /\ tries \in 0 .. MaxTries
  BY DEF Creating
<1>2. TaskOK /\ HostOK /\ VsockOK /\ StreamOK /\ GuestOK
  BY <1>1 DEF TaskOK, HostOK, VsockOK, StreamOK, GuestOK
<1>3. QueuesOK
  BY DEF QueuesOK, Lines
<1>4. GuestInv /\ ResultInv /\ OrderInv /\ HostInv
  BY DEF GuestInv, ResultInv, OrderInv, HostInv, Creating, SuccessHasAReason
<1>5. QED
  BY <1>2, <1>3, <1>4 DEF SessionInv

-----------------------------------------------------------------------------
(* Every step preserves each part *)

LEMMA TaskOKStep ==
  ASSUME SessionInv, [Next]_vars
  PROVE  TaskOK'
<1>1. TaskOK /\ VsockOK /\ ResultInv
  BY DEF SessionInv
<1> USE <1>1, Capacities DEF taskVars, TaskOK, VsockOK, Creating, Results
<1>2. CASE NewStep
  BY <1>2 DEF NewStep, AllocateResources, CopyRootfs, SpawnVirtiofsd,
         SpawnHypervisor, WaitForSockets, TakeAddress, DefineVm, Goto
<1>3. CASE NewFails
  BY <1>3 DEF NewFails, Goto
<1>4. CASE StartFails
  BY <1>4 DEF StartFails, BeginDrop, AbortServer
<1>5. CASE SetJobConfig \/ StartVm
  BY <1>5 DEF SetJobConfig, StartVm, Goto
<1>6. CASE ReadResult \/ TryWait
  BY <1>6 DEF ReadResult, TryWait, AbortServer, ExitStatus
<1>7. CASE SendShutdown \/ TakeCommand
  <2>1. orders' \in 0 .. MaxOrders /\ control' \in 0 .. orders'
    BY <1>7 DEF SendShutdown, TakeCommand
  <2>2. QED
    BY <1>7, <2>1 DEF SendShutdown, TakeCommand
<1>8. CASE ShutdownVm \/ KillVm
  BY <1>8 DEF ShutdownVm, KillVm, Goto, KillProcesses, Killed, StopGuest
<1>9. CASE SendCompletion
  BY <1>9 DEF SendCompletion
<1>10. CASE DropVm \/ DropStep \/ EndTask
  <2>1. CASE DropVm \/ EndTask
    BY <1>10, <2>1 DEF DropVm, BeginDrop, AbortServer, EndTask
  <2>2. CASE DropHypervisor \/ DropVirtiofsd
    BY <2>2 DEF DropHypervisor, DropVirtiofsd, Dropping, Killed, StopGuest
  <2>3. CASE RemoveRootfs \/ ReleaseGuards
    BY <2>3 DEF RemoveRootfs, ReleaseGuards, Dropping
  <2>4. QED
    BY <1>10, <2>1, <2>2, <2>3 DEF DropStep
<1>11. CASE ServerBinds \/ HandlerStep \/ LoseGuest
  BY <1>11 DEF ServerBinds, HandlerStep, SendConfig, ReadReady, ReadLog,
         ReadComplete, StoreResult, Reading, LoseGuest, AbortServer
<1>12. CASE StreamStep \/ ServiceFails
  BY <1>12 DEF StreamStep, StartStream, PostLine, CloseStream, ServiceFails
<1>13. CASE GuestStep
  BY <1>13 DEF GuestStep, MountFilesystems, SwitchRoot, Connect, RetryConnect,
         ReceiveConfig, ConfigureNetwork, SetUpNix, CloneRepository,
         FailEarly, RunDevenv, WriteLine, SendLine, ReportComplete, Halt,
         GuestGoes
<1>14. CASE HypervisorExits \/ VirtiofsdExits
  BY <1>14 DEF HypervisorExits, VirtiofsdExits, StopGuest
<1>15. CASE UNCHANGED vars
  BY <1>15 DEF vars
<1>16. QED
  BY <1>2, <1>3, <1>4, <1>5, <1>6, <1>7, <1>8, <1>9, <1>10, <1>11, <1>12, <1>13,
     <1>14, <1>15 DEF Next, TaskStep

LEMMA HostOKStep ==
  ASSUME SessionInv, [Next]_vars
  PROVE  HostOK'
<1>1. HostOK
  BY DEF SessionInv
<1> USE <1>1, Capacities DEF hostVars, HostOK, Dead, AllGuards
<1>2. CASE NewStep
  BY <1>2 DEF NewStep, AllocateResources, CopyRootfs, SpawnVirtiofsd,
         SpawnHypervisor, WaitForSockets, TakeAddress, DefineVm, Goto
<1>3. CASE NewFails
  BY <1>3 DEF NewFails, Goto
<1>4. CASE StartFails
  BY <1>4 DEF StartFails, BeginDrop, AbortServer
<1>5. CASE SetJobConfig \/ StartVm
  BY <1>5 DEF SetJobConfig, StartVm, Goto
<1>6. CASE ReadResult \/ TryWait
  BY <1>6 DEF ReadResult, TryWait, AbortServer, ExitStatus
<1>7. CASE SendShutdown \/ TakeCommand
  BY <1>7 DEF SendShutdown, TakeCommand, AbortServer
<1>8. CASE ShutdownVm \/ KillVm
  BY <1>8 DEF ShutdownVm, KillVm, Goto, KillProcesses, Killed, StopGuest
<1>9. CASE SendCompletion
  BY <1>9 DEF SendCompletion
<1>10. CASE DropVm \/ DropStep \/ EndTask
  BY <1>10 DEF DropVm, BeginDrop, AbortServer, DropStep, DropHypervisor, DropVirtiofsd,
         RemoveRootfs, ReleaseGuards, Dropping, Killed, StopGuest, EndTask
<1>11. CASE ServerBinds \/ HandlerStep \/ LoseGuest
  BY <1>11 DEF ServerBinds, HandlerStep, SendConfig, ReadReady, ReadLog,
         ReadComplete, StoreResult, Reading, LoseGuest, AbortServer
<1>12. CASE StreamStep \/ ServiceFails
  BY <1>12 DEF StreamStep, StartStream, PostLine, CloseStream, ServiceFails
<1>13. CASE GuestStep
  BY <1>13 DEF GuestStep, MountFilesystems, SwitchRoot, Connect, RetryConnect,
         ReceiveConfig, ConfigureNetwork, SetUpNix, CloneRepository,
         FailEarly, RunDevenv, WriteLine, SendLine, ReportComplete, Halt,
         GuestGoes
<1>14. CASE HypervisorExits \/ VirtiofsdExits
  BY <1>14 DEF HypervisorExits, VirtiofsdExits, StopGuest
<1>15. CASE UNCHANGED vars
  BY <1>15 DEF vars
<1>16. QED
  BY <1>2, <1>3, <1>4, <1>5, <1>6, <1>7, <1>8, <1>9, <1>10, <1>11, <1>12, <1>13,
     <1>14, <1>15 DEF Next, TaskStep

LEMMA VsockOKStep ==
  ASSUME SessionInv, [Next]_vars
  PROVE  VsockOK'
<1>1. VsockOK /\ GuestOK
  BY DEF SessionInv
<1> USE <1>1, Capacities DEF vsockVars, VsockOK, GuestOK
<1>2. CASE NewStep
  BY <1>2 DEF NewStep, AllocateResources, CopyRootfs, SpawnVirtiofsd,
         SpawnHypervisor, WaitForSockets, TakeAddress, DefineVm, Goto
<1>3. CASE NewFails
  BY <1>3 DEF NewFails, Goto
<1>4. CASE StartFails
  BY <1>4 DEF StartFails, BeginDrop, AbortServer
<1>5. CASE SetJobConfig \/ StartVm
  BY <1>5 DEF SetJobConfig, StartVm, Goto
<1>6. CASE ReadResult \/ TryWait
  BY <1>6 DEF ReadResult, TryWait, AbortServer, ExitStatus
<1>7. CASE SendShutdown \/ TakeCommand
  BY <1>7 DEF SendShutdown, TakeCommand, AbortServer
<1>8. CASE ShutdownVm \/ KillVm
  BY <1>8 DEF ShutdownVm, KillVm, Goto, KillProcesses, Killed, StopGuest
<1>9. CASE SendCompletion
  BY <1>9 DEF SendCompletion
<1>10. CASE DropVm \/ DropStep \/ EndTask
  BY <1>10 DEF DropVm, BeginDrop, AbortServer, DropStep, DropHypervisor, DropVirtiofsd,
         RemoveRootfs, ReleaseGuards, Dropping, Killed, StopGuest, EndTask
<1>11. CASE ServerBinds \/ HandlerStep \/ LoseGuest
  BY <1>11 DEF ServerBinds, HandlerStep, SendConfig, ReadReady, ReadLog,
         ReadComplete, StoreResult, Reading, LoseGuest, AbortServer
<1>12. CASE StreamStep \/ ServiceFails
  BY <1>12 DEF StreamStep, StartStream, PostLine, CloseStream, ServiceFails
<1>13. CASE GuestStep
  BY <1>13 DEF GuestStep, MountFilesystems, SwitchRoot, Connect, RetryConnect,
         ReceiveConfig, ConfigureNetwork, SetUpNix, CloneRepository,
         FailEarly, RunDevenv, WriteLine, SendLine, ReportComplete, Halt,
         GuestGoes
<1>14. CASE HypervisorExits \/ VirtiofsdExits
  BY <1>14 DEF HypervisorExits, VirtiofsdExits, StopGuest
<1>15. CASE UNCHANGED vars
  BY <1>15 DEF vars
<1>16. QED
  BY <1>2, <1>3, <1>4, <1>5, <1>6, <1>7, <1>8, <1>9, <1>10, <1>11, <1>12, <1>13,
     <1>14, <1>15 DEF Next, TaskStep

LEMMA StreamOKStep ==
  ASSUME SessionInv, [Next]_vars
  PROVE  StreamOK'
<1>1. StreamOK
  BY DEF SessionInv
<1> USE <1>1, Capacities DEF logVars, StreamOK
<1>2. CASE NewStep
  BY <1>2 DEF NewStep, AllocateResources, CopyRootfs, SpawnVirtiofsd,
         SpawnHypervisor, WaitForSockets, TakeAddress, DefineVm, Goto
<1>3. CASE NewFails
  BY <1>3 DEF NewFails, Goto
<1>4. CASE StartFails
  BY <1>4 DEF StartFails, BeginDrop, AbortServer
<1>5. CASE SetJobConfig \/ StartVm
  BY <1>5 DEF SetJobConfig, StartVm, Goto
<1>6. CASE ReadResult \/ TryWait
  BY <1>6 DEF ReadResult, TryWait, AbortServer, ExitStatus
<1>7. CASE SendShutdown \/ TakeCommand
  BY <1>7 DEF SendShutdown, TakeCommand, AbortServer
<1>8. CASE ShutdownVm \/ KillVm
  BY <1>8 DEF ShutdownVm, KillVm, Goto, KillProcesses, Killed, StopGuest
<1>9. CASE SendCompletion
  BY <1>9 DEF SendCompletion
<1>10. CASE DropVm \/ DropStep \/ EndTask
  BY <1>10 DEF DropVm, BeginDrop, AbortServer, DropStep, DropHypervisor, DropVirtiofsd,
         RemoveRootfs, ReleaseGuards, Dropping, Killed, StopGuest, EndTask
<1>11. CASE ServerBinds \/ HandlerStep \/ LoseGuest
  BY <1>11 DEF ServerBinds, HandlerStep, SendConfig, ReadReady, ReadLog,
         ReadComplete, StoreResult, Reading, LoseGuest, AbortServer
<1>12. CASE StreamStep \/ ServiceFails
  BY <1>12 DEF StreamStep, StartStream, PostLine, CloseStream, ServiceFails
<1>13. CASE GuestStep
  BY <1>13 DEF GuestStep, MountFilesystems, SwitchRoot, Connect, RetryConnect,
         ReceiveConfig, ConfigureNetwork, SetUpNix, CloneRepository,
         FailEarly, RunDevenv, WriteLine, SendLine, ReportComplete, Halt,
         GuestGoes
<1>14. CASE HypervisorExits \/ VirtiofsdExits
  BY <1>14 DEF HypervisorExits, VirtiofsdExits, StopGuest
<1>15. CASE UNCHANGED vars
  BY <1>15 DEF vars
<1>16. QED
  BY <1>2, <1>3, <1>4, <1>5, <1>6, <1>7, <1>8, <1>9, <1>10, <1>11, <1>12, <1>13,
     <1>14, <1>15 DEF Next, TaskStep

LEMMA GuestOKStep ==
  ASSUME SessionInv, [Next]_vars
  PROVE  GuestOK'
<1>1. GuestOK /\ GuestInv
  BY DEF SessionInv
<1> USE <1>1, Capacities DEF bootVars, GuestOK, GuestInv, Working, Results
<1>2. CASE NewStep
  BY <1>2 DEF NewStep, AllocateResources, CopyRootfs, SpawnVirtiofsd,
         SpawnHypervisor, WaitForSockets, TakeAddress, DefineVm, Goto
<1>3. CASE NewFails
  BY <1>3 DEF NewFails, Goto
<1>4. CASE StartFails
  BY <1>4 DEF StartFails, BeginDrop, AbortServer
<1>5. CASE SetJobConfig \/ StartVm
  BY <1>5 DEF SetJobConfig, StartVm, Goto
<1>6. CASE ReadResult \/ TryWait
  BY <1>6 DEF ReadResult, TryWait, AbortServer, ExitStatus
<1>7. CASE SendShutdown \/ TakeCommand
  BY <1>7 DEF SendShutdown, TakeCommand, AbortServer
<1>8. CASE ShutdownVm \/ KillVm
  BY <1>8 DEF ShutdownVm, KillVm, Goto, KillProcesses, Killed, StopGuest
<1>9. CASE SendCompletion
  BY <1>9 DEF SendCompletion
<1>10. CASE DropVm \/ DropStep \/ EndTask
  BY <1>10 DEF DropVm, BeginDrop, AbortServer, DropStep, DropHypervisor, DropVirtiofsd,
         RemoveRootfs, ReleaseGuards, Dropping, Killed, StopGuest, EndTask
<1>11. CASE ServerBinds \/ HandlerStep \/ LoseGuest
  BY <1>11 DEF ServerBinds, HandlerStep, SendConfig, ReadReady, ReadLog,
         ReadComplete, StoreResult, Reading, LoseGuest, AbortServer
<1>12. CASE StreamStep \/ ServiceFails
  BY <1>12 DEF StreamStep, StartStream, PostLine, CloseStream, ServiceFails
<1>13. CASE GuestStep
  BY <1>13 DEF GuestStep, MountFilesystems, SwitchRoot, Connect, RetryConnect,
         ReceiveConfig, ConfigureNetwork, SetUpNix, CloneRepository,
         FailEarly, RunDevenv, WriteLine, SendLine, ReportComplete, Halt,
         GuestGoes
<1>14. CASE HypervisorExits \/ VirtiofsdExits
  BY <1>14 DEF HypervisorExits, VirtiofsdExits, StopGuest
<1>15. CASE UNCHANGED vars
  BY <1>15 DEF vars
<1>16. QED
  BY <1>2, <1>3, <1>4, <1>5, <1>6, <1>7, <1>8, <1>9, <1>10, <1>11, <1>12, <1>13,
     <1>14, <1>15 DEF Next, TaskStep

LEMMA GuestInvStep ==
  ASSUME SessionInv, [Next]_vars
  PROVE  GuestInv'
<1>1. TaskOK /\ GuestOK /\ GuestInv
  BY DEF SessionInv
<1> USE <1>1, Capacities DEF taskVars, bootVars, TaskOK, GuestOK, GuestInv,
       Creating, Working, Results
<1>2. CASE NewStep
  BY <1>2 DEF NewStep, AllocateResources, CopyRootfs, SpawnVirtiofsd,
         SpawnHypervisor, WaitForSockets, TakeAddress, DefineVm, Goto
<1>3. CASE NewFails
  BY <1>3 DEF NewFails, Goto
<1>4. CASE StartFails
  BY <1>4 DEF StartFails, BeginDrop, AbortServer
<1>5. CASE SetJobConfig \/ StartVm
  BY <1>5 DEF SetJobConfig, StartVm, Goto
<1>6. CASE ReadResult \/ TryWait
  BY <1>6 DEF ReadResult, TryWait, AbortServer, ExitStatus
<1>7. CASE SendShutdown \/ TakeCommand
  BY <1>7 DEF SendShutdown, TakeCommand, AbortServer
<1>8. CASE ShutdownVm \/ KillVm
  BY <1>8 DEF ShutdownVm, KillVm, Goto, KillProcesses, Killed, StopGuest
<1>9. CASE SendCompletion
  BY <1>9 DEF SendCompletion
<1>10. CASE DropVm \/ DropStep \/ EndTask
  BY <1>10 DEF DropVm, BeginDrop, AbortServer, DropStep, DropHypervisor, DropVirtiofsd,
         RemoveRootfs, ReleaseGuards, Dropping, Killed, StopGuest, EndTask
<1>11. CASE ServerBinds \/ HandlerStep \/ LoseGuest
  BY <1>11 DEF ServerBinds, HandlerStep, SendConfig, ReadReady, ReadLog,
         ReadComplete, StoreResult, Reading, LoseGuest, AbortServer
<1>12. CASE StreamStep \/ ServiceFails
  BY <1>12 DEF StreamStep, StartStream, PostLine, CloseStream, ServiceFails
<1>13. CASE GuestStep
  BY <1>13 DEF GuestStep, MountFilesystems, SwitchRoot, Connect, RetryConnect,
         ReceiveConfig, ConfigureNetwork, SetUpNix, CloneRepository,
         FailEarly, RunDevenv, WriteLine, SendLine, ReportComplete, Halt,
         GuestGoes
<1>14. CASE HypervisorExits \/ VirtiofsdExits
  BY <1>14 DEF HypervisorExits, VirtiofsdExits, StopGuest
<1>15. CASE UNCHANGED vars
  BY <1>15 DEF vars
<1>16. QED
  BY <1>2, <1>3, <1>4, <1>5, <1>6, <1>7, <1>8, <1>9, <1>10, <1>11, <1>12, <1>13,
     <1>14, <1>15 DEF Next, TaskStep

LEMMA ResultInvStep ==
  ASSUME SessionInv, [Next]_vars
  PROVE  ResultInv'
<1>1. TaskOK /\ VsockOK /\ GuestOK /\ GuestInv /\ ResultInv
  BY DEF SessionInv
<1> USE <1>1, Capacities DEF taskVars, hostVars, vsockVars, bootVars, TaskOK,
       VsockOK, GuestOK, GuestInv, ResultInv, SuccessHasAReason, Creating,
       Working, Results, Dead
<1>2. CASE NewStep
  BY <1>2 DEF NewStep, AllocateResources, CopyRootfs, SpawnVirtiofsd,
         SpawnHypervisor, WaitForSockets, TakeAddress, DefineVm, Goto
<1>3. CASE NewFails
  BY <1>3 DEF NewFails, Goto
<1>4. CASE StartFails
  BY <1>4 DEF StartFails, BeginDrop, AbortServer
<1>5. CASE SetJobConfig \/ StartVm
  BY <1>5 DEF SetJobConfig, StartVm, Goto
<1>6. CASE ReadResult \/ TryWait
  BY <1>6 DEF ReadResult, TryWait, AbortServer, ExitStatus
<1>7. CASE SendShutdown \/ TakeCommand
  BY <1>7 DEF SendShutdown, TakeCommand, AbortServer
<1>8. CASE ShutdownVm \/ KillVm
  BY <1>8 DEF ShutdownVm, KillVm, Goto, KillProcesses, Killed, StopGuest
<1>9. CASE SendCompletion
  BY <1>9 DEF SendCompletion
<1>10. CASE DropVm \/ DropStep \/ EndTask
  <2>1. CASE DropVm \/ EndTask
    BY <1>10, <2>1 DEF DropVm, BeginDrop, AbortServer, EndTask
  <2>2. CASE DropHypervisor \/ DropVirtiofsd
    BY <2>2 DEF DropHypervisor, DropVirtiofsd, Dropping, Killed, StopGuest
  <2>3. CASE RemoveRootfs \/ ReleaseGuards
    <3>1. /\ UNCHANGED <<task, verdict, status, guest, vmm>>
          /\ UNCHANGED vsockVars
      BY <2>3 DEF RemoveRootfs, ReleaseGuards, Dropping
    <3>2. QED
      BY <3>1
  <2>4. QED
    BY <1>10, <2>1, <2>2, <2>3 DEF DropStep
<1>11. CASE ServerBinds \/ HandlerStep \/ LoseGuest
  BY <1>11 DEF ServerBinds, HandlerStep, SendConfig, ReadReady, ReadLog,
         ReadComplete, StoreResult, Reading, LoseGuest, AbortServer
<1>12. CASE StreamStep \/ ServiceFails
  BY <1>12 DEF StreamStep, StartStream, PostLine, CloseStream, ServiceFails
<1>13. CASE GuestStep
  BY <1>13 DEF GuestStep, MountFilesystems, SwitchRoot, Connect, RetryConnect,
         ReceiveConfig, ConfigureNetwork, SetUpNix, CloneRepository,
         FailEarly, RunDevenv, WriteLine, SendLine, ReportComplete, Halt,
         GuestGoes
<1>14. CASE HypervisorExits \/ VirtiofsdExits
  BY <1>14 DEF HypervisorExits, VirtiofsdExits, StopGuest
<1>15. CASE UNCHANGED vars
  BY <1>15 DEF vars
<1>16. QED
  BY <1>2, <1>3, <1>4, <1>5, <1>6, <1>7, <1>8, <1>9, <1>10, <1>11, <1>12, <1>13,
     <1>14, <1>15 DEF Next, TaskStep

LEMMA OrderInvStep ==
  ASSUME SessionInv, [Next]_vars
  PROVE  OrderInv'
<1>1. OrderInv
  BY DEF SessionInv
<1> USE <1>1, Capacities DEF taskVars, OrderInv, Creating
<1>2. CASE NewStep
  BY <1>2 DEF NewStep, AllocateResources, CopyRootfs, SpawnVirtiofsd,
         SpawnHypervisor, WaitForSockets, TakeAddress, DefineVm, Goto
<1>3. CASE NewFails
  BY <1>3 DEF NewFails, Goto
<1>4. CASE StartFails
  BY <1>4 DEF StartFails, BeginDrop, AbortServer
<1>5. CASE SetJobConfig \/ StartVm
  BY <1>5 DEF SetJobConfig, StartVm, Goto
<1>6. CASE ReadResult \/ TryWait
  BY <1>6 DEF ReadResult, TryWait, AbortServer, ExitStatus
<1>7. CASE SendShutdown \/ TakeCommand
  BY <1>7 DEF SendShutdown, TakeCommand, AbortServer
<1>8. CASE ShutdownVm \/ KillVm
  BY <1>8 DEF ShutdownVm, KillVm, Goto, KillProcesses, Killed, StopGuest
<1>9. CASE SendCompletion
  BY <1>9 DEF SendCompletion
<1>10. CASE DropVm \/ DropStep \/ EndTask
  BY <1>10 DEF DropVm, BeginDrop, AbortServer, DropStep, DropHypervisor, DropVirtiofsd,
         RemoveRootfs, ReleaseGuards, Dropping, Killed, StopGuest, EndTask
<1>11. CASE ServerBinds \/ HandlerStep \/ LoseGuest
  BY <1>11 DEF ServerBinds, HandlerStep, SendConfig, ReadReady, ReadLog,
         ReadComplete, StoreResult, Reading, LoseGuest, AbortServer
<1>12. CASE StreamStep \/ ServiceFails
  BY <1>12 DEF StreamStep, StartStream, PostLine, CloseStream, ServiceFails
<1>13. CASE GuestStep
  BY <1>13 DEF GuestStep, MountFilesystems, SwitchRoot, Connect, RetryConnect,
         ReceiveConfig, ConfigureNetwork, SetUpNix, CloneRepository,
         FailEarly, RunDevenv, WriteLine, SendLine, ReportComplete, Halt,
         GuestGoes
<1>14. CASE HypervisorExits \/ VirtiofsdExits
  BY <1>14 DEF HypervisorExits, VirtiofsdExits, StopGuest
<1>15. CASE UNCHANGED vars
  BY <1>15 DEF vars
<1>16. QED
  BY <1>2, <1>3, <1>4, <1>5, <1>6, <1>7, <1>8, <1>9, <1>10, <1>11, <1>12, <1>13,
     <1>14, <1>15 DEF Next, TaskStep

LEMMA HostInvStep ==
  ASSUME SessionInv, [Next]_vars
  PROVE  HostInv'
<1>1. TaskOK /\ HostOK /\ GuestInv /\ HostInv
  BY DEF SessionInv
<1> USE <1>1, Capacities DEF taskVars, hostVars, vsockVars, TaskOK, HostOK,
       HostInv, Creating, AllGuards, Dead
<1>2. CASE NewStep
  BY <1>2 DEF NewStep, AllocateResources, CopyRootfs, SpawnVirtiofsd,
         SpawnHypervisor, WaitForSockets, TakeAddress, DefineVm, Goto, bootVars
<1>3. CASE NewFails
  BY <1>3 DEF NewFails, Goto, bootVars
<1>4. CASE StartFails
  BY <1>4 DEF StartFails, BeginDrop, AbortServer, bootVars
<1>5. CASE SetJobConfig \/ StartVm
  BY <1>5 DEF SetJobConfig, StartVm, Goto, bootVars
<1>6. CASE ReadResult \/ TryWait
  BY <1>6 DEF ReadResult, TryWait, AbortServer, ExitStatus, bootVars
<1>7. CASE ShutdownVm \/ KillVm
  BY <1>7 DEF ShutdownVm, KillVm, Goto, KillProcesses, Killed, StopGuest
<1>8. CASE SendCompletion \/ EndTask
  BY <1>8 DEF SendCompletion, EndTask, bootVars
<1>9. CASE DropVm \/ DropStep
  BY <1>9 DEF DropVm, BeginDrop, AbortServer, DropStep, DropHypervisor, DropVirtiofsd,
         RemoveRootfs, ReleaseGuards, Dropping, Killed, StopGuest, bootVars
<1>10. CASE HypervisorExits \/ VirtiofsdExits
  BY <1>10 DEF HypervisorExits, VirtiofsdExits, StopGuest, bootVars
<1>11. ASSUME UNCHANGED <<hostVars, drop>>, (server = "none") = (server' = "none"),
              task' = task \/ (task \in {"wait", "stopping", "killing"} /\ task' = "stopping"),
              guest' = guest \/ guest \notin {"off", "over"}
       PROVE  HostInv'
  BY <1>11
<1>12. CASE SendShutdown \/ TakeCommand
  BY <1>11, <1>12 DEF SendShutdown, TakeCommand, AbortServer, bootVars
<1>13. CASE ServerBinds \/ HandlerStep \/ LoseGuest
  BY <1>11, <1>13 DEF ServerBinds, HandlerStep, SendConfig, ReadReady, ReadLog,
         ReadComplete, StoreResult, LoseGuest, AbortServer, bootVars
<1>14. CASE StreamStep \/ ServiceFails
  BY <1>11, <1>14 DEF StreamStep, StartStream, PostLine, CloseStream, ServiceFails, bootVars
<1>15. CASE GuestStep
  BY <1>11, <1>15 DEF GuestStep, MountFilesystems, SwitchRoot, Connect,
         RetryConnect, ReceiveConfig, ConfigureNetwork, SetUpNix, CloneRepository,
         FailEarly, RunDevenv, WriteLine, SendLine, ReportComplete, Halt, GuestGoes, bootVars
<1>16. CASE UNCHANGED vars
  BY <1>11, <1>16 DEF vars, bootVars
<1>17. QED
  BY <1>2, <1>3, <1>4, <1>5, <1>6, <1>7, <1>8, <1>9, <1>10, <1>12, <1>13, <1>14,
     <1>15, <1>16 DEF Next, TaskStep

LEMMA Appended ==
  ASSUME NEW S, NEW s \in Seq(S), NEW e \in S, NEW n \in Nat, Len(s) < n
  PROVE  Append(s, e) \in Seq(S) /\ Len(Append(s, e)) <= n
<1>1. QED
  OBVIOUS

LEMMA Taken ==
  ASSUME NEW S, NEW s \in Seq(S), s # <<>>
  PROVE  Head(s) \in S /\ Tail(s) \in Seq(S) /\ Len(Tail(s)) <= Len(s)
<1>1. QED
  OBVIOUS

LEMMA MessageTypes ==
  /\ 0 \in Lines /\ \A n \in Lines : n < MaxLines => n + 1 \in Lines
  /\ Ready \in Messages /\ \A n \in Lines : LogMsg(n) \in Messages
  /\ \A r \in Results : Complete(r) \in Messages
  /\ \A m \in Messages : m.type = "Log" => m.line \in Lines
<1>1. 0 \in Lines /\ \A n \in Lines : n < MaxLines => n + 1 \in Lines
  BY Capacities DEF Lines
<1>2. ASSUME NEW m \in Messages, m.type = "Log" PROVE m.line \in Lines
  BY <1>2 DEF Messages, Ready, LogMsg, Complete
<1>3. QED
  BY <1>1, <1>2 DEF Messages

(* Every channel keeps its type and its capacity.                          *)
LEMMA QueuesOKStep ==
  ASSUME SessionInv, [Next]_vars
  PROVE  QueuesOK'
<1>1. QueuesOK /\ GuestOK /\ GuestInv
  BY DEF SessionInv
<1>2. /\ logs \in Seq(Lines) /\ Len(logs) <= LogCap
      /\ posted \in Seq(Lines)
      /\ wire \in Seq(Messages) /\ Len(wire) <= WireCap
      /\ buffer \in Seq(Lines) /\ Len(buffer) <= WriterCap
      /\ written \in Lines /\ refused \subseteq 1 .. written
  BY <1>1 DEF QueuesOK
<1> USE Capacities
<1>3. ASSUME UNCHANGED <<logs, posted, lineVars>> PROVE QueuesOK'
  BY <1>2, <1>3 DEF QueuesOK, lineVars
<1>4. CASE NewStep \/ NewFails \/ StartFails \/ SetJobConfig \/ StartVm
  BY <1>3, <1>4 DEF NewStep, NewFails, StartFails, SetJobConfig, StartVm, logVars
<1>5. CASE \/ ReadResult \/ TryWait \/ SendShutdown \/ TakeCommand
           \/ SendCompletion \/ DropVm \/ EndTask
  BY <1>3, <1>5 DEF ReadResult, TryWait, SendShutdown, TakeCommand, SendCompletion,
         DropVm, EndTask, logVars
<1>6. CASE \/ ServerBinds \/ SendConfig \/ ServiceFails \/ VirtiofsdExits
           \/ UNCHANGED vars
  BY <1>3, <1>6 DEF ServerBinds, SendConfig, ServiceFails, VirtiofsdExits, vars, logVars
<1>7. CASE \/ MountFilesystems \/ SwitchRoot \/ Connect \/ RetryConnect
           \/ ConfigureNetwork \/ SetUpNix \/ CloneRepository \/ RunDevenv
  BY <1>3, <1>7 DEF MountFilesystems, SwitchRoot, Connect, RetryConnect,
         ConfigureNetwork, SetUpNix, CloneRepository, RunDevenv, GuestGoes, logVars
<1>8. CASE \/ DropStep \/ ShutdownVm \/ KillVm \/ HypervisorExits \/ FailEarly \/ Halt
           \/ StoreResult \/ LoseGuest \/ CloseStream
  <2>1. /\ <<>> \in Seq(Lines) /\ <<>> \in Seq(Messages) /\ Len(<<>>) = 0
    OBVIOUS
  <2>2. /\ logs' \in {logs, <<>>} /\ wire' \in {wire, <<>>} /\ buffer' \in {buffer, <<>>}
        /\ UNCHANGED <<posted, written, refused>>
    BY <1>8 DEF DropStep, DropHypervisor, DropVirtiofsd, RemoveRootfs, ReleaseGuards,
         Dropping, ShutdownVm, KillVm, KillProcesses, StopGuest, HypervisorExits, FailEarly,
         Halt, StoreResult, LoseGuest, CloseStream, GuestGoes, logVars, lineVars
  <2>3. logs' \in Seq(Lines) /\ Len(logs') <= LogCap
    <3>1. CASE logs' = logs
      BY <1>2, <3>1
    <3>2. CASE logs' = <<>>
      BY <2>1, <3>2
    <3>3. QED
      BY <2>2, <3>1, <3>2
  <2>4. wire' \in Seq(Messages) /\ Len(wire') <= WireCap
    <3>1. CASE wire' = wire
      BY <1>2, <3>1
    <3>2. CASE wire' = <<>>
      BY <2>1, <3>2
    <3>3. QED
      BY <2>2, <3>1, <3>2
  <2>5. buffer' \in Seq(Lines) /\ Len(buffer') <= WriterCap
    <3>1. CASE buffer' = buffer
      BY <1>2, <3>1
    <3>2. CASE buffer' = <<>>
      BY <2>1, <3>2
    <3>3. QED
      BY <2>2, <3>1, <3>2
  <2>6. QED
    BY <1>2, <2>2, <2>3, <2>4, <2>5 DEF QueuesOK
<1>9. CASE ReadReady \/ ReadComplete
  <2>1. wire # <<>> /\ wire' = Tail(wire) /\ UNCHANGED <<logs, posted, buffer, written, refused>>
    BY <1>9 DEF ReadReady, ReadComplete, Reading, logVars
  <2>2. wire' \in Seq(Messages) /\ Len(wire') <= WireCap
    BY <1>2, <2>1, Taken
  <2>3. QED
    BY <1>2, <2>1, <2>2 DEF QueuesOK
<1>10. CASE ReadLog
  <2>1. /\ wire # <<>> /\ wire' = Tail(wire) /\ Head(wire).type = "Log"
        /\ UNCHANGED <<posted, buffer, written, refused>>
    BY <1>10 DEF ReadLog, Reading
  <2>2. wire' \in Seq(Messages) /\ Len(wire') <= WireCap /\ Head(wire).line \in Lines
    BY <1>2, <2>1, Taken, MessageTypes
  <2>3. logs' \in Seq(Lines) /\ Len(logs') <= LogCap
    <3>1. CASE Len(logs) < LogCap /\ logs' = Append(logs, Head(wire).line)
      BY <1>2, <2>2, <3>1, Appended
    <3>2. CASE UNCHANGED logs
      BY <1>2, <3>2
    <3>3. QED
      BY <1>10, <3>1, <3>2 DEF ReadLog
  <2>4. QED
    BY <1>2, <2>1, <2>2, <2>3 DEF QueuesOK
<1>11. CASE StartStream
  <2>1. Len(logs) < LogCap /\ logs' = Append(logs, Claimed) /\ UNCHANGED <<posted, lineVars>>
    BY <1>11 DEF StartStream
  <2>2. logs' \in Seq(Lines) /\ Len(logs') <= LogCap
    BY <1>2, <2>1, MessageTypes, Appended DEF Claimed
  <2>3. QED
    BY <1>2, <2>1, <2>2 DEF QueuesOK, lineVars
<1>12. CASE PostLine
  <2>1. /\ logs # <<>> /\ posted' = Append(posted, Head(logs)) /\ logs' = Tail(logs)
        /\ UNCHANGED lineVars
    BY <1>12 DEF PostLine
  <2>2. /\ logs' \in Seq(Lines) /\ Len(logs') <= LogCap /\ posted' \in Seq(Lines)
    BY <1>2, <2>1, Taken
  <2>3. QED
    BY <1>2, <2>1, <2>2 DEF QueuesOK, lineVars
<1>13. CASE ReceiveConfig
  <2>1. wire' = <<Ready>> /\ UNCHANGED <<logs, posted, buffer, written, refused>>
    BY <1>13 DEF ReceiveConfig, GuestGoes, logVars
  <2>2. wire' \in Seq(Messages) /\ Len(wire') <= WireCap
    BY <2>1, MessageTypes
  <2>3. QED
    BY <1>2, <2>1, <2>2 DEF QueuesOK
<1>14. CASE WriteLine
  <2>1. written < MaxLines /\ written' = written + 1 /\ UNCHANGED <<logs, posted, wire>>
    BY <1>14 DEF WriteLine, logVars
  <2>2. written + 1 \in Lines /\ written + 1 \in 1 .. written'
        /\ 1 .. written \subseteq 1 .. written'
    BY <1>2, <2>1, MessageTypes DEF Lines
  <2>3. buffer' \in Seq(Lines) /\ Len(buffer') <= WriterCap /\ refused' \subseteq 1 .. written'
    <3>1. CASE Len(buffer) < WriterCap /\ buffer' = Append(buffer, written + 1) /\ UNCHANGED refused
      BY <1>2, <2>2, <3>1, Appended
    <3>2. CASE refused' = refused \cup {written + 1} /\ UNCHANGED buffer
      BY <1>2, <2>2, <3>2
    <3>3. QED
      BY <1>14, <3>1, <3>2 DEF WriteLine
  <2>4. QED
    BY <1>2, <2>1, <2>2, <2>3 DEF QueuesOK
<1>15. CASE SendLine
  <2>1. buffer # <<>> /\ buffer' = Tail(buffer) /\ UNCHANGED <<logs, posted, written, refused>>
    BY <1>15 DEF SendLine, logVars
  <2>2. buffer' \in Seq(Lines) /\ Len(buffer') <= WriterCap /\ Head(buffer) \in Lines
    BY <1>2, <2>1, Taken
  <2>3. wire' \in Seq(Messages) /\ Len(wire') <= WireCap
    <3>1. CASE UNCHANGED wire
      BY <1>2, <3>1
    <3>2. CASE Len(wire) < WireCap /\ wire' = Append(wire, LogMsg(Head(buffer)))
      <4>1. LogMsg(Head(buffer)) \in Messages
        BY <2>2, MessageTypes
      <4>2. QED
        BY <1>2, <3>2, <4>1, Appended
    <3>3. QED
      BY <1>15, <3>1, <3>2 DEF SendLine
  <2>4. QED
    BY <1>2, <2>1, <2>2, <2>3 DEF QueuesOK
<1>16. CASE ReportComplete
  <2>1. guest = "report" /\ UNCHANGED <<logs, posted, buffer, written, refused>>
    BY <1>16 DEF ReportComplete, GuestGoes, logVars
  <2>2. Complete(outcome) \in Messages
    <3>1. outcome \in Results
      BY <1>1, <2>1 DEF GuestInv, GuestOK
    <3>2. QED
      BY <3>1, MessageTypes
  <2>3. wire' \in Seq(Messages) /\ Len(wire') <= WireCap
    <3>1. CASE UNCHANGED wire
      BY <1>2, <3>1
    <3>2. CASE Len(wire) < WireCap /\ wire' = Append(wire, Complete(outcome))
      BY <1>2, <2>2, <3>2, Appended
    <3>3. QED
      BY <1>16, <3>1, <3>2 DEF ReportComplete
  <2>4. QED
    BY <1>2, <2>1, <2>3 DEF QueuesOK
<1>17. QED
  BY <1>4, <1>5, <1>6, <1>7, <1>8, <1>9, <1>10, <1>11, <1>12, <1>13, <1>14, <1>15,
     <1>16 DEF Next, TaskStep, HandlerStep, StreamStep, GuestStep

LEMMA SessionStep == SessionInv /\ [Next]_vars => SessionInv'
<1>1. QED
  BY TaskOKStep, HostOKStep, VsockOKStep, StreamOKStep, GuestOKStep, QueuesOKStep,
     GuestInvStep, ResultInvStep, OrderInvStep, HostInvStep DEF SessionInv

(* vm_task_impl, the driver LinuxVm, the vsock server and the guest agree  *)
(* about which of them has gone how far, and about who holds what.         *)
THEOREM SessionInvariant == Spec => []SessionInv
<1>1. QED
  BY SessionInit, SessionStep, PTL DEF Spec

-----------------------------------------------------------------------------
(* What follows from it *)

(* The state that vm_task_impl, the vsock server, the log stream and the   *)
(* driver share always has its type, and no channel exceeds its capacity.  *)
THEOREM Typing == Spec => []TypeOK
<1>1. SessionInv => TypeOK
  BY TypeParts DEF SessionInv
<1>2. QED
  BY <1>1, SessionInvariant, PTL

(* LinuxVm::wait answers success only for a reported success or for a      *)
(* hypervisor that ended by itself with code 0, whatever commands, crashes *)
(* and shutdowns come between.                                             *)
THEOREM SuccessJustified == Spec => []SuccessHasAReason
<1>1. SessionInv => SuccessHasAReason
  BY DEF SessionInv, ResultInv
<1>2. QED
  BY <1>1, SessionInvariant, PTL

(* Drop for LinuxVm kills the processes before it removes the directory    *)
(* that virtiofsd serves, and releases the resources, the address and the  *)
(* CID only then, whatever the guest and the processes do meanwhile.       *)
THEOREM GuardsHeld == Spec => []GuardsOutlastProcesses
<1>1. ASSUME SessionInv  PROVE GuardsOutlastProcesses
  <2>1. TaskOK /\ HostInv
    BY <1>1 DEF SessionInv
  <2>2. server # "none" /\ "up" \in {vmm, virtiofsd} => guards = AllGuards
    BY <2>1 DEF HostInv
  <2>3. guest \notin {"off", "over"} => guards = AllGuards
    BY <2>1 DEF HostInv
  <2>4. task = "gone" =>
          guards = {} /\ (server = "none" \/ "up" \notin {vmm, virtiofsd})
    BY <2>1 DEF HostInv, Creating
  <2>5. QED
    BY <2>1, <2>2, <2>3, <2>4 DEF GuardsOutlastProcesses, HostInv
<1>2. QED
  BY <1>1, SessionInvariant, PTL

-----------------------------------------------------------------------------
(* The lines on their way *)

LEMMA AppendToConcat ==
  ASSUME NEW S, NEW s \in Seq(S), NEW t \in Seq(S), NEW e \in S
  PROVE  s \o Append(t, e) = Append(s \o t, e)
<1> DEFINE a == s \o Append(t, e)
           b == Append(s \o t, e)
           n == Len(s) + Len(t) + 1
<1>1. Append(t, e) \in Seq(S) /\ s \o t \in Seq(S)
  OBVIOUS
<1>2. /\ a \in Seq(S) /\ Len(a) = n /\ \A i \in 1 .. Len(s) : a[i] = s[i]
      /\ \A i \in 1 .. Len(t) : a[Len(s) + i] = t[i]
      /\ a[n] = e
  BY <1>1
<1>3. /\ b \in Seq(S) /\ Len(b) = n /\ \A i \in 1 .. Len(s) : b[i] = s[i]
      /\ \A i \in 1 .. Len(t) : b[Len(s) + i] = t[i]
      /\ b[n] = e
  BY <1>1
<1> HIDE DEF a, b
<1>4. ASSUME NEW i \in 1 .. n  PROVE a[i] = b[i]
  <2>1. CASE i \in 1 .. Len(s)
    BY <1>2, <1>3, <2>1
  <2>2. CASE i \in Len(s) + 1 .. Len(s) + Len(t)
    <3>1. i - Len(s) \in 1 .. Len(t) /\ i = Len(s) + (i - Len(s))
      BY <2>2
    <3>2. QED
      BY <1>2, <1>3, <3>1
  <2>3. CASE i = n
    BY <1>2, <1>3, <2>3
  <2>4. QED
    BY <2>1, <2>2, <2>3
<1>5. a = b
  BY <1>2, <1>3, <1>4, SeqEqual
<1>6. QED
  BY <1>5 DEF a, b

(* The head of a queue may be passed to the queue before it.               *)
LEMMA PassedOn ==
  ASSUME NEW S, NEW s \in Seq(S), NEW t \in Seq(S), t # <<>>
  PROVE  s \o t = Append(s, Head(t)) \o Tail(t)
<1> DEFINE a == s \o t
           b == Append(s, Head(t)) \o Tail(t)
           n == Len(s) + Len(t)
<1>1. /\ Head(t) \in S /\ Head(t) = t[1] /\ Tail(t) \in Seq(S) /\ Len(Tail(t)) = Len(t) - 1
      /\ \A i \in 1 .. Len(Tail(t)) : Tail(t)[i] = t[i + 1]
      /\ Len(t) \in Nat \ {0}
  BY HeadTailProperties, EmptySeq
<1>2. Append(s, Head(t)) \in Seq(S) /\ Len(Append(s, Head(t))) = Len(s) + 1
      /\ Append(s, Head(t))[Len(s) + 1] = t[1]
      /\ \A i \in 1 .. Len(s) : Append(s, Head(t))[i] = s[i]
  BY <1>1
<1>3. /\ a \in Seq(S) /\ Len(a) = n /\ \A i \in 1 .. Len(s) : a[i] = s[i]
      /\ \A i \in 1 .. Len(t) : a[Len(s) + i] = t[i]
  OBVIOUS
<1>4. /\ b \in Seq(S) /\ Len(b) = n
      /\ \A i \in 1 .. Len(s) + 1 : b[i] = Append(s, Head(t))[i]
      /\ \A i \in 1 .. Len(Tail(t)) : b[Len(s) + 1 + i] = Tail(t)[i]
  BY <1>1, <1>2
<1> HIDE DEF a, b
<1>5. ASSUME NEW i \in 1 .. n  PROVE a[i] = b[i]
  <2>1. CASE i \in 1 .. Len(s)
    <3>1. i \in 1 .. Len(s) + 1
      BY <2>1
    <3>2. QED
      BY <1>2, <1>3, <1>4, <2>1, <3>1
  <2>2. CASE i = Len(s) + 1
    <3>1. a[i] = t[1]
      BY <1>1, <1>3, <2>2
    <3>2. QED
      BY <1>2, <1>4, <2>2, <3>1
  <2>3. CASE i \in Len(s) + 2 .. n
    <3>1. /\ i - Len(s) \in 1 .. Len(t) /\ i = Len(s) + (i - Len(s))
          /\ i - Len(s) - 1 \in 1 .. Len(Tail(t)) /\ i = Len(s) + 1 + (i - Len(s) - 1)
          /\ (i - Len(s) - 1) + 1 = i - Len(s)
      BY <1>1, <2>3
    <3>2. a[i] = t[i - Len(s)]
      BY <1>3, <3>1
    <3>3. b[i] = Tail(t)[i - Len(s) - 1]
      BY <1>4, <3>1
    <3>4. QED
      BY <1>1, <3>1, <3>2, <3>3
  <2>4. QED
    BY <2>1, <2>2, <2>3
<1>6. a = b
  BY <1>3, <1>4, <1>5, SeqEqual
<1>7. QED
  BY <1>6 DEF a, b

(* Concatenation by another name, of which the provers know only what      *)
(* follows.                                                                *)
Cat(s, t) == s \o t

LEMMA CatAssociates ==
  \A s, t, u \in Seq(Nat) : Cat(Cat(s, t), u) = Cat(s, Cat(t, u))
<1> SUFFICES ASSUME NEW s \in Seq(Nat), NEW t \in Seq(Nat), NEW u \in Seq(Nat)
    PROVE  s \o t \o u = s \o (t \o u)
  BY DEF Cat
<1>1. QED
  BY ConcatAssociative, SMTT(30)

LEMMA CatAppend ==
  \A s, t \in Seq(Nat) : \A e \in Nat : Cat(s, Append(t, e)) = Append(Cat(s, t), e)
<1>1. QED
  BY AppendToConcat DEF Cat

(* LinesAccountedFor of any sequence of lines, of which last were written  *)
(* and lost are lost.                                                      *)
Accounted(lines, last, lost) ==
  /\ ToSet(lines) \ {Claimed} = (1 .. last) \ lost
  /\ \A i, k \in DOMAIN lines :
       i < k => lines[i] < lines[k] \/ lines[k] = Claimed

(* A sequence with and without one of its elements.                        *)
WithAndWithout(with, without, e, at, n) ==
  /\ n \in Nat /\ at \in 1 .. n + 1 /\ with \in Seq(Nat) /\ without \in Seq(Nat)
  /\ DOMAIN with = 1 .. n + 1 /\ DOMAIN without = 1 .. n
  /\ with[at] = e
  /\ \A i \in 1 .. n : IF i < at THEN with[i] = without[i] ELSE with[i + 1] = without[i]

LEMMA OneElement ==
  ASSUME NEW s \in Seq(Nat), NEW t \in Seq(Nat), NEW e \in Nat
  PROVE  \E at, n : WithAndWithout(Append(s, e) \o t, s \o t, e, at, n)
<1> DEFINE with == Append(s, e) \o t
           without == s \o t
           l == Len(s)
           r == Len(t)
           at == l + 1
<1>1. /\ Append(s, e) \in Seq(Nat) /\ Len(Append(s, e)) = at /\ Append(s, e)[at] = e
      /\ \A i \in 1 .. l : Append(s, e)[i] = s[i]
      /\ l \in Nat /\ r \in Nat
  OBVIOUS
<1>2. /\ with \in Seq(Nat) /\ DOMAIN with = 1 .. at + r
      /\ \A i \in 1 .. at : with[i] = Append(s, e)[i]
      /\ \A i \in 1 .. r : with[at + i] = t[i]
  BY <1>1
<1>3. /\ without \in Seq(Nat) /\ DOMAIN without = 1 .. l + r
      /\ \A i \in 1 .. l : without[i] = s[i]
      /\ \A i \in 1 .. r : without[l + i] = t[i]
  OBVIOUS
<1> HIDE DEF with, without, l, r
<1>4. with[at] = e
  <2>1. at \in 1 .. at
    BY <1>1
  <2>2. QED
    BY <1>1, <1>2, <2>1
<1>5. ASSUME NEW i \in 1 .. l + r
      PROVE  IF i < at THEN with[i] = without[i] ELSE with[i + 1] = without[i]
  <2>1. CASE i < at
    <3>1. i \in 1 .. l /\ i \in 1 .. at
      BY <1>1, <2>1
    <3>2. QED
      BY <1>1, <1>2, <1>3, <2>1, <3>1
  <2>2. CASE ~(i < at)
    <3>1. i - l \in 1 .. r /\ l + (i - l) = i /\ at + (i - l) = i + 1
      BY <1>1, <2>2
    <3>2. without[i] = t[i - l]
      BY <1>3, <3>1
    <3>3. with[i + 1] = t[i - l]
      BY <1>2, <3>1
    <3>4. QED
      BY <2>2, <3>2, <3>3
  <2>3. QED
    BY <2>1, <2>2
<1>6. l + r \in Nat /\ at \in 1 .. l + r + 1 /\ 1 .. at + r = 1 .. l + r + 1
  <2>1. at + r = l + r + 1
    BY <1>1
  <2>2. QED
    BY <1>1, <2>1
<1>7. WithAndWithout(with, without, e, at, l + r)
  BY <1>2, <1>3, <1>4, <1>5, <1>6 DEF WithAndWithout
<1>8. QED
  BY <1>7 DEF with, without

LEMMA WithIt ==
  ASSUME NEW with, NEW without, NEW e, NEW at, NEW n, WithAndWithout(with, without, e, at, n),
         NEW i \in 1 .. n + 1, i # at
  PROVE  \E p \in 1 .. n : with[i] = without[p] /\ p = IF i < at THEN i ELSE i - 1
<1>1. n \in Nat /\ at \in 1 .. n + 1
  BY DEF WithAndWithout
<1>2. CASE i < at
  <2>1. i \in 1 .. n
    BY <1>1, <1>2
  <2>2. with[i] = without[i]
    BY <1>2, <2>1 DEF WithAndWithout
  <2>3. QED
    BY <1>2, <2>1, <2>2
<1>3. CASE ~(i < at)
  <2>1. i - 1 \in 1 .. n /\ ~(i - 1 < at) /\ (i - 1) + 1 = i
    BY <1>1, <1>3
  <2>2. with[(i - 1) + 1] = without[i - 1]
    BY <2>1 DEF WithAndWithout
  <2>3. QED
    BY <1>3, <2>1, <2>2
<1>4. QED
  BY <1>2, <1>3

LEMMA SetWithIt ==
  ASSUME NEW with, NEW without, NEW e, NEW at, NEW n, WithAndWithout(with, without, e, at, n)
  PROVE  ToSet(with) = ToSet(without) \cup {e}
<1>1. /\ DOMAIN with = 1 .. n + 1 /\ DOMAIN without = 1 .. n
      /\ n \in Nat /\ at \in 1 .. n + 1 /\ with[at] = e
  BY DEF WithAndWithout
<1>2. ASSUME NEW i \in 1 .. n  PROVE without[i] \in ToSet(with)
  <2>1. i \in 1 .. n + 1 /\ i + 1 \in 1 .. n + 1
    BY <1>1
  <2>2. without[i] = with[i] \/ without[i] = with[i + 1]
    BY DEF WithAndWithout
  <2>3. QED
    BY <1>1, <2>1, <2>2 DEF ToSet
<1>3. ASSUME NEW i \in 1 .. n + 1, i # at  PROVE with[i] \in ToSet(without)
  <2>1. PICK p \in 1 .. n : with[i] = without[p]
    BY <1>3, WithIt
  <2>2. QED
    BY <1>1, <2>1 DEF ToSet
<1>4. ToSet(with) \subseteq ToSet(without) \cup {e}
  BY <1>1, <1>3 DEF ToSet
<1>5. ToSet(without) \cup {e} \subseteq ToSet(with)
  BY <1>1, <1>2 DEF ToSet
<1>6. QED
  BY <1>4, <1>5

(* The lines of two sequences.                                             *)
LEMMA SetOfBoth ==
  ASSUME NEW s \in Seq(Nat), NEW t \in Seq(Nat)
  PROVE  ToSet(s \o t) = ToSet(s) \cup ToSet(t)
<1> DEFINE u == s \o t
           l == Len(s)
           r == Len(t)
<1>1. /\ DOMAIN u = 1 .. l + r /\ DOMAIN s = 1 .. l /\ DOMAIN t = 1 .. r
      /\ \A i \in 1 .. l : u[i] = s[i]
      /\ \A i \in 1 .. r : u[l + i] = t[i]
      /\ l \in Nat /\ r \in Nat
  OBVIOUS
<1> HIDE DEF u, l, r
<1>2. ASSUME NEW i \in 1 .. l + r  PROVE u[i] \in ToSet(s) \cup ToSet(t)
  <2>1. CASE i \in 1 .. l
    BY <1>1, <2>1 DEF ToSet
  <2>2. CASE i \notin 1 .. l
    <3>1. i - l \in 1 .. r /\ l + (i - l) = i
      BY <1>1, <2>2
    <3>2. u[i] = t[i - l]
      BY <1>1, <3>1
    <3>3. QED
      BY <1>1, <3>1, <3>2 DEF ToSet
  <2>3. QED
    BY <2>1, <2>2
<1>3. ASSUME NEW i \in 1 .. l  PROVE s[i] \in ToSet(u)
  <2>1. i \in 1 .. l + r
    BY <1>1
  <2>2. QED
    BY <1>1, <2>1 DEF ToSet
<1>4. ASSUME NEW i \in 1 .. r  PROVE t[i] \in ToSet(u)
  <2>1. l + i \in 1 .. l + r
    BY <1>1
  <2>2. QED
    BY <1>1, <2>1 DEF ToSet
<1>5. ToSet(u) \subseteq ToSet(s) \cup ToSet(t)
  BY <1>1, <1>2 DEF ToSet
<1>6. ToSet(s) \subseteq ToSet(u) /\ ToSet(t) \subseteq ToSet(u)
  BY <1>1, <1>3, <1>4 DEF ToSet
<1>7. QED
  BY <1>5, <1>6 DEF u

LEMMA SetOfEnds ==
  ASSUME NEW s \in Seq(Nat)
  PROVE  /\ \A e \in Nat : ToSet(Append(s, e)) = ToSet(s) \cup {e}
         /\ s # <<>> => ToSet(Tail(s)) \cup {Head(s)} = ToSet(s)
         /\ ToSet(<<>>) = {}
<1>1. ASSUME NEW e \in Nat  PROVE ToSet(Append(s, e)) = ToSet(s) \cup {e}
  <2>1. /\ DOMAIN Append(s, e) = 1 .. Len(s) + 1 /\ DOMAIN s = 1 .. Len(s) /\ Len(s) \in Nat
        /\ Append(s, e)[Len(s) + 1] = e
        /\ \A i \in 1 .. Len(s) : Append(s, e)[i] = s[i]
    OBVIOUS
  <2>2. \A i : i \in DOMAIN Append(s, e) <=> i \in DOMAIN s \/ i = Len(s) + 1
    BY <2>1
  <2>3. QED
    BY <2>1, <2>2 DEF ToSet
<1>2. ASSUME s # <<>>  PROVE ToSet(Tail(s)) \cup {Head(s)} = ToSet(s)
  <2>1. /\ Head(s) = s[1] /\ Tail(s) \in Seq(Nat) /\ Len(Tail(s)) = Len(s) - 1
        /\ \A i \in 1 .. Len(Tail(s)) : Tail(s)[i] = s[i + 1]
        /\ Len(s) \in Nat \ {0}
    BY <1>2, HeadTailProperties, EmptySeq
  <2>2. DOMAIN s = 1 .. Len(s) /\ DOMAIN Tail(s) = 1 .. Len(s) - 1
    BY <2>1
  <2> DEFINE t == Tail(s)
  <2>3. /\ DOMAIN t = 1 .. Len(s) - 1 /\ \A i \in 1 .. Len(s) - 1 : t[i] = s[i + 1]
    BY <2>1, <2>2
  <2> HIDE DEF t
  <2>4. ASSUME NEW i \in 1 .. Len(s)  PROVE s[i] \in ToSet(t) \cup {Head(s)}
    <3>1. CASE i = 1
      BY <2>1, <3>1
    <3>2. CASE i # 1
      <4>1. i - 1 \in 1 .. Len(s) - 1 /\ (i - 1) + 1 = i
        BY <2>1, <3>2
      <4>2. t[i - 1] = s[i]
        BY <2>3, <4>1
      <4>3. QED
        BY <2>3, <4>1, <4>2 DEF ToSet
    <3>3. QED
      BY <3>1, <3>2
  <2>5. ASSUME NEW i \in 1 .. Len(s) - 1  PROVE t[i] \in ToSet(s)
    <3>1. i + 1 \in 1 .. Len(s)
      BY <2>1
    <3>2. QED
      BY <2>2, <2>3, <3>1 DEF ToSet
  <2>6. 1 \in 1 .. Len(s)
    BY <2>1
  <2>7. ToSet(s) \subseteq ToSet(t) \cup {Head(s)}
    BY <2>2, <2>4 DEF ToSet
  <2>8. ToSet(t) \cup {Head(s)} \subseteq ToSet(s)
    BY <2>1, <2>2, <2>3, <2>5, <2>6 DEF ToSet
  <2>9. QED
    BY <2>7, <2>8 DEF t
<1>3. ToSet(<<>>) = {}
  BY DEF ToSet
<1>4. QED
  BY <1>1, <1>2, <1>3

(* Lines that are taken out of the row are lost, and all of them come      *)
(* after what was ahead of them.                                           *)
LEMMA Dropped ==
  ASSUME NEW x \in Seq(Nat), NEW m \in Seq(Nat), NEW y \in Seq(Nat),
         NEW last \in Nat, NEW lost, Accounted(x \o (m \o y), last, lost)
  PROVE  /\ Accounted(x \o y, last, lost \cup (ToSet(m) \ {Claimed}))
         /\ ToSet(m) \ {Claimed} \subseteq 1 .. last
         /\ \A line \in ToSet(x), n \in ToSet(m) \ {Claimed} : line < n
<1> DEFINE rest == m \o y
           with == x \o rest
           without == x \o y
           a == Len(x)
           c == Len(m)
           r == Len(y)
           d == ToSet(m) \ {Claimed}
<1>1. /\ rest \in Seq(Nat) /\ Len(rest) = c + r
      /\ \A i \in 1 .. c : rest[i] = m[i]
      /\ \A i \in 1 .. r : rest[c + i] = y[i]
      /\ a \in Nat /\ c \in Nat /\ r \in Nat
      /\ DOMAIN x = 1 .. a /\ DOMAIN m = 1 .. c /\ DOMAIN y = 1 .. r
  OBVIOUS
<1>2. ToSet(rest) = ToSet(m) \cup ToSet(y)
  BY SetOfBoth
<1>3. /\ without \in Seq(Nat) /\ DOMAIN without = 1 .. a + r
      /\ \A i \in 1 .. a : without[i] = x[i]
      /\ \A i \in 1 .. r : without[a + i] = y[i]
  OBVIOUS
<1>4. ToSet(without) = ToSet(x) \cup ToSet(y)
  BY SetOfBoth
<1> HIDE DEF rest, without
<1>5. /\ with \in Seq(Nat) /\ DOMAIN with = 1 .. a + Len(rest)
      /\ \A i \in 1 .. a : with[i] = x[i]
      /\ \A i \in 1 .. Len(rest) : with[a + i] = rest[i]
  <2>1. rest \in Seq(Nat)
    BY <1>1
  <2>2. QED
    BY <2>1
<1>6. ToSet(with) = ToSet(x) \cup ToSet(m) \cup ToSet(y)
  BY <1>1, <1>2, SetOfBoth
<1>7. /\ ToSet(with) \ {Claimed} = (1 .. last) \ lost
      /\ \A i, k \in DOMAIN with : i < k => with[i] < with[k] \/ with[k] = Claimed
  BY DEF Accounted, rest
<1> HIDE DEF with, a, c, r
<1>8. a \in Nat /\ c \in Nat /\ r \in Nat
  BY <1>1
<1>9. a + (c + r) = a + c + r
  BY <1>8
<1>10. /\ with \in Seq(Nat) /\ DOMAIN with = 1 .. a + c + r
       /\ \A i \in 1 .. a : with[i] = x[i]
       /\ \A i \in 1 .. c + r : with[a + i] = rest[i]
  BY <1>1, <1>5, <1>9
<1>11. ASSUME NEW i \in 1 .. a, NEW j \in 1 .. c
      PROVE  x[i] < m[j] \/ m[j] = Claimed
  <2>1. i \in 1 .. a + c + r /\ a + j \in 1 .. a + c + r /\ i < a + j /\ j \in 1 .. c + r
    BY <1>8
  <2>2. with[i] = x[i] /\ with[a + j] = m[j]
    BY <1>1, <1>10, <2>1
  <2>3. QED
    BY <1>10, <1>7, <2>1, <2>2
<1>12. ASSUME NEW j \in 1 .. c, NEW k \in 1 .. r
      PROVE  m[j] < y[k] \/ y[k] = Claimed
  <2>1. /\ a + j \in 1 .. a + c + r /\ j \in 1 .. c + r
        /\ a + (c + k) \in 1 .. a + c + r /\ c + k \in 1 .. c + r /\ a + j < a + (c + k)
    BY <1>8
  <2>2. with[a + j] = rest[j] /\ with[a + (c + k)] = rest[c + k]
    BY <1>10, <2>1
  <2>3. rest[j] = m[j] /\ rest[c + k] = y[k]
    BY <1>1
  <2>4. QED
    BY <1>10, <1>7, <2>1, <2>2, <2>3
<1>13. ASSUME NEW i \in 1 .. a + r
       PROVE  \E p \in 1 .. a + c + r :
                without[i] = with[p] /\ p = IF i <= a THEN i ELSE i + c
  <2>1. CASE i <= a
    <3>1. i \in 1 .. a /\ i \in 1 .. a + c + r
      BY <1>8, <2>1
    <3>2. without[i] = with[i]
      BY <1>3, <1>10, <3>1
    <3>3. QED
      BY <2>1, <3>1, <3>2
  <2>2. CASE ~(i <= a)
    <3>1. /\ i - a \in 1 .. r /\ a + (i - a) = i /\ c + (i - a) \in 1 .. c + r
          /\ a + (c + (i - a)) = i + c /\ i + c \in 1 .. a + c + r
      BY <1>8, <2>2
    <3>2. without[a + (i - a)] = y[i - a] /\ rest[c + (i - a)] = y[i - a]
      BY <1>1, <1>3, <3>1
    <3>3. with[a + (c + (i - a))] = rest[c + (i - a)]
      BY <1>10, <3>1
    <3>4. QED
      BY <2>2, <3>1, <3>2, <3>3
  <2>3. QED
    BY <2>1, <2>2
<1>14. ASSUME NEW i \in 1 .. a + r, NEW k \in 1 .. a + r, i < k
       PROVE  without[i] < without[k] \/ without[k] = Claimed
  <2>1. PICK p \in 1 .. a + c + r :
          without[i] = with[p] /\ p = IF i <= a THEN i ELSE i + c
    BY <1>13
  <2>2. PICK q \in 1 .. a + c + r :
          without[k] = with[q] /\ q = IF k <= a THEN k ELSE k + c
    BY <1>13
  <2>3. p < q
    <3>1. p = (IF i <= a THEN i ELSE i + c) /\ q = (IF k <= a THEN k ELSE k + c)
      BY <2>1, <2>2
    <3>2. QED
      BY <1>14, <1>8, <3>1
  <2>4. QED
    BY <1>10, <1>7, <2>1, <2>2, <2>3
<1>15. ASSUME NEW n \in d  PROVE n \notin ToSet(without)
  <2>1. PICK j \in 1 .. c : m[j] = n
    BY <1>1, <1>15 DEF ToSet
  <2>2. n \in Nat /\ n # Claimed
    BY <1>1, <2>1
  <2>3. ASSUME NEW i \in 1 .. a  PROVE x[i] # n
    <3>1. x[i] < n
      BY <1>11, <2>1, <2>2
    <3>2. QED
      BY <2>2, <3>1
  <2>4. ASSUME NEW k \in 1 .. r  PROVE y[k] # n
    <3>1. n < y[k] \/ y[k] = Claimed
      BY <1>12, <2>1
    <3>2. QED
      BY <2>2, <3>1
  <2>5. QED
    BY <1>1, <1>4, <2>3, <2>4 DEF ToSet
<1>16. ToSet(without) \ {Claimed} = (1 .. last) \ (lost \cup d)
  BY <1>4, <1>6, <1>7, <1>15
<1>17. d \subseteq 1 .. last
  BY <1>6, <1>7
<1>18. \A line \in ToSet(x), n \in d : line < n
  BY <1>1, <1>11 DEF ToSet
<1>19. Accounted(without, last, lost \cup d)
  BY <1>3, <1>14, <1>16 DEF Accounted
<1>20. QED
  BY <1>17, <1>18, <1>19 DEF without

(* The same of a single line.                                              *)
LEMMA Lost ==
  ASSUME NEW s \in Seq(Nat), NEW t \in Seq(Nat), NEW e \in Nat, NEW last \in Nat, NEW lost,
         Accounted(Append(s, e) \o t, last, lost)
  PROVE  /\ Accounted(s \o t, last, lost \cup ({e} \ {Claimed}))
         /\ {e} \ {Claimed} \subseteq 1 .. last
         /\ \A line \in ToSet(s), n \in {e} \ {Claimed} : line < n
<1> DEFINE m == <<e>>
<1>1. m \in Seq(Nat) /\ ToSet(m) = {e}
  <2>1. m = Append(<<>>, e) /\ <<>> \in Seq(Nat)
    OBVIOUS
  <2>2. ToSet(<<>>) = {}
    BY <2>1, SetOfEnds
  <2>3. ToSet(Append(<<>>, e)) = ToSet(<<>>) \cup {e}
    BY <2>1, SetOfEnds
  <2>4. m \in Seq(Nat)
    OBVIOUS
  <2>5. QED
    BY <2>1, <2>2, <2>3, <2>4
<1>2. Append(s, e) = s \o m
  OBVIOUS
<1> HIDE DEF m
<1>3. s \o m \o t = s \o (m \o t)
  <2>1. Cat(Cat(s, m), t) = Cat(s, Cat(m, t))
    BY <1>1, CatAssociates
  <2>2. QED
    BY <2>1 DEF Cat
<1>4. Accounted(s \o (m \o t), last, lost)
  BY <1>2, <1>3
<1>5. QED
  BY <1>1, <1>4, Dropped

(* A message without a line enters or leaves.                              *)
LEMMA ClaimedAnywhere ==
  ASSUME NEW s \in Seq(Nat), NEW t \in Seq(Nat), NEW last \in Nat, NEW lost
  PROVE  Accounted(s \o t, last, lost) <=> Accounted(Append(s, Claimed) \o t, last, lost)
<1> DEFINE with == Append(s, Claimed) \o t
           without == s \o t
<1>1. PICK at, n : WithAndWithout(with, without, Claimed, at, n)
  BY OneElement DEF Claimed
<1> HIDE DEF with, without
<1>2. ToSet(with) \ {Claimed} = ToSet(without) \ {Claimed}
  BY <1>1, SetWithIt
<1>3. /\ DOMAIN with = 1 .. n + 1 /\ DOMAIN without = 1 .. n
      /\ n \in Nat /\ at \in 1 .. n + 1 /\ with[at] = Claimed /\ with \in Seq(Nat)
  BY <1>1 DEF WithAndWithout
<1>4. ASSUME \A i, k \in DOMAIN without :
               i < k => without[i] < without[k] \/ without[k] = Claimed,
             NEW i \in DOMAIN with, NEW k \in DOMAIN with, i < k
      PROVE  with[i] < with[k] \/ with[k] = Claimed
  <2>1. CASE k = at
    BY <1>3, <2>1
  <2>2. CASE i = at
    <3>1. with[k] \in Nat
      BY <1>3
    <3>2. with[i] = 0
      BY <1>3, <2>2 DEF Claimed
    <3>3. QED
      BY <3>1, <3>2 DEF Claimed
  <2>3. CASE i # at /\ k # at
    <3>1. i \in 1 .. n + 1 /\ k \in 1 .. n + 1
      BY <1>3
    <3>2. \E p \in 1 .. n : with[i] = without[p] /\ p = IF i < at THEN i ELSE i - 1
      BY <1>1, <2>3, <3>1, WithIt
    <3>3. \E q \in 1 .. n : with[k] = without[q] /\ q = IF k < at THEN k ELSE k - 1
      BY <1>1, <2>3, <3>1, WithIt
    <3>4. PICK p \in 1 .. n : with[i] = without[p] /\ p = IF i < at THEN i ELSE i - 1
      BY <3>2
    <3>5. PICK q \in 1 .. n : with[k] = without[q] /\ q = IF k < at THEN k ELSE k - 1
      BY <3>3
    <3>6. p < q
      <4>1. p = (IF i < at THEN i ELSE i - 1) /\ q = (IF k < at THEN k ELSE k - 1)
        BY <3>4, <3>5
      <4>2. n \in Nat /\ at \in 1 .. n + 1 /\ i < k
        BY <1>3, <1>4
      <4>3. QED
        BY <2>3, <3>1, <4>1, <4>2
    <3>7. QED
      BY <1>3, <1>4, <3>4, <3>5, <3>6
  <2>4. QED
    BY <2>1, <2>2, <2>3
<1>5. Accounted(without, last, lost) <=> Accounted(with, last, lost)
  <2>1. ASSUME Accounted(with, last, lost)  PROVE Accounted(without, last, lost)
    <3>1. Accounted(without, last, lost \cup ({Claimed} \ {Claimed}))
      BY <2>1, Lost DEF with, without, Claimed
    <3>2. lost \cup ({Claimed} \ {Claimed}) = lost
      OBVIOUS
    <3>3. QED
      BY <3>1, <3>2
  <2>2. ASSUME Accounted(without, last, lost)  PROVE Accounted(with, last, lost)
    BY <1>2, <1>4, <2>2 DEF Accounted
  <2>3. QED
    BY <2>1, <2>2
<1>6. QED
  BY <1>5 DEF with, without

(* The driver writes another line.                                         *)
LEMMA Written ==
  ASSUME NEW s \in Seq(Nat), NEW last \in Nat, NEW lost, lost \subseteq 0 .. last,
         Accounted(s, last, lost)
  PROVE  /\ Accounted(Append(s, last + 1), last + 1, lost)
         /\ Accounted(s, last + 1, lost \cup {last + 1})
<1> DEFINE more == Append(s, last + 1)
<1>1. /\ ToSet(s) \ {Claimed} = (1 .. last) \ lost
      /\ \A i, k \in DOMAIN s : i < k => s[i] < s[k] \/ s[k] = Claimed
  BY DEF Accounted
<1>2. /\ more \in Seq(Nat) /\ DOMAIN more = 1 .. Len(s) + 1 /\ DOMAIN s = 1 .. Len(s)
      /\ Len(s) \in Nat /\ more[Len(s) + 1] = last + 1
      /\ \A i \in 1 .. Len(s) : more[i] = s[i]
  OBVIOUS
<1> HIDE DEF more
<1>3. \A i : i \in DOMAIN more <=> i \in DOMAIN s \/ i = Len(s) + 1
  BY <1>2
<1>4. ToSet(more) = ToSet(s) \cup {last + 1}
  BY <1>2, <1>3 DEF ToSet
<1>5. /\ (1 .. last + 1) \ lost = ((1 .. last) \ lost) \cup {last + 1}
      /\ (1 .. last + 1) \ (lost \cup {last + 1}) = (1 .. last) \ lost
      /\ last + 1 # Claimed
  BY DEF Claimed
<1>6. \A i \in DOMAIN s : s[i] < last + 1
  <2>1. \A i \in DOMAIN s : s[i] = Claimed \/ s[i] \in 1 .. last
    BY <1>1 DEF ToSet
  <2>2. QED
    BY <2>1 DEF Claimed
<1>7. ASSUME NEW i \in DOMAIN more, NEW k \in DOMAIN more, i < k
      PROVE  more[i] < more[k] \/ more[k] = Claimed
  <2>1. i \in DOMAIN s /\ i \in 1 .. Len(s)
    BY <1>2, <1>3, <1>7
  <2>2. CASE k = Len(s) + 1
    BY <1>2, <1>6, <2>1, <2>2
  <2>3. CASE k # Len(s) + 1
    <3>1. k \in DOMAIN s /\ k \in 1 .. Len(s)
      BY <1>2, <1>3, <2>3
    <3>2. QED
      BY <1>1, <1>2, <1>7, <2>1, <3>1
  <2>4. QED
    BY <2>2, <2>3
<1>8. Accounted(more, last + 1, lost)
  <2>1. ToSet(more) \ {Claimed} = (1 .. last + 1) \ lost
    BY <1>1, <1>4, <1>5
  <2>2. QED
    BY <1>7, <2>1 DEF Accounted
<1>9. Accounted(s, last + 1, lost \cup {last + 1})
  BY <1>1, <1>5 DEF Accounted
<1>10. QED
  BY <1>8, <1>9 DEF more


(* What a message counts as, and what becomes of Carried as messages enter *)
(* and leave the connection.                                               *)
LineOf(m) == IF m.type = "Log" THEN m.line ELSE Claimed

LEMMA LineTypes ==
  /\ Lines \subseteq Nat
  /\ \A m \in Messages : LineOf(m) \in Nat
  /\ \A n \in Lines : LineOf(LogMsg(n)) = n
  /\ \A r \in Results : LineOf(Complete(r)) = Claimed
  /\ LineOf(Ready) = Claimed
<1>1. Lines \subseteq Nat
  BY DEF Lines
<1>2. ASSUME NEW m \in Messages  PROVE LineOf(m) \in Nat
  BY <1>1, MessageTypes DEF LineOf, Claimed
<1>3. QED
  BY <1>1, <1>2 DEF LineOf, LogMsg, Complete, Ready

LEMMA CarriedLines ==
  ASSUME NEW w \in Seq(Messages)
  PROVE  /\ Carried(w) \in Seq(Nat) /\ Len(Carried(w)) = Len(w)
         /\ \A i \in 1 .. Len(w) : Carried(w)[i] = LineOf(w[i])
<1>1. DOMAIN w = 1 .. Len(w) /\ Len(w) \in Nat /\ \A i \in 1 .. Len(w) : w[i] \in Messages
  OBVIOUS
<1>2. Carried(w) = [i \in 1 .. Len(w) |-> LineOf(w[i])]
  BY <1>1 DEF Carried, LineOf
<1>3. \A i \in 1 .. Len(w) : LineOf(w[i]) \in Nat
  BY <1>1, LineTypes
<1>4. QED
  BY <1>1, <1>2, <1>3, IsASeq

LEMMA CarriedAppend ==
  ASSUME NEW w \in Seq(Messages), NEW m \in Messages
  PROVE  Carried(Append(w, m)) = Append(Carried(w), LineOf(m))
<1> DEFINE more == Append(w, m)
           a == Carried(more)
           b == Append(Carried(w), LineOf(m))
           n == Len(w) + 1
<1>1. /\ more \in Seq(Messages) /\ Len(more) = n /\ more[n] = m
      /\ \A i \in 1 .. Len(w) : more[i] = w[i]
  OBVIOUS
<1> HIDE DEF more
<1>2. a \in Seq(Nat) /\ Len(a) = n /\ \A i \in 1 .. n : a[i] = LineOf(more[i])
  BY <1>1, CarriedLines
<1>3. /\ Carried(w) \in Seq(Nat) /\ Len(Carried(w)) = Len(w) /\ LineOf(m) \in Nat
      /\ \A i \in 1 .. Len(w) : Carried(w)[i] = LineOf(w[i])
  BY CarriedLines, LineTypes
<1>4. /\ b \in Seq(Nat) /\ Len(b) = n /\ b[n] = LineOf(m)
      /\ \A i \in 1 .. Len(w) : b[i] = Carried(w)[i]
  BY <1>3
<1> HIDE DEF a, b
<1>5. ASSUME NEW i \in 1 .. n  PROVE a[i] = b[i]
  <2>1. CASE i = n
    BY <1>1, <1>2, <1>4, <2>1
  <2>2. CASE i \in 1 .. Len(w)
    BY <1>1, <1>2, <1>3, <1>4, <2>2
  <2>3. QED
    BY <2>1, <2>2
<1>6. a = b
  BY <1>2, <1>4, <1>5, SeqEqual
<1>7. QED
  BY <1>6 DEF a, b, more

LEMMA CarriedTail ==
  ASSUME NEW w \in Seq(Messages), w # <<>>
  PROVE  /\ Carried(w) # <<>> /\ Head(Carried(w)) = LineOf(Head(w))
         /\ Carried(Tail(w)) = Tail(Carried(w))
<1> DEFINE a == Carried(Tail(w))
           c == Carried(w)
<1>1. /\ Head(w) = w[1] /\ Tail(w) \in Seq(Messages) /\ Len(Tail(w)) = Len(w) - 1
      /\ \A i \in 1 .. Len(Tail(w)) : Tail(w)[i] = w[i + 1]
      /\ Len(w) \in Nat \ {0}
  BY HeadTailProperties, EmptySeq
<1>2. /\ c \in Seq(Nat) /\ Len(c) = Len(w)
      /\ \A i \in 1 .. Len(w) : c[i] = LineOf(w[i])
  BY CarriedLines
<1>3. /\ a \in Seq(Nat) /\ Len(a) = Len(w) - 1
      /\ \A i \in 1 .. Len(w) - 1 : a[i] = LineOf(Tail(w)[i])
  BY <1>1, CarriedLines
<1> HIDE DEF a, c
<1>4. c # <<>>
  BY <1>1, <1>2, EmptySeq
<1>5. /\ Head(c) = c[1] /\ Tail(c) \in Seq(Nat) /\ Len(Tail(c)) = Len(c) - 1
      /\ \A i \in 1 .. Len(Tail(c)) : Tail(c)[i] = c[i + 1]
  BY <1>2, <1>4, HeadTailProperties
<1>6. Head(c) = LineOf(Head(w))
  BY <1>1, <1>2, <1>5
<1>7. ASSUME NEW i \in 1 .. Len(w) - 1  PROVE a[i] = Tail(c)[i]
  <2>1. i \in 1 .. Len(Tail(w)) /\ i \in 1 .. Len(Tail(c)) /\ i + 1 \in 1 .. Len(w)
    BY <1>1, <1>2, <1>5
  <2>2. QED
    BY <1>1, <1>2, <1>3, <1>5, <2>1
<1>8. a = Tail(c)
  BY <1>2, <1>3, <1>5, <1>7, SeqEqual
<1>9. QED
  BY <1>4, <1>6, <1>8 DEF a, c

-----------------------------------------------------------------------------
(* Ready is the first message of the connection, and the handler reads it  *)
(* as such.                                                                *)
WireInv ==
  /\ guest \in {"off", "init", "root", "connect", "config"} => wire = <<>> /\ buffer = <<>>
  /\ handler = "config" => wire = <<>>
  /\ Connected => handler \notin {"none", "config"}
  /\ handler = "ready" /\ (Connected \/ wire # <<>>) => wire # <<>> /\ Head(wire) = Ready

LEMMA WireInvStep ==
  ASSUME SessionInv, WireInv, [Next]_vars
  PROVE  WireInv'
<1>1. TaskOK /\ GuestOK /\ GuestInv /\ ResultInv /\ wire \in Seq(Messages)
  BY DEF SessionInv, QueuesOK
<1> USE <1>1 DEF vsockVars, bootVars, lineVars, GuestOK, GuestInv, WireInv, Connected, Working
<1>2. CASE NewStep \/ NewFails \/ SetJobConfig \/ StartVm
  BY <1>2 DEF NewStep, NewFails, SetJobConfig, StartVm, Goto, Creating
<1>3. CASE StartFails
  BY <1>3 DEF StartFails
<1>4. CASE ReadResult \/ TryWait \/ SendShutdown \/ TakeCommand \/ SendCompletion
  BY <1>4 DEF ReadResult, TryWait, SendShutdown, TakeCommand, SendCompletion
<1>5. CASE ShutdownVm \/ KillVm
  BY <1>5 DEF ShutdownVm, KillVm, KillProcesses, StopGuest
<1>6. CASE DropVm \/ DropStep \/ EndTask
  BY <1>6 DEF DropVm, DropStep, DropHypervisor, DropVirtiofsd, RemoveRootfs,
         ReleaseGuards, Dropping, StopGuest, EndTask
<1>7. CASE ServerBinds \/ SendConfig \/ StoreResult \/ LoseGuest
  BY <1>7 DEF ServerBinds, SendConfig, StoreResult, LoseGuest
<1>8. CASE ReadReady \/ ReadLog \/ ReadComplete
  BY <1>8 DEF ReadReady, ReadLog, ReadComplete, Reading
<1>9. CASE StreamStep \/ ServiceFails
  BY <1>9 DEF StreamStep, StartStream, PostLine, CloseStream, ServiceFails
<1>10. CASE \/ MountFilesystems \/ SwitchRoot \/ Connect \/ RetryConnect
            \/ ConfigureNetwork \/ SetUpNix \/ CloneRepository \/ FailEarly \/ RunDevenv
            \/ WriteLine \/ Halt
  BY <1>10 DEF MountFilesystems, SwitchRoot, Connect, RetryConnect,
         ConfigureNetwork, SetUpNix, CloneRepository, FailEarly, RunDevenv, WriteLine,
         Halt, GuestGoes, ResultInv
<1>11. CASE ReceiveConfig
  <2>1. <<Ready>> # <<>> /\ Head(<<Ready>>) = Ready
    OBVIOUS
  <2>2. QED
    BY <1>11, <2>1 DEF ReceiveConfig, GuestGoes
<1>12. ASSUME UNCHANGED handler, Connected, Connected', NEW m \in Messages,
              wire' \in {wire, Append(wire, m)}
       PROVE  WireInv'
  <2>1. Append(wire, m) # <<>> /\ (wire # <<>> => Head(Append(wire, m)) = Head(wire))
    OBVIOUS
  <2>2. QED
    BY <1>12, <2>1
<1>13. CASE SendLine
  <2>1. /\ buffer # <<>> /\ Connected /\ UNCHANGED <<guest, handler>>
        /\ wire' \in {wire, Append(wire, LogMsg(Head(buffer)))}
    BY <1>13 DEF SendLine
  <2>2. LogMsg(Head(buffer)) \in Messages
    <3>1. Head(buffer) \in Lines
      BY <2>1, Taken DEF SessionInv, QueuesOK
    <3>2. QED
      BY <3>1, MessageTypes
  <2>3. QED
    BY <1>12, <2>1, <2>2
<1>14. CASE ReportComplete
  <2>1. /\ guest = "report" /\ guest' = "halting" /\ UNCHANGED handler
        /\ wire' \in {wire, Append(wire, Complete(outcome))}
    BY <1>14 DEF ReportComplete, GuestGoes
  <2>2. Complete(outcome) \in Messages
    BY <2>1, MessageTypes
  <2>3. QED
    BY <1>12, <2>1, <2>2
<1>15. CASE HypervisorExits \/ VirtiofsdExits \/ UNCHANGED vars
  BY <1>15 DEF HypervisorExits, VirtiofsdExits, StopGuest, vars
<1>16. QED
  BY <1>2, <1>3, <1>4, <1>5, <1>6, <1>7, <1>8, <1>9, <1>10, <1>11, <1>13, <1>14, <1>15
     DEF Next, TaskStep, HandlerStep, GuestStep

-----------------------------------------------------------------------------
(* No line vanishes while its reader lives *)

(* Some queue of the lines has lost its reader. *)
Ended == stream = "closed" \/ handler = "closed" \/ guest = "over"

LEMMA EndsStay ==
  ASSUME SessionInv, [Next]_vars, Ended
  PROVE  Ended'
<1>1. GuestInv /\ ResultInv
  BY DEF SessionInv
<1> USE <1>1 DEF Ended, vsockVars, logVars, bootVars, lineVars
<1>2. CASE NewStep \/ NewFails \/ StartFails \/ SetJobConfig \/ StartVm
  <2>1. task = "boot" => guest = "off"
    BY DEF GuestInv, Creating
  <2>2. QED
    BY <1>2, <2>1 DEF NewStep, NewFails, StartFails, SetJobConfig, StartVm, Goto
<1>3. CASE \/ ReadResult \/ TryWait \/ SendShutdown \/ TakeCommand \/ ShutdownVm
           \/ KillVm \/ SendCompletion \/ DropVm \/ DropStep \/ EndTask
  BY <1>3 DEF ReadResult, TryWait, SendShutdown, TakeCommand, ShutdownVm, KillVm,
         KillProcesses, StopGuest, SendCompletion, DropVm, DropStep, DropHypervisor,
         DropVirtiofsd, RemoveRootfs, ReleaseGuards, Dropping, EndTask
<1>4. CASE ServerBinds \/ HandlerStep \/ LoseGuest \/ StreamStep \/ ServiceFails
  BY <1>4 DEF ServerBinds, HandlerStep, SendConfig, ReadReady, ReadLog, ReadComplete,
         StoreResult, Reading, LoseGuest, StreamStep, StartStream, PostLine, CloseStream,
         ServiceFails
<1>5. CASE GuestStep
  <2>1. guest = "connect" => handler = "none"
    BY DEF ResultInv
  <2>2. QED
    BY <1>5, <2>1 DEF GuestStep, MountFilesystems, SwitchRoot, Connect, RetryConnect,
         ReceiveConfig, ConfigureNetwork, SetUpNix, CloneRepository, FailEarly,
         RunDevenv, WriteLine, SendLine, ReportComplete, Halt, GuestGoes, Connected, Working
<1>6. CASE HypervisorExits \/ VirtiofsdExits \/ UNCHANGED vars
  BY <1>6 DEF HypervisorExits, VirtiofsdExits, StopGuest, vars
<1>7. QED
  BY <1>2, <1>3, <1>4, <1>5, <1>6 DEF Next, TaskStep

(* The lines that are ahead of any line that may get lost from now on: once *)
(* the log stream is closed, what is in the connection gets lost as well.  *)
Ahead ==
  ToSet(posted) \cup ToSet(logs)
    \cup (IF stream = "closed" THEN {} ELSE ToSet(Carried(wire)))

(* The lines that are lost, those that the writer refused among them.      *)
LinesInv ==
  \E lost :
    /\ Accounted(Underway, written, lost)
    /\ refused \subseteq lost /\ lost \subseteq 1 .. written
    /\ lost # refused => Ended
    /\ \A line \in Ahead, n \in lost \ refused : line < n

(* Four queues in a row, told apart and put together.                      *)
LEMMA Regroup ==
  ASSUME NEW p \in Seq(Nat), NEW l \in Seq(Nat), NEW w \in Seq(Nat), NEW b \in Seq(Nat)
  PROVE  /\ p \o l \in Seq(Nat) /\ w \o b \in Seq(Nat) /\ p \o l \o w \in Seq(Nat)
         /\ p \o l \o w \o b \in Seq(Nat)
         /\ p \o l \o w \o b = (p \o l) \o (w \o b)
<1> DEFINE x == p \o l
<1>1. x \in Seq(Nat) /\ w \o b \in Seq(Nat)
  OBVIOUS
<1> HIDE DEF x
<1>2. x \o w \in Seq(Nat)
  BY <1>1
<1>3. x \o w \o b \in Seq(Nat)
  BY <1>2
<1>4. x \o w \o b = x \o (w \o b)
  <2>1. Cat(Cat(x, w), b) = Cat(x, Cat(w, b))
    BY <1>1, CatAssociates
  <2>2. QED
    BY <2>1 DEF Cat
<1>5. QED
  BY <1>1, <1>2, <1>3, <1>4 DEF x

(* A line moves on by one queue.                                           *)
LEMMA MovesOn ==
  ASSUME NEW p \in Seq(Nat), NEW l \in Seq(Nat), NEW w \in Seq(Nat), NEW b \in Seq(Nat),
         NEW last \in Nat, NEW lost, Accounted(p \o l \o w \o b, last, lost)
  PROVE  /\ l # <<>> => Accounted(Append(p, Head(l)) \o Tail(l) \o w \o b, last, lost)
         /\ w # <<>> => Accounted(p \o Append(l, Head(w)) \o Tail(w) \o b, last, lost)
         /\ b # <<>> => Accounted(p \o l \o Append(w, Head(b)) \o Tail(b), last, lost)
<1> DEFINE x == p \o l
           y == x \o w
<1>1. x \in Seq(Nat)
  OBVIOUS
<1>2. ASSUME l # <<>>  PROVE Append(p, Head(l)) \o Tail(l) = x
  BY <1>2, PassedOn
<1>3. ASSUME w # <<>>  PROVE p \o Append(l, Head(w)) \o Tail(w) = y
  <2>1. Head(w) \in Nat
    BY <1>3, Taken
  <2>2. p \o Append(l, Head(w)) = Append(x, Head(w))
    <3>1. Cat(p, Append(l, Head(w))) = Append(Cat(p, l), Head(w))
      BY <2>1, CatAppend
    <3>2. QED
      BY <3>1 DEF Cat
  <2> HIDE DEF x
  <2>3. Append(x, Head(w)) \o Tail(w) = y
    BY <1>1, <1>3, PassedOn
  <2>4. QED
    BY <2>2, <2>3
<1>4. ASSUME b # <<>>  PROVE x \o Append(w, Head(b)) \o Tail(b) = y \o b
  <2> HIDE DEF x
  <2>1. Head(b) \in Nat /\ Tail(b) \in Seq(Nat) /\ y \in Seq(Nat)
    BY <1>1, <1>4
  <2>2. x \o Append(w, Head(b)) = Append(y, Head(b))
    <3>1. Cat(x, Append(w, Head(b))) = Append(Cat(x, w), Head(b))
      BY <1>1, <2>1, CatAppend
    <3>2. QED
      BY <3>1 DEF Cat
  <2> HIDE DEF y
  <2>3. Append(y, Head(b)) \o Tail(b) = y \o b
    BY <1>4, <2>1, PassedOn
  <2>4. QED
    BY <2>2, <2>3
<1>5. QED
  BY <1>2, <1>3, <1>4

(* A message without a line enters the log or the connection, or leaves    *)
(* the connection.                                                         *)
LEMMA WithoutLine ==
  ASSUME NEW p \in Seq(Nat), NEW l \in Seq(Nat), NEW w \in Seq(Nat), NEW b \in Seq(Nat),
         NEW last \in Nat, NEW lost, Accounted(p \o l \o w \o b, last, lost)
  PROVE  /\ Accounted(p \o Append(l, Claimed) \o w \o b, last, lost)
         /\ Accounted(p \o l \o Append(w, Claimed) \o b, last, lost)
         /\ w # <<>> /\ Head(w) = Claimed => Accounted(p \o l \o Tail(w) \o b, last, lost)
<1> DEFINE x == p \o l
           y == x \o w
           z == Append(x, Claimed)
<1>1. Claimed \in Nat /\ x \in Seq(Nat) /\ w \o b \in Seq(Nat)
  BY DEF Claimed
<1>2. p \o Append(l, Claimed) = z
  BY <1>1, AppendToConcat
<1>3. Accounted(y \o b, last, lost)
  OBVIOUS
<1> HIDE DEF x
<1>4. y \in Seq(Nat) /\ z \in Seq(Nat)
  BY <1>1
<1>5. x \o w \o b = x \o (w \o b)
  <2>1. Cat(Cat(x, w), b) = Cat(x, Cat(w, b))
    BY <1>1, CatAssociates
  <2>2. QED
    BY <2>1 DEF Cat
<1>6. Accounted(z \o w \o b, last, lost)
  <2>1. Accounted(z \o (w \o b), last, lost)
    BY <1>1, <1>3, <1>5, ClaimedAnywhere
  <2> HIDE DEF z
  <2>2. z \o w \o b = z \o (w \o b)
    <3>1. Cat(Cat(z, w), b) = Cat(z, Cat(w, b))
      BY <1>4, CatAssociates
    <3>2. QED
      BY <3>1 DEF Cat
  <2>3. QED
    BY <2>1, <2>2
<1>7. Accounted(x \o Append(w, Claimed) \o b, last, lost)
  <2>1. x \o Append(w, Claimed) = Append(y, Claimed)
    BY <1>1, AppendToConcat
  <2> HIDE DEF y
  <2>2. Accounted(Append(y, Claimed) \o b, last, lost)
    BY <1>3, <1>4, ClaimedAnywhere
  <2>3. QED
    BY <2>1, <2>2
<1>8. ASSUME w # <<>>, Head(w) = Claimed  PROVE Accounted(x \o Tail(w) \o b, last, lost)
  <2> DEFINE t == Tail(w)
  <2>1. t \in Seq(Nat)
    BY <1>8
  <2>2. z \o t = y
    BY <1>1, <1>8, PassedOn
  <2>3. t \o b \in Seq(Nat)
    BY <2>1
  <2> HIDE DEF z, t
  <2>4. z \o t \o b = z \o (t \o b)
    <3>1. Cat(Cat(z, t), b) = Cat(z, Cat(t, b))
      BY <1>4, <2>1, CatAssociates
    <3>2. QED
      BY <3>1 DEF Cat
  <2>5. Accounted(z \o (t \o b), last, lost)
    BY <1>3, <2>2, <2>4
  <2>6. Accounted(x \o (t \o b), last, lost)
    BY <1>1, <2>3, <2>5, ClaimedAnywhere DEF z
  <2>7. x \o t \o b = x \o (t \o b)
    <3>1. Cat(Cat(x, t), b) = Cat(x, Cat(t, b))
      BY <1>1, <2>1, CatAssociates
    <3>2. QED
      BY <3>1 DEF Cat
  <2>8. QED
    BY <2>6, <2>7 DEF t
<1>9. QED
  BY <1>2, <1>6, <1>7, <1>8 DEF x

(* A line is taken from the connection or the writer's channel and thrown  *)
(* away.                                                                   *)
LEMMA Discards ==
  ASSUME NEW p \in Seq(Nat), NEW l \in Seq(Nat), NEW w \in Seq(Nat), NEW b \in Seq(Nat),
         NEW last \in Nat, NEW lost, Accounted(p \o l \o w \o b, last, lost)
  PROVE  /\ w # <<>> =>
              /\ Accounted(p \o l \o Tail(w) \o b, last, lost \cup ({Head(w)} \ {Claimed}))
              /\ {Head(w)} \ {Claimed} \subseteq 1 .. last
              /\ \A line \in ToSet(p \o l), n \in {Head(w)} \ {Claimed} : line < n
         /\ b # <<>> =>
              /\ Accounted(p \o l \o w \o Tail(b), last, lost \cup ({Head(b)} \ {Claimed}))
              /\ {Head(b)} \ {Claimed} \subseteq 1 .. last
              /\ \A line \in ToSet(p \o l \o w), n \in {Head(b)} \ {Claimed} : line < n
<1> DEFINE x == p \o l
           y == x \o w
<1>1. x \in Seq(Nat)
  OBVIOUS
<1>2. Accounted(y \o b, last, lost)
  OBVIOUS
<1> HIDE DEF x
<1>3. y \in Seq(Nat)
  BY <1>1
<1>4. ASSUME w # <<>>
      PROVE  /\ Accounted(x \o Tail(w) \o b, last, lost \cup ({Head(w)} \ {Claimed}))
             /\ {Head(w)} \ {Claimed} \subseteq 1 .. last
             /\ \A line \in ToSet(x), n \in {Head(w)} \ {Claimed} : line < n
  <2> DEFINE z == Append(x, Head(w))
           t == Tail(w)
  <2>1. Head(w) \in Nat /\ t \in Seq(Nat)
    BY <1>4
  <2>2. z \o t = y
    BY <1>1, <1>4, PassedOn
  <2>3. t \o b \in Seq(Nat) /\ z \in Seq(Nat)
    BY <1>1, <2>1
  <2> HIDE DEF z, t
  <2>4. z \o t \o b = z \o (t \o b)
    <3>1. Cat(Cat(z, t), b) = Cat(z, Cat(t, b))
      BY <2>1, <2>3, CatAssociates
    <3>2. QED
      BY <3>1 DEF Cat
  <2>5. Accounted(z \o (t \o b), last, lost)
    BY <1>2, <2>2, <2>4
  <2>6. /\ Accounted(x \o (t \o b), last, lost \cup ({Head(w)} \ {Claimed}))
        /\ {Head(w)} \ {Claimed} \subseteq 1 .. last
        /\ \A line \in ToSet(x), n \in {Head(w)} \ {Claimed} : line < n
    BY <1>1, <2>1, <2>3, <2>5, Lost DEF z
  <2>7. x \o t \o b = x \o (t \o b)
    <3>1. Cat(Cat(x, t), b) = Cat(x, Cat(t, b))
      BY <1>1, <2>1, CatAssociates
    <3>2. QED
      BY <3>1 DEF Cat
  <2>8. QED
    BY <2>6, <2>7 DEF t
<1>5. ASSUME b # <<>>
      PROVE  /\ Accounted(y \o Tail(b), last, lost \cup ({Head(b)} \ {Claimed}))
             /\ {Head(b)} \ {Claimed} \subseteq 1 .. last
             /\ \A line \in ToSet(y), n \in {Head(b)} \ {Claimed} : line < n
  <2>1. Head(b) \in Nat /\ Tail(b) \in Seq(Nat)
    BY <1>5
  <2> HIDE DEF y
  <2>2. Append(y, Head(b)) \o Tail(b) = y \o b
    BY <1>3, <1>5, PassedOn
  <2>3. Accounted(Append(y, Head(b)) \o Tail(b), last, lost)
    BY <1>2, <2>2
  <2>4. QED
    BY <1>3, <2>1, <2>3, Lost
<1>6. QED
  BY <1>4, <1>5 DEF x

(* A queue is gone, with the lines in it.                                  *)
LEMMA QueueGone ==
  ASSUME NEW p \in Seq(Nat), NEW l \in Seq(Nat), NEW w \in Seq(Nat), NEW b \in Seq(Nat),
         NEW last \in Nat, NEW lost, Accounted(p \o l \o w \o b, last, lost)
  PROVE  /\ /\ Accounted(p \o <<>> \o w \o b, last, lost \cup (ToSet(l) \ {Claimed}))
            /\ ToSet(l) \ {Claimed} \subseteq 1 .. last
            /\ \A line \in ToSet(p), n \in ToSet(l) \ {Claimed} : line < n
         /\ /\ Accounted(p \o l \o <<>> \o b, last, lost \cup (ToSet(w) \ {Claimed}))
            /\ ToSet(w) \ {Claimed} \subseteq 1 .. last
            /\ \A line \in ToSet(p \o l), n \in ToSet(w) \ {Claimed} : line < n
         /\ /\ Accounted(p \o l \o w \o <<>>, last, lost \cup (ToSet(b) \ {Claimed}))
            /\ ToSet(b) \ {Claimed} \subseteq 1 .. last
            /\ \A line \in ToSet(p \o l \o w), n \in ToSet(b) \ {Claimed} : line < n
<1> DEFINE x == p \o l
           y == x \o w
           v == w \o b
           gone(s) == ToSet(s) \ {Claimed}
<1>1. /\ x \in Seq(Nat) /\ v \in Seq(Nat) /\ y \in Seq(Nat) /\ y \o b \in Seq(Nat)
      /\ y \o b = x \o v
  <2>1. /\ p \o l \in Seq(Nat) /\ w \o b \in Seq(Nat) /\ p \o l \o w \in Seq(Nat)
        /\ p \o l \o w \o b \in Seq(Nat)
    BY Regroup
  <2> HIDE DEF x
  <2>2. x \o w \o b = x \o (w \o b)
    <3>1. x \in Seq(Nat)
      BY <2>1 DEF x
    <3>2. Cat(Cat(x, w), b) = Cat(x, Cat(w, b))
      BY <3>1, CatAssociates
    <3>3. QED
      BY <3>2 DEF Cat
  <2>3. QED
    BY <2>1, <2>2, Zenon DEF x
<1>2. Accounted(y \o b, last, lost)
  OBVIOUS
<1>3. ASSUME NEW s \in Seq(Nat)  PROVE s \o <<>> = s
  OBVIOUS
<1>4. /\ Accounted(p \o <<>> \o w \o b, last, lost \cup gone(l))
      /\ gone(l) \subseteq 1 .. last
      /\ \A line \in ToSet(p), n \in gone(l) : line < n
  <2> HIDE DEF v
  <2>1. x \o v = p \o (l \o v)
    <3>1. Cat(Cat(p, l), v) = Cat(p, Cat(l, v))
      BY <1>1, CatAssociates
    <3>2. QED
      BY <3>1 DEF Cat
  <2>2. Accounted(p \o (l \o v), last, lost)
    BY <1>1, <1>2, <2>1
  <2>3. /\ Accounted(p \o v, last, lost \cup gone(l))
        /\ gone(l) \subseteq 1 .. last
        /\ \A line \in ToSet(p), n \in gone(l) : line < n
    BY <1>1, <2>2, Dropped
  <2>4. p \o <<>> \o w \o b = p \o v
    <3>1. p \o <<>> = p
      BY <1>3
    <3>2. Cat(Cat(p, w), b) = Cat(p, Cat(w, b))
      BY CatAssociates
    <3>3. QED
      BY <3>1, <3>2 DEF Cat, v
  <2>5. QED
    BY <2>3, <2>4
<1>5. /\ Accounted(x \o <<>> \o b, last, lost \cup gone(w))
      /\ gone(w) \subseteq 1 .. last
      /\ \A line \in ToSet(x), n \in gone(w) : line < n
  <2>1. Accounted(x \o (w \o b), last, lost)
    BY <1>1, <1>2
  <2> HIDE DEF x
  <2>2. x \o <<>> = x
    BY <1>1, <1>3
  <2>3. QED
    BY <1>1, <2>1, <2>2, Dropped
<1>6. /\ Accounted(y \o <<>>, last, lost \cup gone(b))
      /\ gone(b) \subseteq 1 .. last
      /\ \A line \in ToSet(y), n \in gone(b) : line < n
  <2>1. b \o <<>> = b
    BY <1>3
  <2> HIDE DEF y
  <2>2. Accounted(y \o (b \o <<>>), last, lost) /\ <<>> \in Seq(Nat)
    BY <1>2, <2>1
  <2>3. QED
    BY <1>1, <2>2, Dropped
<1>7. QED
  BY <1>4, <1>5, <1>6 DEF x

LEMMA LineSequences ==
  ASSUME NEW s \in Seq(Lines)  PROVE s \in Seq(Nat)
<1>1. DOMAIN s = 1 .. Len(s) /\ Len(s) \in Nat /\ \A i \in 1 .. Len(s) : s[i] \in Lines
  OBVIOUS
<1>2. s = [i \in 1 .. Len(s) |-> s[i]]
  BY <1>1
<1>3. \A i \in 1 .. Len(s) : s[i] \in Nat
  BY <1>1, LineTypes
<1>4. QED
  BY <1>1, <1>2, <1>3, IsASeq

LEMMA LinesInvStep ==
  ASSUME SessionInv, WireInv, LinesInv, [Next]_vars
  PROVE  LinesInv'
<1> DEFINE p == posted
           l == logs
           w == Carried(wire)
           b == buffer
           ahead == ToSet(p) \cup ToSet(l) \cup (IF stream = "closed" THEN {} ELSE ToSet(w))
<1>1. /\ logs \in Seq(Lines) /\ posted \in Seq(Lines) /\ wire \in Seq(Messages)
      /\ buffer \in Seq(Lines) /\ written \in Lines
  BY DEF SessionInv, QueuesOK
<1>2. /\ p \in Seq(Nat) /\ l \in Seq(Nat) /\ w \in Seq(Nat) /\ b \in Seq(Nat)
      /\ written \in Nat
  BY <1>1, LineSequences, LineTypes, CarriedLines
<1>3. PICK lost :
        /\ Accounted(p \o l \o w \o b, written, lost)
        /\ refused \subseteq lost /\ lost \subseteq 1 .. written
        /\ lost # refused => Ended
        /\ \A line \in ahead, n \in lost \ refused : line < n
  BY DEF LinesInv, Underway, Ahead
<1>4. /\ p' = posted' /\ l' = logs' /\ w' = Carried(wire') /\ b' = buffer'
      /\ ahead' = ToSet(p') \cup ToSet(l') \cup (IF stream' = "closed" THEN {} ELSE ToSet(w'))
  BY DEF Carried
<1>5. Underway' = p' \o l' \o w' \o b' /\ Ahead' = ahead'
  BY DEF Underway, Ahead, Carried, ToSet
<1>6. Ended => Ended'
  BY EndsStay
<1> HIDE DEF p, l, w, b, ahead
<1>7. ASSUME NEW gone,
             Accounted(p' \o l' \o w' \o b', written, lost \cup gone),
             gone \subseteq 1 .. written, gone # {} => Ended',
             ahead' \subseteq ahead \cup {Claimed}, \A line \in ahead', n \in gone : line < n,
             UNCHANGED <<written, refused>>
      PROVE  LinesInv'
  <2>1. \A line \in ahead', n \in lost \ refused : line < n
    BY <1>2, <1>3, <1>7 DEF Claimed
  <2>2. /\ refused' \subseteq lost \cup gone /\ lost \cup gone \subseteq 1 .. written'
        /\ lost \cup gone # refused' => Ended'
        /\ \A line \in ahead', n \in (lost \cup gone) \ refused' : line < n
    BY <1>3, <1>6, <1>7, <2>1
  <2>3. QED
    BY <1>5, <1>7, <2>2 DEF LinesInv, Accounted
<1>8. ASSUME Accounted(p' \o l' \o w' \o b', written, lost), ahead' \subseteq ahead \cup {Claimed},
             UNCHANGED <<written, refused>>
      PROVE  LinesInv'
  <2> DEFINE none == {}
  <2>1. /\ lost \cup none = lost /\ none \subseteq 1 .. written /\ (none # {} => Ended')
        /\ \A line \in ahead', n \in none : line < n
    OBVIOUS
  <2> HIDE DEF none
  <2>2. QED
    BY <1>7, <1>8, <2>1
<1>9. ASSUME UNCHANGED <<logs, posted, wire, buffer, written, refused>>,
             stream = "closed" => stream' = "closed"
      PROVE  LinesInv'
  <2>1. p' = p /\ l' = l /\ w' = w /\ b' = b
    BY <1>4, <1>9 DEF p, l, w, b
  <2>2. ahead' \subseteq ahead
    BY <1>4, <1>9, <2>1 DEF ahead
  <2>3. QED
    BY <1>3, <1>8, <1>9, <2>1, <2>2
<1>10. ASSUME UNCHANGED <<logVars, lineVars>>  PROVE LinesInv'
  BY <1>9, <1>10 DEF logVars, lineVars
<1>11. CASE NewStep \/ NewFails \/ StartFails \/ SetJobConfig \/ StartVm
  BY <1>10, <1>11 DEF NewStep, NewFails, StartFails, SetJobConfig, StartVm
<1>12. CASE \/ ReadResult \/ TryWait \/ SendShutdown \/ TakeCommand
            \/ SendCompletion \/ DropVm \/ EndTask
  BY <1>10, <1>12 DEF ReadResult, TryWait, SendShutdown, TakeCommand, SendCompletion,
         DropVm, EndTask
<1>13. CASE ServerBinds \/ SendConfig \/ ServiceFails \/ VirtiofsdExits \/ UNCHANGED vars
  BY <1>9, <1>13 DEF ServerBinds, SendConfig, ServiceFails, VirtiofsdExits, vars, logVars,
         lineVars
<1>14. CASE \/ MountFilesystems \/ SwitchRoot \/ Connect \/ RetryConnect
            \/ ConfigureNetwork \/ SetUpNix \/ CloneRepository \/ RunDevenv
  BY <1>10, <1>14 DEF MountFilesystems, SwitchRoot, Connect, RetryConnect,
         ConfigureNetwork, SetUpNix, CloneRepository, RunDevenv, GuestGoes
<1>15. ASSUME UNCHANGED <<logVars, wire, written, refused>>,
              StopGuest \/ (guest' = "over" /\ buffer' = <<>>)
       PROVE  LinesInv'
  <2>1. CASE guest' = "over" /\ buffer' = <<>>
    <3>1. p' = p /\ l' = l /\ w' = w /\ b' = <<>> /\ stream' = stream
      BY <1>4, <1>15, <2>1 DEF p, l, w, logVars
    <3>2. /\ Accounted(p \o l \o w \o <<>>, written, lost \cup (ToSet(b) \ {Claimed}))
          /\ ToSet(b) \ {Claimed} \subseteq 1 .. written
          /\ \A line \in ToSet(p \o l \o w), n \in ToSet(b) \ {Claimed} : line < n
      BY <1>2, <1>3, QueueGone
    <3>3. ahead' \subseteq ahead /\ ahead' \subseteq ToSet(p \o l \o w)
      <4>1. p \o l \in Seq(Nat)
        BY <1>2
      <4>2. ToSet(p \o l \o w) = ToSet(p) \cup ToSet(l) \cup ToSet(w)
        BY <1>2, <4>1, SetOfBoth
      <4>3. QED
        BY <1>4, <3>1, <4>2 DEF ahead
    <3>4. QED
      BY <1>7, <1>15, <2>1, <3>1, <3>2, <3>3 DEF Ended
  <2>2. CASE guest = "off" /\ buffer' = <<>>
    <3>1. buffer' = buffer
      BY <2>2 DEF WireInv
    <3>2. QED
      BY <1>9, <1>15, <3>1 DEF logVars
  <2>3. QED
    BY <1>15, <2>1, <2>2 DEF StopGuest
<1>16. CASE HypervisorExits \/ KillVm \/ FailEarly \/ Halt
  BY <1>15, <1>16 DEF HypervisorExits, KillVm, KillProcesses, FailEarly, Halt, GuestGoes
<1>17. CASE DropStep
  BY <1>9, <1>15, <1>17 DEF DropStep, DropHypervisor, DropVirtiofsd, RemoveRootfs,
         ReleaseGuards, Dropping, logVars
<1>18. CASE ShutdownVm
  BY <1>9, <1>15, <1>18 DEF ShutdownVm, logVars
<1>19. CASE StoreResult \/ LoseGuest
  <2>1. handler' = "closed" /\ wire' = <<>> /\ UNCHANGED <<logVars, buffer, written, refused>>
    BY <1>19 DEF StoreResult, LoseGuest
  <2>2. Carried(<<>>) = <<>>
    BY DEF Carried
  <2>3. p' = p /\ l' = l /\ w' = <<>> /\ b' = b /\ stream' = stream
    BY <1>4, <2>1, <2>2 DEF p, l, b, logVars
  <2>4. /\ Accounted(p \o l \o <<>> \o b, written, lost \cup (ToSet(w) \ {Claimed}))
        /\ ToSet(w) \ {Claimed} \subseteq 1 .. written
        /\ \A line \in ToSet(p \o l), n \in ToSet(w) \ {Claimed} : line < n
    BY <1>2, <1>3, QueueGone
  <2>5. ahead' \subseteq ahead /\ ahead' \subseteq ToSet(p \o l)
    <3>1. ToSet(<<>>) = {}
      BY <1>2, SetOfEnds
    <3>2. QED
      BY <1>2, <1>4, <2>3, <3>1, SetOfBoth DEF ahead
  <2>6. QED
    BY <1>7, <2>1, <2>3, <2>4, <2>5 DEF Ended
<1>20. CASE CloseStream
  <2>1. stream' = "closed" /\ logs' = <<>> /\ UNCHANGED <<posted, lineVars>>
    BY <1>20 DEF CloseStream
  <2>2. p' = p /\ l' = <<>> /\ w' = w /\ b' = b
    BY <1>4, <2>1 DEF p, w, b, lineVars
  <2>3. /\ Accounted(p \o <<>> \o w \o b, written, lost \cup (ToSet(l) \ {Claimed}))
        /\ ToSet(l) \ {Claimed} \subseteq 1 .. written
        /\ \A line \in ToSet(p), n \in ToSet(l) \ {Claimed} : line < n
    BY <1>2, <1>3, QueueGone
  <2>4. ahead' \subseteq ahead /\ ahead' \subseteq ToSet(p)
    <3>1. ToSet(<<>>) = {}
      BY <1>2, SetOfEnds
    <3>2. QED
      BY <1>4, <2>1, <2>2, <3>1 DEF ahead
  <2>5. QED
    BY <1>7, <2>1, <2>2, <2>3, <2>4 DEF Ended, lineVars
<1>21. ASSUME wire # <<>>, LineOf(Head(wire)) = Claimed, wire' = Tail(wire),
              UNCHANGED <<stream, logs, posted, buffer, written, refused>>
       PROVE  LinesInv'
  <2>1. w # <<>> /\ Head(w) = Claimed /\ w' = Tail(w) /\ p' = p /\ l' = l /\ b' = b
    BY <1>1, <1>4, <1>21, CarriedTail DEF p, l, w, b
  <2>2. Accounted(p \o l \o Tail(w) \o b, written, lost)
    BY <1>2, <1>3, <2>1, WithoutLine
  <2>3. ahead' \subseteq ahead
    <3>1. ToSet(Tail(w)) \subseteq ToSet(w)
      BY <1>2, <2>1, SetOfEnds
    <3>2. QED
      BY <1>4, <1>21, <2>1, <3>1 DEF ahead
  <2>4. QED
    BY <1>8, <1>21, <2>1, <2>2, <2>3
<1>22. CASE ReadReady \/ ReadComplete
  <2>1. /\ wire # <<>> /\ wire' = Tail(wire)
        /\ UNCHANGED <<stream, logs, posted, buffer, written, refused>>
    BY <1>22 DEF ReadReady, ReadComplete, Reading, logVars
  <2>2. LineOf(Head(wire)) = Claimed
    <3>1. CASE ReadReady
      BY <2>1, <3>1, LineTypes DEF ReadReady, WireInv
    <3>2. CASE ReadComplete
      BY <3>2 DEF ReadComplete, LineOf
    <3>3. QED
      BY <1>22, <3>1, <3>2
  <2>3. QED
    BY <1>21, <2>1, <2>2
<1>23. CASE ReadLog
  <2>1. /\ wire # <<>> /\ wire' = Tail(wire)
        /\ UNCHANGED <<stream, posted, buffer, written, refused>>
        /\ Head(wire).line = LineOf(Head(wire))
    BY <1>23 DEF ReadLog, Reading, LineOf
  <2>2. w # <<>> /\ Head(w) = Head(wire).line /\ w' = Tail(w) /\ p' = p /\ b' = b
    BY <1>1, <1>4, <2>1, CarriedTail DEF p, w, b
  <2>3. Head(w) \in Nat /\ ToSet(Tail(w)) \cup {Head(w)} = ToSet(w)
    BY <1>2, <2>2, SetOfEnds, Taken
  <2>4. CASE stream # "closed" /\ logs' = Append(logs, Head(wire).line)
    <3>1. l' = Append(l, Head(w))
      BY <1>4, <2>2, <2>4 DEF l
    <3>2. Accounted(p \o Append(l, Head(w)) \o Tail(w) \o b, written, lost)
      BY <1>2, <1>3, <2>2, MovesOn
    <3>3. ToSet(l') = ToSet(l) \cup {Head(w)}
      BY <1>2, <2>3, <3>1, SetOfEnds
    <3>4. ahead' \subseteq ahead
      BY <1>4, <2>1, <2>2, <2>3, <2>4, <3>3 DEF ahead
    <3>5. QED
      BY <1>8, <2>1, <2>2, <3>1, <3>2, <3>4
  <2>5. CASE stream = "closed" /\ UNCHANGED logs
    <3>1. l' = l
      BY <1>4, <2>5 DEF l
    <3>2. /\ Accounted(p \o l \o Tail(w) \o b, written, lost \cup ({Head(w)} \ {Claimed}))
          /\ {Head(w)} \ {Claimed} \subseteq 1 .. written
          /\ \A line \in ToSet(p \o l), n \in {Head(w)} \ {Claimed} : line < n
      BY <1>2, <1>3, <2>2, Discards
    <3>3. ahead' \subseteq ahead /\ ahead' \subseteq ToSet(p \o l)
      BY <1>2, <1>4, <2>1, <2>2, <2>5, <3>1, SetOfBoth DEF ahead
    <3>4. QED
      BY <1>7, <2>1, <2>2, <2>5, <3>1, <3>2, <3>3 DEF Ended
  <2>6. QED
    BY <1>23, <2>4, <2>5 DEF ReadLog
<1>24. CASE StartStream
  <2>1. /\ stream = "starting" /\ stream' = "open" /\ logs' = Append(logs, Claimed)
        /\ UNCHANGED <<posted, wire, buffer, written, refused>>
    BY <1>24 DEF StartStream, lineVars
  <2>2. l' = Append(l, Claimed) /\ p' = p /\ w' = w /\ b' = b
    BY <1>4, <2>1 DEF p, l, w, b
  <2>3. Accounted(p \o Append(l, Claimed) \o w \o b, written, lost)
    BY <1>2, <1>3, WithoutLine
  <2>4. ahead' \subseteq ahead \cup {Claimed}
    <3>1. ToSet(l') = ToSet(l) \cup {Claimed}
      BY <1>2, <2>2, SetOfEnds DEF Claimed
    <3>2. QED
      BY <1>4, <2>1, <2>2, <3>1 DEF ahead
  <2>5. QED
    BY <1>8, <2>1, <2>2, <2>3, <2>4
<1>25. CASE PostLine
  <2>1. /\ logs # <<>> /\ posted' = Append(posted, Head(logs)) /\ logs' = Tail(logs)
        /\ UNCHANGED <<stream, wire, buffer, written, refused>>
    BY <1>25 DEF PostLine, lineVars
  <2>2. l # <<>> /\ p' = Append(p, Head(l)) /\ l' = Tail(l) /\ w' = w /\ b' = b
    BY <1>4, <2>1 DEF p, l, w, b
  <2>3. Accounted(Append(p, Head(l)) \o Tail(l) \o w \o b, written, lost)
    BY <1>2, <1>3, <2>2, MovesOn
  <2>4. ahead' \subseteq ahead
    <3>1. Head(l) \in Nat /\ ToSet(Tail(l)) \cup {Head(l)} = ToSet(l)
      BY <1>2, <2>2, SetOfEnds, Taken
    <3>2. ToSet(p') = ToSet(p) \cup {Head(l)}
      BY <1>2, <2>2, <3>1, SetOfEnds
    <3>3. QED
      BY <1>4, <2>1, <2>2, <3>1, <3>2 DEF ahead
  <2>5. QED
    BY <1>8, <2>1, <2>2, <2>3, <2>4
<1>26. ASSUME NEW m \in Messages, LineOf(m) = Claimed, wire' = Append(wire, m),
              UNCHANGED <<stream, logs, posted, buffer, written, refused>>
       PROVE  LinesInv'
  <2>1. w' = Append(w, Claimed) /\ p' = p /\ l' = l /\ b' = b
    BY <1>1, <1>4, <1>26, CarriedAppend DEF p, l, w, b
  <2>2. Accounted(p \o l \o Append(w, Claimed) \o b, written, lost)
    BY <1>2, <1>3, WithoutLine
  <2>3. ahead' \subseteq ahead \cup {Claimed}
    <3>1. ToSet(w') = ToSet(w) \cup {Claimed}
      BY <1>2, <2>1, SetOfEnds DEF Claimed
    <3>2. QED
      BY <1>4, <1>26, <2>1, <3>1 DEF ahead
  <2>4. QED
    BY <1>8, <1>26, <2>1, <2>2, <2>3
<1>27. CASE ReceiveConfig
  <2>1. /\ wire = <<>> /\ wire' = <<Ready>>
        /\ UNCHANGED <<stream, logs, posted, buffer, written, refused>>
    BY <1>27 DEF ReceiveConfig, GuestGoes, logVars, WireInv
  <2>2. wire' = Append(wire, Ready) /\ Ready \in Messages /\ LineOf(Ready) = Claimed
    BY <2>1, MessageTypes, LineTypes
  <2>3. QED
    BY <1>26, <2>1, <2>2
<1>28. CASE ReportComplete
  <2>1. guest = "report" /\ UNCHANGED <<stream, logs, posted, buffer, written, refused>>
    BY <1>28 DEF ReportComplete, GuestGoes, logVars
  <2>2. Complete(outcome) \in Messages /\ LineOf(Complete(outcome)) = Claimed
    <3>1. outcome \in Results
      BY <2>1 DEF SessionInv, GuestInv, GuestOK
    <3>2. QED
      BY <3>1, MessageTypes, LineTypes
  <2>3. CASE UNCHANGED wire
    BY <1>9, <2>1, <2>3
  <2>4. CASE wire' = Append(wire, Complete(outcome))
    BY <1>26, <2>1, <2>2, <2>4
  <2>5. QED
    BY <1>28, <2>3, <2>4 DEF ReportComplete
<1>29. CASE WriteLine
  <2>1. written' = written + 1 /\ UNCHANGED <<stream, handler, guest, logs, posted, wire>>
    BY <1>29 DEF WriteLine, logVars, vsockVars, bootVars
  <2>2. p' = p /\ l' = l /\ w' = w
    BY <1>4, <2>1 DEF p, l, w
  <2>3. p \o l \o w \in Seq(Nat) /\ p \o l \o w \o b \in Seq(Nat)
    BY <1>2, Regroup
  <2>4. /\ Accounted(Append(p \o l \o w \o b, written + 1), written + 1, lost)
        /\ Accounted(p \o l \o w \o b, written + 1, lost \cup {written + 1})
    <3>1. lost \subseteq 0 .. written
      BY <1>2, <1>3
    <3>2. QED
      BY <1>2, <1>3, <2>3, <3>1, Written
  <2>5. ahead' = ahead /\ (Ended => Ended')
    BY <1>4, <1>6, <2>1, <2>2 DEF ahead
  <2>6. /\ lost \subseteq 1 .. written' /\ lost \cup {written + 1} \subseteq 1 .. written'
        /\ written + 1 \notin lost
    BY <1>2, <1>3, <2>1
  <2>7. CASE buffer' = Append(buffer, written + 1) /\ UNCHANGED refused
    <3>1. b' = Append(b, written + 1)
      BY <1>4, <2>7 DEF b
    <3>2. p \o l \o w \o Append(b, written + 1) = Append(p \o l \o w \o b, written + 1)
      BY <1>2, <2>3, AppendToConcat
    <3>3. Accounted(p' \o l' \o w' \o b', written', lost)
      BY <2>1, <2>2, <2>4, <3>1, <3>2
    <3>4. /\ refused' \subseteq lost /\ (lost # refused' => Ended')
          /\ \A line \in ahead', n \in lost \ refused' : line < n
      BY <1>3, <2>5, <2>7
    <3>5. QED
      BY <1>5, <2>6, <3>3, <3>4 DEF LinesInv, Accounted
  <2>8. CASE refused' = refused \cup {written + 1} /\ UNCHANGED buffer
    <3>1. b' = b
      BY <1>4, <2>8 DEF b
    <3>2. Accounted(p' \o l' \o w' \o b', written', lost \cup {written + 1})
      BY <2>1, <2>2, <2>4, <3>1
    <3>3. /\ refused' \subseteq lost \cup {written + 1}
          /\ (lost \cup {written + 1} # refused' => Ended')
          /\ \A line \in ahead', n \in (lost \cup {written + 1}) \ refused' : line < n
      BY <1>3, <2>5, <2>6, <2>8
    <3>4. QED
      BY <1>5, <2>6, <3>2, <3>3 DEF LinesInv, Accounted
  <2>9. QED
    BY <1>29, <2>7, <2>8 DEF WriteLine
<1>30. CASE SendLine
  <2>1. /\ buffer # <<>> /\ buffer' = Tail(buffer) /\ Connected
        /\ UNCHANGED <<stream, handler, guest, logs, posted, written, refused>>
    BY <1>30 DEF SendLine, logVars, vsockVars, bootVars
  <2>2. /\ b # <<>> /\ b' = Tail(b) /\ p' = p /\ l' = l /\ Head(b) = Head(buffer)
        /\ Head(b) \in Nat
    BY <1>2, <1>4, <2>1, Taken DEF p, l, b
  <2>3. CASE handler # "closed" /\ wire' = Append(wire, LogMsg(Head(buffer)))
    <3>1. Head(buffer) \in Lines
      BY <1>1, <2>1, Taken
    <3>2. LogMsg(Head(buffer)) \in Messages /\ LineOf(LogMsg(Head(buffer))) = Head(buffer)
      BY <3>1, MessageTypes, LineTypes
    <3>3. w' = Append(w, Head(b))
      BY <1>1, <1>4, <2>2, <2>3, <3>2, CarriedAppend DEF w
    <3>4. Accounted(p \o l \o Append(w, Head(b)) \o Tail(b), written, lost)
      BY <1>2, <1>3, <2>2, MovesOn
    <3>5. stream = "closed" \/ lost = refused
      BY <1>3, <2>1, <2>3 DEF Ended, Connected, Working
    <3>6. CASE stream = "closed"
      <4>1. ahead' = ahead
        BY <1>4, <2>1, <2>2, <3>6 DEF ahead
      <4>2. QED
        BY <1>8, <2>1, <2>2, <3>3, <3>4, <4>1
    <3>7. CASE lost = refused
      <4>1. Accounted(p' \o l' \o w' \o b', written', lost)
        BY <2>1, <2>2, <3>3, <3>4
      <4>2. /\ refused' \subseteq lost /\ lost \subseteq 1 .. written' /\ lost = refused'
        BY <1>3, <2>1, <3>7
      <4>3. QED
        BY <1>5, <4>1, <4>2 DEF LinesInv, Accounted
    <3>8. QED
      BY <3>5, <3>6, <3>7
  <2>4. CASE handler = "closed" /\ UNCHANGED wire
    <3>1. w' = w
      BY <1>4, <2>4 DEF w
    <3>2. /\ Accounted(p \o l \o w \o Tail(b), written, lost \cup ({Head(b)} \ {Claimed}))
          /\ {Head(b)} \ {Claimed} \subseteq 1 .. written
          /\ \A line \in ToSet(p \o l \o w), n \in {Head(b)} \ {Claimed} : line < n
      BY <1>2, <1>3, <2>2, Discards
    <3>3. ahead' = ahead /\ ahead \subseteq ToSet(p \o l \o w)
      <4>1. p \o l \in Seq(Nat)
        BY <1>2
      <4>2. ToSet(p \o l \o w) = ToSet(p) \cup ToSet(l) \cup ToSet(w)
        BY <1>2, <4>1, SetOfBoth
      <4>3. QED
        BY <1>4, <2>1, <2>2, <3>1, <4>2 DEF ahead
    <3>4. QED
      BY <1>7, <2>1, <2>2, <2>4, <3>1, <3>2, <3>3 DEF Ended
  <2>5. QED
    BY <1>30, <2>3, <2>4 DEF SendLine
<1>31. QED
  BY <1>11, <1>12, <1>13, <1>14, <1>16, <1>17, <1>18, <1>19, <1>20, <1>22, <1>23, <1>24,
     <1>25, <1>27, <1>28, <1>29, <1>30
     DEF Next, TaskStep, HandlerStep, StreamStep, GuestStep

LEMMA LinesInit == Init => WireInv /\ LinesInv
<1> SUFFICES ASSUME Init  PROVE WireInv /\ LinesInv
  OBVIOUS
<1>1. WireInv
  BY DEF Init, WireInv, Connected, Working
<1>2. posted = <<>> /\ logs = <<>> /\ wire = <<>> /\ buffer = <<>> /\ written = 0 /\ refused = {}
  BY DEF Init
<1>3. Carried(wire) = <<>>
  BY <1>2 DEF Carried
<1>4. Underway = <<>>
  BY <1>2, <1>3 DEF Underway
<1>5. ToSet(Underway) = {} /\ DOMAIN Underway = {}
  BY <1>4 DEF ToSet
<1>6. /\ Accounted(Underway, written, {}) /\ refused \subseteq {} /\ {} \subseteq 1 .. written
      /\ ({} # refused => Ended) /\ \A line \in Ahead, n \in {} \ refused : line < n
  BY <1>2, <1>5 DEF Accounted
<1>7. LinesInv
  BY <1>6 DEF LinesInv
<1>8. QED
  BY <1>1, <1>7

(* From the driver's tracing layer to the log service a line is never      *)
(* repeated and never overtakes another, and one that VsockWriter accepted *)
(* is lost only with the task that was to read it: the log stream, the     *)
(* handler of the connection or the guest.  Nothing follows a lost line.   *)
THEOREM NoLineVanishes == Spec => []LinesAccountedFor
<1>1. Init => SessionInv /\ WireInv /\ LinesInv
  BY SessionInit, LinesInit
<1>2. (SessionInv /\ WireInv /\ LinesInv) /\ [Next]_vars => (SessionInv /\ WireInv /\ LinesInv)'
  BY SessionStep, WireInvStep, LinesInvStep
<1>3. ASSUME SessionInv, LinesInv  PROVE LinesAccountedFor
  <2>1. PICK lost :
          /\ Accounted(Underway, written, lost)
          /\ refused \subseteq lost /\ lost \subseteq 1 .. written
          /\ lost # refused => Ended
          /\ \A line \in Ahead, n \in lost \ refused : line < n
    BY <1>3 DEF LinesInv
  <2>2. Missing = lost \ refused
    <3>1. Claimed \notin 1 .. written
      BY DEF Claimed
    <3>2. QED
      BY <2>1, <3>1 DEF Accounted, Missing, Accepted
  <2>3. ToSet(posted \o logs) \subseteq Ahead
    <3>1. posted \in Seq(Nat) /\ logs \in Seq(Nat)
      BY <1>3, LineSequences DEF SessionInv, QueuesOK
    <3>2. QED
      BY <3>1, SetOfBoth DEF Ahead
  <2>4. ToSet(Underway) \ {Claimed} \subseteq Accepted
    BY <2>1 DEF Accounted, Accepted
  <2>5. Missing # {} => Ended
    BY <2>1, <2>2
  <2>6. \A n \in Missing, line \in ToSet(posted \o logs) : line < n
    BY <2>1, <2>2, <2>3
  <2>7. QED
    BY <2>1, <2>4, <2>5, <2>6 DEF Accounted, Ended, LinesAccountedFor
<1>4. QED
  BY <1>1, <1>2, <1>3, PTL DEF Spec

-----------------------------------------------------------------------------
(* The VM task implements VmTask *)

LEMMA TaskInit == Init => Contract!Init
<1>1. QED
  BY DEF Init, Contract!Init, Creating

LEMMA TaskImplements ==
  ASSUME SessionInv, [Next]_vars
  PROVE  [Contract!Next]_(Contract!vars)
<1> USE DEF Contract!vars, Contract!Next, Contract!Created, Contract!Stop,
         Contract!End, Contract!Tell, Contract!Drop, Contract!Exits, Creating
<1>1. TaskOK /\ OrderInv /\ ResultInv /\ VsockOK
  BY DEF SessionInv
<1>2. ASSUME UNCHANGED <<task, ordered, status>> PROVE UNCHANGED Contract!vars
  BY <1>2
<1>3. CASE NewStep
  BY <1>1, <1>3 DEF NewStep, AllocateResources, CopyRootfs, SpawnVirtiofsd,
         SpawnHypervisor, WaitForSockets, TakeAddress, DefineVm, Goto
<1>4. CASE NewFails \/ StartFails
  BY <1>1, <1>4 DEF NewFails, StartFails, Goto
<1>5. CASE DropVm \/ DropStep
  BY <1>2, <1>5 DEF DropVm, DropStep, DropHypervisor, DropVirtiofsd, RemoveRootfs,
         ReleaseGuards, Dropping
<1>6. CASE SetJobConfig \/ StartVm
  BY <1>1, <1>6 DEF SetJobConfig, StartVm, Goto, OrderInv
<1>7. CASE ReadResult \/ TryWait
  BY <1>1, <1>7 DEF ReadResult, TryWait, ExitStatus
<1>8. CASE SendShutdown
  BY <1>2, <1>8 DEF SendShutdown
<1>9. CASE TakeCommand
  BY <1>1, <1>9 DEF TakeCommand
<1>10. CASE ShutdownVm
  BY <1>1, <1>10 DEF ShutdownVm, Goto
<1>11. CASE KillVm
  BY <1>1, <1>11 DEF KillVm, TaskOK, Results
<1>12. CASE SendCompletion \/ EndTask
  BY <1>1, <1>12 DEF SendCompletion, EndTask
<1>13. CASE ServerBinds \/ HandlerStep \/ LoseGuest \/ StreamStep \/ ServiceFails
  BY <1>2, <1>13 DEF ServerBinds, HandlerStep, SendConfig, ReadReady, ReadLog,
         ReadComplete, StoreResult, LoseGuest, StreamStep, StartStream, PostLine,
         CloseStream, ServiceFails, taskVars
<1>14. CASE GuestStep \/ HypervisorExits \/ VirtiofsdExits
  BY <1>2, <1>14 DEF GuestStep, MountFilesystems, SwitchRoot, Connect,
         RetryConnect, ReceiveConfig, ConfigureNetwork, SetUpNix, CloneRepository,
         FailEarly, RunDevenv, WriteLine, SendLine, ReportComplete, Halt, GuestGoes,
         HypervisorExits, VirtiofsdExits, taskVars
<1>15. CASE UNCHANGED vars
  BY <1>2, <1>15 DEF vars, taskVars
<1>16. QED
  BY <1>3, <1>4, <1>6, <1>7, <1>8, <1>9, <1>10, <1>11, <1>12, <1>13, <1>14, <1>15, <1>5
     DEF Next, TaskStep

(* vm_task_impl keeps what the rest of the runner builds on, whatever the  *)
(* processes, the guest and the commands do in between: a VM is created or *)
(* not, may be told to stop, ends with one status, the completion task is  *)
(* told once, and only then is the VM dropped.                             *)
THEOREM VmTaskImplemented == Spec => VmTaskKept
<1>1. QED
  BY TaskInit, TaskImplements, SessionInvariant, PTL DEF Spec, VmTaskKept, Contract!Spec

=============================================================================
