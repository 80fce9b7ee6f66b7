------------------------------ MODULE Dispatch ------------------------------
(***************************************************************************)
(* How the backend hands jobs to runners and learns how they ended.        *)
(*                                                                         *)
(* The backend keeps one row per job (jobs), the GitHub check run that     *)
(* shows it (check), and one task per runner connection (pc, cur, rx).     *)
(* HTTP handlers (req) create, cancel and retry jobs, and a periodic task  *)
(* (checker) times jobs out.  An action is a handler's code between two    *)
(* awaits that other tasks can run at.  A runner process is seen from the  *)
(* wire: the messages it reads and writes, its JobManager (local) and the  *)
(* VMs whose resources it holds (vm).                                      *)
(*                                                                         *)
(* Every connection creates a fresh row in runners, so a connection and a  *)
(* runner id are the same thing here.                                      *)
(***************************************************************************)
EXTENDS JobProtocol, Naturals, Sequences, FiniteSets, Functions

CONSTANTS
  Procs,       (* runner processes                                         *)
  Platforms,   (* platforms jobs are created for                           *)
  PlatformOf,  (* the platform each process announces on connection        *)
  MaxJobs,     (* bound: rows the jobs table may receive                   *)
  MaxRunners,  (* bound: connections that may be opened                    *)
  Handlers,    (* bound: HTTP requests in flight at once                   *)
  Cap,         (* capacity of a connection's channel; 32 in the code       *)
  WireCap,     (* bound: messages in one direction of a websocket          *)
  Amounts,     (* what a job may ask for; Resources has CPUs and memory    *)
  Limit,       (* what each process has to give                            *)
  Budget       (* bound: how many faults of each kind may happen           *)

(* A call to GitHub fails, a connection is cut, a runner process dies, the *)
(* backend restarts, a process is told to stop, a VM cannot be created, a  *)
(* job outlives its timeout.                                               *)
FaultKinds ==
  {"github", "network", "runner", "backend", "stop", "launch", "timeout"}

Jobs    == 1 .. MaxJobs      (* uuid v7: ids are ordered by creation *)
Runners == 1 .. MaxRunners

ASSUME DispatchAssumption ==
  /\ PlatformOf \in [Procs -> Platforms]
  /\ MaxJobs \in Nat /\ MaxRunners \in Nat
  /\ Cap \in Nat \ {0} /\ WireCap \in Nat \ {0}
  /\ Amounts \subseteq Nat /\ Limit \in [Procs -> Nat]
  /\ Budget \in [FaultKinds -> Nat]

None == 0   (* NULL in a column that refers to a job or to a runner *)

ASSUME NoProcAssumption == None \notin Procs

VARIABLES
  jobs,      (* table jobs *)
  check,     (* the job's check run; "none" while jobs_github has no row *)
  req,       (* HTTP handlers in flight *)
  checker,   (* job_timeout_checker *)
  owner,     (* the process that opened each connection *)
  pc,        (* where each connection's task is *)
  cur,       (* the status update that task is carrying out *)
  rx,        (* RunnerState: the channel into that task *)
  sock,      (* the websocket under each connection *)
  up, down,  (* messages in flight to the backend, to the process *)
  link,      (* the connection each process uses *)
  local,     (* JobManager.jobs, and whether the backend was told the end *)
  vm,        (* jobs whose VM holds resources of the process *)
  draining,  (* processes that received SIGINT or SIGTERM *)
  faults     (* what is left of Budget *)

dbVars     == <<jobs, check>>
webVars    == <<req, checker>>
connVars   == <<owner, pc, cur, rx>>
wireVars   == <<sock, up, down>>
clientVars == <<link, local, vm, draining>>
vars == <<dbVars, webVars, connVars, wireVars, clientVars, faults>>

-----------------------------------------------------------------------------
(* Rows, messages and the types of the variables *)

Row == [status   : JobStatuses \cup {"absent"},
        platform : Platforms \cup {None},
        demand   : Amounts \cup {0},
        runner   : Runners \cup {None},
        started  : {"null", "recent", "old"},
        finished : BOOLEAN,
        prev     : Jobs \cup {None},
        retried  : Jobs \cup {None}]

NewRow(platform, demand, prev) ==
  [status |-> "queued", platform |-> platform, demand |-> demand, runner |-> None,
   started |-> "null", finished |-> FALSE, prev |-> prev, retried |-> None]

NoRow ==
  [status |-> "absent", platform |-> None, demand |-> 0, runner |-> None,
   started |-> "null", finished |-> FALSE, prev |-> None, retried |-> None]

(* What any task may put in a channel; JobClaimed comes from the task of   *)
(* the connection alone.                                                   *)
Notices ==
  [type : {"NewJobAvailable", "JobTimedOut", "JobCancelled"}, id : Jobs]

ServerMsg == Notices \cup [type : {"JobClaimed"}, id : Jobs]

ClientMsg ==
  [type : {"ClaimJob"}, id : Jobs]
    \cup [type : {"UpdateJobStatus"}, id : Jobs, status : Completions]
    \cup [type : {"RequestJob"}]

Msg(type, j) == [type |-> type, id |-> j]

Idle == [at |-> "idle", job |-> None, to |-> {}]
At(step, j) == [at |-> step, job |-> j, to |-> {}]

Requests ==
  {Idle} \cup [at  : {"link", "broadcast", "retry", "notify", "check"},
               job : Jobs,
               to  : SUBSET Runners]

CheckerStates ==
  [at : {"wait", "each"}, todo : SUBSET Jobs, job : {None}]
    \cup [at : {"complete", "check"}, todo : SUBSET Jobs, job : Jobs]

Updating(c) == pc[c] \in {"check", "stamp", "reply"}

LocalStatuses == {"none", "running", "reported"} \cup Completions

DbTypeOK ==
  /\ jobs \in [Jobs -> Row]
  /\ check \in [Jobs -> {"none"} \cup JobStatuses]

WebTypeOK ==
  /\ req \in [Handlers -> Requests]
  /\ checker \in CheckerStates

ConnTypeOK ==
  /\ owner \in [Runners -> Procs \cup {None}]
  /\ pc \in [Runners -> {"unused", "poll", "idle", "check",
                         "stamp", "reply", "closing", "gone"}]
  /\ cur \in [Runners -> [job : Jobs \cup {None},
                          status : {"running"} \cup Completions]]
  /\ \A c \in Runners : Updating(c) => cur[c].job \in Jobs
  /\ rx \in [Runners -> Seq(Notices)]

WireTypeOK ==
  /\ sock \in [Runners -> {"unused", "open", "closed"}]
  /\ up \in [Runners -> Seq(ClientMsg)]
  /\ down \in [Runners -> Seq(ServerMsg)]

ClientTypeOK ==
  /\ link \in [Procs -> Runners \cup {None}]
  /\ local \in [Procs -> [Jobs -> LocalStatuses]]
  /\ vm \in [Procs -> SUBSET Jobs]
  /\ draining \in SUBSET Procs

(* Types; and a connection that is carrying out an update names a job. *)
TypeOK ==
  /\ DbTypeOK /\ WebTypeOK /\ ConnTypeOK /\ WireTypeOK /\ ClientTypeOK
  /\ faults \in [FaultKinds -> Nat]

NoCur == [job |-> None, status |-> "running"]

Init ==
  /\ jobs = [j \in Jobs |-> NoRow]
  /\ check = [j \in Jobs |-> "none"]
  /\ req = [h \in Handlers |-> Idle]
  /\ checker = [at |-> "wait", todo |-> {}, job |-> None]
  /\ owner = [c \in Runners |-> None]
  /\ pc = [c \in Runners |-> "unused"]
  /\ cur = [c \in Runners |-> NoCur]
  /\ rx = [c \in Runners |-> <<>>]
  /\ sock = [c \in Runners |-> "unused"]
  /\ up = [c \in Runners |-> <<>>]
  /\ down = [c \in Runners |-> <<>>]
  /\ link = [p \in Procs |-> None]
  /\ local = [p \in Procs |-> [j \in Jobs |-> "none"]]
  /\ vm = [p \in Procs |-> {}]
  /\ draining = {}
  /\ faults = Budget

Fault(kind) ==
  /\ faults[kind] > 0
  /\ faults' = [faults EXCEPT ![kind] = @ - 1]

-----------------------------------------------------------------------------
(* RunnerState: the map from a runner id to the channel of its task.  The  *)
(* task registers first and unregisters last, so membership follows pc.    *)

Registered(c) == pc[c] \in {"poll", "idle", "check", "stamp", "reply", "closing"}

CanSendTo(c) == c # None /\ Registered(c) /\ Len(rx[c]) < Cap

(* try_send_to: lost, with FALSE for an answer, when it cannot be queued. *)
TrySendTo(c, m) ==
  rx' = IF CanSendTo(c) THEN [rx EXCEPT ![c] = Append(@, m)] ELSE rx

(* JobGitHub::update_status up to the API call.  It needs the jobs_github  *)
(* row, and GitHub may refuse or be out of reach.                          *)
UpdateCheckRun(j, status) ==
  /\ check[j] # "none"
  /\ check' = [check EXCEPT ![j] = status]
  /\ UNCHANGED faults

CheckRunFails(j) ==
  /\ \/ check[j] = "none" /\ UNCHANGED faults
     \/ Fault("github")
  /\ UNCHANGED check

(* socket.send: to a closed socket it fails, and most callers ignore that. *)
SendDown(c, m) ==
  /\ sock[c] = "open" => Len(down[c]) < WireCap
  /\ down' = IF sock[c] = "open" THEN [down EXCEPT ![c] = Append(@, m)] ELSE down

(* Mutant: completing a job also clears its runner_id. *)
CompletedAndFreed(j, status) ==
  [jobs EXCEPT ![j].status = status, ![j].runner = None]

(* Job::complete: unconditional, whatever the row says by now. *)
Completed(j, status) ==
  [jobs EXCEPT ![j].status = status, ![j].finished = TRUE]

-----------------------------------------------------------------------------
(* HTTP handlers *)

NextJob(j) ==
  /\ jobs[j].status = "absent"
  /\ \A i \in Jobs : i < j => jobs[i].status # "absent"

(* create_job: Job::new commits the row before GitHub hears of the job. *)
CreateJob(h) ==
  /\ req[h] = Idle
  /\ \E j \in Jobs, f \in Platforms, n \in Amounts :
       /\ NextJob(j)
       /\ jobs' = [jobs EXCEPT ![j] = NewRow(f, n, None)]
       /\ req' = [req EXCEPT ![h] = At("link", j)]
  /\ UNCHANGED <<check, checker, connVars, wireVars, clientVars, faults>>

(* create_job and create_with_check_run: the check run, then jobs_github,  *)
(* then broadcast_job_available reads the keys of the map and spawns a     *)
(* task.  On failure the handler returns and nobody is told of the job.    *)
LinkJob(h) ==
  /\ req[h].at = "link"
  /\ \/ /\ check' = [check EXCEPT ![req[h].job] = "queued"]
        /\ LET ids == {c \in Runners : Registered(c)} IN
           req' = [req EXCEPT ![h] = IF ids = {} THEN Idle
                     ELSE [at |-> "broadcast", job |-> @.job, to |-> ids]]
        /\ UNCHANGED faults
     \/ /\ Fault("github")
        /\ req' = [req EXCEPT ![h] = Idle]
        /\ UNCHANGED check
  /\ UNCHANGED <<jobs, checker, connVars, wireVars, clientVars>>

(* Mutant: the broadcast reaches nobody. *)
BroadcastToNobody(h) ==
  /\ req[h].at = "broadcast"
  /\ req' = [req EXCEPT ![h] = Idle]
  /\ UNCHANGED <<dbVars, checker, connVars, wireVars, clientVars, faults>>

(* The spawned task: runners gone since, and full channels, miss it. *)
BroadcastJob(h) ==
  /\ req[h].at = "broadcast"
  /\ LET j == req[h].job IN
     rx' = [c \in Runners |->
              IF /\ c \in req[h].to
                 /\ PlatformOf[owner[c]] = jobs[j].platform
                 /\ CanSendTo(c)
              THEN Append(rx[c], Msg("NewJobAvailable", j))
              ELSE rx[c]]
  /\ req' = [req EXCEPT ![h] = Idle]
  /\ UNCHANGED <<dbVars, checker, owner, pc, cur, wireVars, clientVars, faults>>

(* cancel_job: Job::cancel, in one transaction. *)
CancelJob(h, j) ==
  /\ req[h] = Idle
  /\ IsCancellable(jobs[j].status)
  /\ jobs' = Completed(j, "cancelled")
  /\ req' = [req EXCEPT ![h] =
               At(IF jobs[j].runner # None THEN "notify" ELSE "check", j)]
  /\ UNCHANGED <<check, checker, connVars, wireVars, clientVars, faults>>

NotifyCancelled(h) ==
  /\ req[h].at = "notify"
  /\ LET j == req[h].job IN TrySendTo(jobs[j].runner, Msg("JobCancelled", j))
  /\ req' = [req EXCEPT ![h].at = "check"]
  /\ UNCHANGED <<dbVars, checker, owner, pc, cur, wireVars, clientVars, faults>>

(* Mutant: the handler returns without updating the check run. *)
CancelLeavesCheck(h) ==
  /\ req[h].at = "check"
  /\ req' = [req EXCEPT ![h] = Idle]
  /\ UNCHANGED <<dbVars, checker, connVars, wireVars, clientVars, faults>>

(* The stamp that follows the call only renews finished_at. *)
CheckCancelled(h) ==
  /\ req[h].at = "check"
  /\ UpdateCheckRun(req[h].job, "cancelled") \/ CheckRunFails(req[h].job)
  /\ req' = [req EXCEPT ![h] = Idle]
  /\ UNCHANGED <<jobs, checker, connVars, wireVars, clientVars>>

(* retry_job reads the row and tests is_retryable on what it read ... *)
RetryJob(h, j) ==
  /\ req[h] = Idle
  /\ check[j] # "none"
  /\ IsRetryable(jobs[j].status)
  /\ req' = [req EXCEPT ![h] = At("retry", j)]
  /\ UNCHANGED <<dbVars, checker, connVars, wireVars, clientVars, faults>>

(* ... then Job::retry inserts the new row and links the old one to it. *)
InsertRetry(h) ==
  /\ req[h].at = "retry"
  /\ \E k \in Jobs :
       /\ NextJob(k)
       /\ LET j == req[h].job IN
          jobs' = [jobs EXCEPT ![k] = NewRow(jobs[j].platform, jobs[j].demand, j),
                               ![j].retried = k]
       /\ req' = [req EXCEPT ![h] = At("link", k)]
  /\ UNCHANGED <<check, checker, connVars, wireVars, clientVars, faults>>

-----------------------------------------------------------------------------
(* job_timeout_checker *)

(* The clock passes the job's timeout_seconds. *)
Age(j) ==
  /\ jobs[j].status = "running" /\ jobs[j].started = "recent"
  /\ Fault("timeout")
  /\ jobs' = [jobs EXCEPT ![j].started = "old"]
  /\ UNCHANGED <<check, webVars, connVars, wireVars, clientVars>>

(* find_expired_jobs: a NULL started_at is never below the cutoff. *)
Expired == {j \in Jobs : jobs[j].status = "running" /\ jobs[j].started = "old"}

FindExpired ==
  /\ checker.at = "wait"
  /\ Expired # {}
  /\ checker' = [at |-> "each", todo |-> Expired, job |-> None]
  /\ UNCHANGED <<dbVars, req, connVars, wireVars, clientVars, faults>>

NextExpired(todo) ==
  [at |-> IF todo = {} THEN "wait" ELSE "each", todo |-> todo, job |-> None]

(* Mutant: the checker is content with having tried to tell the runner. *)
NotifyAndForget(j) ==
  /\ checker.at = "each"
  /\ j \in checker.todo
  /\ TrySendTo(jobs[j].runner, Msg("JobTimedOut", j))
  /\ checker' = NextExpired(checker.todo \ {j})
  /\ UNCHANGED <<dbVars, req, owner, pc, cur, wireVars, clientVars, faults>>

NotifyTimedOut(j) ==
  /\ checker.at = "each"
  /\ j \in checker.todo
  /\ TrySendTo(jobs[j].runner, Msg("JobTimedOut", j))
  /\ checker' = IF CanSendTo(jobs[j].runner)
                THEN NextExpired(checker.todo \ {j})
                ELSE [at |-> "complete", todo |-> checker.todo \ {j}, job |-> j]
  /\ UNCHANGED <<dbVars, req, owner, pc, cur, wireVars, clientVars, faults>>

(* The runner cannot be told: the row is completed from the old snapshot. *)
CompleteTimedOut ==
  /\ checker.at = "complete"
  /\ jobs' = Completed(checker.job, "timed_out")
  /\ checker' = [checker EXCEPT !.at = "check"]
  /\ UNCHANGED <<check, req, connVars, wireVars, clientVars, faults>>

CheckTimedOut ==
  /\ checker.at = "check"
  /\ UpdateCheckRun(checker.job, "timed_out") \/ CheckRunFails(checker.job)
  /\ checker' = NextExpired(checker.todo)
  /\ UNCHANGED <<jobs, req, connVars, wireVars, clientVars>>

-----------------------------------------------------------------------------
(* spawn_runner: the task of one connection *)

Candidates(c) ==
  {j \in Jobs : /\ jobs[j].status = "queued"
                /\ jobs[j].runner = None
                /\ jobs[j].platform = PlatformOf[owner[c]]}

OtherPolls(c) == {d \in Runners \ {c} : pc[d] = "poll"}

(* check_and_send_job.  find_queued_job_for_platform skips the rows other  *)
(* connections are selecting at this moment (FOR UPDATE SKIP LOCKED).      *)
CheckAndSendJob(c) ==
  /\ pc[c] = "poll"
  /\ \E locked \in SUBSET Candidates(c) :
       /\ Cardinality(locked) <= Cardinality(OtherPolls(c))
       /\ LET free == Candidates(c) \ locked IN
          \/ free = {} /\ UNCHANGED down
          \/ \E j \in free : /\ \A i \in free : j <= i
                             /\ SendDown(c, Msg("NewJobAvailable", j))
  /\ pc' = [pc EXCEPT ![c] = "idle"]
  /\ UNCHANGED <<dbVars, webVars, owner, cur, rx, sock, up, clientVars, faults>>

Receives(c, type) ==
  /\ pc[c] = "idle"
  /\ up[c] # <<>>
  /\ Head(up[c]).type = type
  /\ up' = [up EXCEPT ![c] = Tail(@)]

(* Mutant: the update has no WHERE status = queued. *)
ClaimAnyJob(c) ==
  /\ Receives(c, "ClaimJob")
  /\ LET j == Head(up[c]).id IN
     /\ jobs' = [jobs EXCEPT ![j].status = "running", ![j].runner = c]
     /\ cur' = [cur EXCEPT ![c] = [job |-> j, status |-> "running"]]
  /\ pc' = [pc EXCEPT ![c] = "check"]
  /\ UNCHANGED <<check, webVars, owner, rx, sock, down, clientVars, faults>>

(* ClaimJob: claim_job_for_runner updates the row only if still queued. *)
HandleClaimJob(c) ==
  /\ Receives(c, "ClaimJob")
  /\ LET j == Head(up[c]).id IN
     IF jobs[j].status = "queued"
     THEN /\ jobs' = [jobs EXCEPT ![j].status = "running", ![j].runner = c]
          /\ pc' = [pc EXCEPT ![c] = "check"]
          /\ cur' = [cur EXCEPT ![c] = [job |-> j, status |-> "running"]]
     ELSE UNCHANGED <<jobs, pc, cur>>
  /\ UNCHANGED <<check, webVars, owner, rx, sock, down, clientVars, faults>>

(* UpdateJobStatus: update_job_status overwrites whatever is there. *)
HandleUpdateJobStatus(c) ==
  /\ Receives(c, "UpdateJobStatus")
  /\ LET m == Head(up[c]) IN
     /\ jobs' = [jobs EXCEPT ![m.id].status = m.status]
     /\ cur' = [cur EXCEPT ![c] = [job |-> m.id, status |-> m.status]]
  /\ pc' = [pc EXCEPT ![c] = "check"]
  /\ UNCHANGED <<check, webVars, owner, rx, sock, down, clientVars, faults>>

HandleRequestJob(c) ==
  /\ Receives(c, "RequestJob")
  /\ pc' = [pc EXCEPT ![c] = "poll"]
  /\ UNCHANGED <<dbVars, webVars, owner, cur, rx, sock, down, clientVars, faults>>

(* Mutants: every update is answered with JobClaimed; the answer has lost  *)
(* the job it is about.                                                    *)
AnswersEveryUpdate(c) == pc' = [pc EXCEPT ![c] = "reply"] /\ UNCHANGED cur

AnswersForNoJob(c) ==
  pc' = [pc EXCEPT ![c] = "reply"] /\ cur' = [cur EXCEPT ![c] = NoCur]

(* What follows update_status: JobClaimed after a claim, else a new poll. *)
AfterUpdate(c) ==
  IF cur[c].status = "running"
  THEN pc' = [pc EXCEPT ![c] = "reply"] /\ UNCHANGED cur
  ELSE pc' = [pc EXCEPT ![c] = "poll"] /\ cur' = [cur EXCEPT ![c] = NoCur]

UpdateCheck(c) ==
  /\ pc[c] = "check"
  /\ \/ UpdateCheckRun(cur[c].job, cur[c].status) /\ pc' = [pc EXCEPT ![c] = "stamp"] /\ UNCHANGED cur
     \/ CheckRunFails(cur[c].job) /\ AfterUpdate(c)
  /\ UNCHANGED <<jobs, webVars, owner, rx, wireVars, clientVars>>

(* update_status after the API call: started_at or finished_at. *)
StampJob(c) ==
  /\ pc[c] = "stamp"
  /\ jobs' = IF cur[c].status = "running"
             THEN [jobs EXCEPT ![cur[c].job].started = "recent"]
             ELSE [jobs EXCEPT ![cur[c].job].finished = TRUE]
  /\ AfterUpdate(c)
  /\ UNCHANGED <<check, webVars, owner, rx, wireVars, clientVars, faults>>

ReplyJobClaimed(c) ==
  /\ pc[c] = "reply"
  /\ SendDown(c, Msg("JobClaimed", cur[c].job))
  /\ pc' = [pc EXCEPT ![c] = "idle"]
  /\ cur' = [cur EXCEPT ![c] = NoCur]
  /\ UNCHANGED <<dbVars, webVars, owner, rx, sock, up, clientVars, faults>>

(* Mutant: messages are forwarded while a claim is still being answered. *)
ForwardAtOnce(c) ==
  /\ pc[c] \in {"idle", "check", "stamp", "reply"}
  /\ rx[c] # <<>>
  /\ SendDown(c, Head(rx[c]))
  /\ rx' = [rx EXCEPT ![c] = Tail(@)]
  /\ UNCHANGED <<dbVars, webVars, owner, pc, cur, sock, up, clientVars, faults>>

(* rx.recv: forwarded to the socket; a failed send ends the task. *)
ForwardToRunner(c) ==
  /\ pc[c] = "idle"
  /\ rx[c] # <<>>
  /\ SendDown(c, Head(rx[c]))
  /\ rx' = [rx EXCEPT ![c] = Tail(@)]
  /\ pc' = [pc EXCEPT ![c] = IF sock[c] = "open" THEN @ ELSE "closing"]
  /\ UNCHANGED <<dbVars, webVars, owner, cur, sock, up, clientVars, faults>>

(* The stream ended; what was not read yet may be lost with it. *)
HangUp(c) ==
  /\ pc[c] = "idle" /\ sock[c] = "closed"
  /\ pc' = [pc EXCEPT ![c] = "closing"]
  /\ UNCHANGED <<dbVars, webVars, owner, cur, rx, wireVars, clientVars, faults>>

UnregisterRunner(c) ==
  /\ pc[c] = "closing"
  /\ pc' = [pc EXCEPT ![c] = "gone"]
  /\ rx' = [rx EXCEPT ![c] = <<>>]
  /\ up' = [up EXCEPT ![c] = <<>>]
  /\ UNCHANGED <<dbVars, webVars, owner, cur, sock, down, clientVars, faults>>

(* The branches of the select! loop, and what runs between two of its     *)
(* rounds.                                                                 *)
ReadSocket(c) ==
  HandleClaimJob(c) \/ HandleUpdateJobStatus(c) \/ HandleRequestJob(c)

ContinueTask(c) ==
  \/ CheckAndSendJob(c) \/ UpdateCheck(c) \/ StampJob(c) \/ ReplyJobClaimed(c)
  \/ HangUp(c) \/ UnregisterRunner(c)

ConnectionStep(c) == ReadSocket(c) \/ ForwardToRunner(c) \/ ContinueTask(c)

-----------------------------------------------------------------------------
(* The runner process, as the backend can observe it *)

Used(p) == SumFunctionOnSet([j \in Jobs |-> jobs[j].demand], vm[p])

(* can_allocate and allocate_resources, for what the message says of the   *)
(* job, which is what the row says; and has_minimal_capacity, for 1 CPU.   *)
CanAllocate(p, amount) == Used(p) + amount <= Limit[p]

HasRoomFor(p, j) == CanAllocate(p, jobs[j].demand)

HasMinimalCapacity(p) == CanAllocate(p, 1)

(* WebSocketClient::new, the initial connection or reconnect_websocket's,  *)
(* followed by check_capacity_and_request_job; spawn_runner registers the  *)
(* connection before it polls.                                             *)
Connect(p) ==
  /\ link[p] = None
  /\ \E c \in Runners :
       /\ pc[c] = "unused"
       /\ \A d \in Runners : d < c => pc[d] # "unused"
       /\ link' = [link EXCEPT ![p] = c]
       /\ owner' = [owner EXCEPT ![c] = p]
       /\ pc' = [pc EXCEPT ![c] = "poll"]
       /\ sock' = [sock EXCEPT ![c] = "open"]
       /\ up' = [up EXCEPT ![c] =
                   IF HasMinimalCapacity(p) THEN <<[type |-> "RequestJob"]>> ELSE <<>>]
  /\ UNCHANGED <<dbVars, webVars, cur, rx, down, local, vm, draining, faults>>

(* read.next() answers None; a process shutting down no longer reads. *)
LoseConnection(p) ==
  /\ link[p] # None /\ sock[link[p]] = "closed"
  /\ p \notin draining
  /\ down' = [down EXCEPT ![link[p]] = <<>>]
  /\ link' = [link EXCEPT ![p] = None]
  /\ UNCHANGED <<dbVars, webVars, connVars, sock, up, local, vm, draining, faults>>

Reads(p, type) ==
  /\ link[p] # None
  /\ p \notin draining
  /\ down[link[p]] # <<>>
  /\ Head(down[link[p]]).type = type
  /\ down' = [down EXCEPT ![link[p]] = Tail(@)]

(* The process dies, with its VMs and its socket, and is started again. *)
Restart(p) ==
  /\ sock' = [c \in Runners |-> IF c = link[p] THEN "closed" ELSE sock[c]]
  /\ down' = [c \in Runners |-> IF c = link[p] THEN <<>> ELSE down[c]]
  /\ link' = [link EXCEPT ![p] = None]
  /\ local' = [local EXCEPT ![p] = [j \in Jobs |-> "none"]]
  /\ vm' = [vm EXCEPT ![p] = {}]
  /\ draining' = draining \ {p}

(* send_message; a connection that is closing swallows what is sent. *)
SendUp(p, m) ==
  LET c == link[p] IN
  /\ sock[c] = "open" => Len(up[c]) < WireCap
  /\ up' = IF sock[c] = "open" THEN [up EXCEPT ![c] = Append(@, m)] ELSE up

(* NewJobAvailable: claimed if it fits now, and declined without a word if *)
(* not; nothing is reserved.                                               *)
ReadNewJobAvailable(p) ==
  /\ Reads(p, "NewJobAvailable")
  /\ LET j == Head(down[link[p]]).id IN
     \/ ~HasRoomFor(p, j) /\ UNCHANGED up
     \/ HasRoomFor(p, j) /\ SendUp(p, Msg("ClaimJob", j))
  /\ UNCHANGED <<dbVars, webVars, connVars, sock, clientVars, faults>>

(* The claim cannot be sent: handle_server_message(..).await.unwrap(). *)
PanicOnClaim(p) ==
  /\ link[p] # None /\ sock[link[p]] = "closed"
  /\ p \notin draining
  /\ down[link[p]] # <<>> /\ Head(down[link[p]]).type = "NewJobAvailable"
  /\ HasRoomFor(p, Head(down[link[p]]).id)
  /\ Restart(p)
  /\ UNCHANGED <<dbVars, webVars, connVars, up, faults>>

(* JobClaimed: register_job, launch_vm, set_job_running.  A VM that cannot *)
(* be created reports a failure, which JobManager rejects if it comes      *)
(* before set_job_running: the job then stays running with no VM.          *)
ReadJobClaimed(p) ==
  /\ Reads(p, "JobClaimed")
  /\ LET j == Head(down[link[p]]).id IN
     \/ /\ HasRoomFor(p, j)
        /\ local' = [local EXCEPT ![p][j] = "running"]
        /\ vm' = [vm EXCEPT ![p] = @ \cup {j}]
        /\ UNCHANGED faults
     \/ /\ (~HasRoomFor(p, j) /\ UNCHANGED faults) \/ Fault("launch")
        /\ \E status \in {"running", "failed"} :
             local' = [local EXCEPT ![p][j] = status]
        /\ UNCHANGED vm
  /\ UNCHANGED <<dbVars, webVars, connVars, sock, up, link, draining>>

(* JobManager::update_job_status for an outcome decided on this process. *)
Decide(p, j, status) ==
  local' = [local EXCEPT ![p][j] = IF @ = "running" THEN status ELSE @]

(* JobTimedOut and JobCancelled: complete_job, then shutdown_vm. *)
ReadJobTimedOut(p) ==
  /\ Reads(p, "JobTimedOut")
  /\ Decide(p, Head(down[link[p]]).id, "timed_out")
  /\ UNCHANGED <<dbVars, webVars, connVars, sock, up, link, vm, draining, faults>>

ReadJobCancelled(p) ==
  /\ Reads(p, "JobCancelled")
  /\ Decide(p, Head(down[link[p]]).id, "cancelled")
  /\ UNCHANGED <<dbVars, webVars, connVars, sock, up, link, vm, draining, faults>>

(* The VM exits and the completion task records how. *)
FinishJob(p, j) ==
  /\ j \in vm[p] /\ local[p][j] = "running"
  /\ \E status \in {"success", "failed"} : Decide(p, j, status)
  /\ UNCHANGED <<dbVars, webVars, connVars, wireVars, link, vm, draining, faults>>

(* The resource guard of the VM releases, some time after its end is known. *)
ReleaseVm(p, j) ==
  /\ j \in vm[p] /\ local[p][j] # "running"
  /\ vm' = [vm EXCEPT ![p] = @ \ {j}]
  /\ UNCHANGED <<dbVars, webVars, connVars, wireVars, link, local, draining, faults>>

(* The main loop passes the end on, once, and asks for another job. *)
ReportJob(p, j) ==
  /\ link[p] # None
  /\ local[p][j] \in Completions
  /\ local' = [local EXCEPT ![p][j] = "reported"]
  /\ LET c == link[p]
         update == [type |-> "UpdateJobStatus", id |-> j, status |-> local[p][j]]
         more == IF HasMinimalCapacity(p) /\ p \notin draining
                 THEN <<[type |-> "RequestJob"]>> ELSE <<>>
     IN  IF sock[c] = "open"
         THEN /\ Len(up[c]) < WireCap
              /\ up' = [up EXCEPT ![c] = Append(@, update) \o more]
         ELSE UNCHANGED up
  /\ UNCHANGED <<dbVars, webVars, connVars, sock, down, link, vm, draining, faults>>

(* A shutdown signal, and the exit once no job is active: an end that is   *)
(* decided but not passed on is not active any more.                       *)
Drain(p) ==
  /\ link[p] # None
  /\ p \notin draining
  /\ Fault("stop")
  /\ draining' = draining \cup {p}
  /\ UNCHANGED <<dbVars, webVars, connVars, wireVars, link, local, vm>>

ExitGracefully(p) ==
  /\ p \in draining
  /\ \A j \in Jobs : local[p][j] # "running"
  /\ Restart(p)
  /\ UNCHANGED <<dbVars, webVars, connVars, up, faults>>

Reconnect(p) == LoseConnection(p) \/ Connect(p)

(* handle_server_message *)
ReadMessage(p) ==
  \/ ReadNewJobAvailable(p) \/ ReadJobClaimed(p)
  \/ ReadJobTimedOut(p) \/ ReadJobCancelled(p)

ClientStep(p) ==
  \/ Reconnect(p) \/ ReadMessage(p) \/ PanicOnClaim(p)
  \/ \E j \in Jobs : FinishJob(p, j) \/ ReleaseVm(p, j) \/ ReportJob(p, j)
  \/ Drain(p) \/ ExitGracefully(p)

-----------------------------------------------------------------------------
(* Crashes and cut connections *)

CrashRunner(p) ==
  /\ Fault("runner")
  /\ Restart(p)
  /\ UNCHANGED <<dbVars, webVars, connVars, up>>

CutConnection(c) ==
  /\ Fault("network")
  /\ sock[c] = "open"
  /\ sock' = [sock EXCEPT ![c] = "closed"]
  /\ UNCHANGED <<dbVars, webVars, connVars, up, down, clientVars>>

(* The backend restarts: handlers, connections and the runner map go, the  *)
(* database and GitHub stay.                                               *)
RestartBackend ==
  /\ Fault("backend")
  /\ req' = [h \in Handlers |-> Idle]
  /\ checker' = NextExpired({})
  /\ pc' = [c \in Runners |-> IF pc[c] = "unused" THEN "unused" ELSE "gone"]
  /\ rx' = [c \in Runners |-> <<>>]
  /\ sock' = [c \in Runners |-> IF sock[c] = "open" THEN "closed" ELSE sock[c]]
  /\ up' = [c \in Runners |-> <<>>]
  /\ cur' = [c \in Runners |-> NoCur]
  /\ UNCHANGED <<dbVars, owner, down, clientVars>>

HandlerStep(h) ==
  \/ LinkJob(h) \/ BroadcastJob(h)
  \/ NotifyCancelled(h) \/ CheckCancelled(h) \/ InsertRetry(h)

CheckerStep ==
  \/ FindExpired
  \/ \E j \in Jobs : NotifyTimedOut(j)
  \/ CompleteTimedOut \/ CheckTimedOut

Next ==
  \/ \E h \in Handlers :
       \/ CreateJob(h) \/ HandlerStep(h)
       \/ \E j \in Jobs : CancelJob(h, j) \/ RetryJob(h, j)
  \/ \E j \in Jobs : Age(j)
  \/ CheckerStep
  \/ \E c \in Runners : ConnectionStep(c) \/ CutConnection(c)
  \/ \E p \in Procs : ClientStep(p) \/ CrashRunner(p)
  \/ RestartBackend

Spec == Init /\ [][Next]_vars

(* Tasks that can run do run, time passes, and a runner process keeps      *)
(* reading, reporting and reconnecting.  Users, VMs, faults and signals    *)
(* owe nothing.                                                            *)
Fairness ==
  /\ \A h \in Handlers : WF_vars(HandlerStep(h))
  /\ \A j \in Jobs : WF_vars(Age(j))
  /\ WF_vars(CheckerStep)
  /\ \A c \in Runners :
       /\ WF_vars(ReadSocket(c)) /\ WF_vars(ForwardToRunner(c))
       /\ WF_vars(ContinueTask(c))
  /\ \A p \in Procs :
       /\ WF_vars(Reconnect(p)) /\ WF_vars(ReadMessage(p))
       /\ WF_vars(ExitGracefully(p))
       /\ \A j \in Jobs : WF_vars(ReleaseVm(p, j)) /\ WF_vars(ReportJob(p, j))

FairSpec == Spec /\ Fairness

(* The same, where every VM ends some day. *)
VmsEnd == \A p \in Procs, j \in Jobs : WF_vars(FinishJob(p, j))

EndingSpec == FairSpec /\ VmsEnd

-----------------------------------------------------------------------------
(* Correctness *)

Complete(j) == jobs[j].status \in Completions

(* A job runs on one process only: whoever was granted it, holds it in its *)
(* JobManager or reports its end is the process behind the runner_id of    *)
(* the row.  Guards against two runners claiming one offer                 *)
(* (claim_job_for_runner).                                                 *)
GrantsFollowLedger ==
  /\ \A p \in Procs, j \in Jobs : local[p][j] # "none" =>
       jobs[j].runner # None /\ owner[jobs[j].runner] = p
  /\ \A c \in Runners : \A m \in Range(down[c]) :
       m.type = "JobClaimed" => jobs[m.id].runner = c
  /\ \A c \in Runners : \A m \in Range(up[c]) :
       m.type = "UpdateJobStatus" =>
         jobs[m.id].runner # None /\ owner[jobs[m.id].runner] = owner[c]

(* runner_id is set by a claim, never before, and names a connection.      *)
RowsInv ==
  \A j \in Jobs :
    /\ jobs[j].status \in {"absent", "queued"} => jobs[j].runner = None
    /\ jobs[j].status = "running" => jobs[j].runner # None
    /\ jobs[j].runner # None => owner[jobs[j].runner] # None

(* A connection has an owner once it is opened, and no other process       *)
(* speaks on it.                                                           *)
LinksInv ==
  /\ \A c \in Runners : owner[c] = None <=> pc[c] = "unused"
  /\ \A p \in Procs : link[p] # None => owner[link[p]] = p

(* A task that is answering a claim holds the job; any other update, and   *)
(* any job the checker looks at, is about a job that was claimed.          *)
TasksInv ==
  /\ \A c \in Runners :
       /\ pc[c] = "reply" => cur[c].status = "running"
       /\ Updating(c) =>
            IF cur[c].status = "running"
            THEN jobs[cur[c].job].runner = c
            ELSE jobs[cur[c].job].runner # None
  /\ \A j \in checker.todo : jobs[j].runner # None
  /\ checker.at \in {"complete", "check"} => jobs[checker.job].runner # None

(* The inductive invariant behind GrantsFollowLedger and JobNeverReopens.  *)
LedgerInv == RowsInv /\ LinksInv /\ TasksInv /\ GrantsFollowLedger

(* JobCancelled and JobTimedOut never overtake JobClaimed: a runner that   *)
(* is reading its connection knows the job by then, so JobManager will not *)
(* answer "Job not found" and start the job afterwards.                    *)
ControlFollowsClaim ==
  \A p \in Procs : link[p] # None /\ sock[link[p]] = "open" =>
    LET msgs == down[link[p]] IN
    \A i \in DOMAIN msgs : msgs[i].type \in {"JobCancelled", "JobTimedOut"} =>
      \/ local[p][msgs[i].id] # "none"
      \/ \E k \in 1 .. i - 1 : msgs[k] = Msg("JobClaimed", msgs[i].id)

(* A row with a predecessor is a retry of a job that is over, on the same  *)
(* platform, and the old row leads on to a retry of it.                    *)
RetryLineage ==
  \A k \in Jobs : jobs[k].prev # None =>
    LET j == jobs[k].prev IN
    /\ Complete(j) /\ jobs[j].platform = jobs[k].platform
    /\ jobs[j].retried # None /\ jobs[jobs[j].retried].prev = j

(* However handlers, connections and the checker interleave, a job that is *)
(* over is never queued or run again, a job never changes its runner, and  *)
(* one that was never claimed can only be claimed or cancelled.            *)
JobNeverReopens ==
  [][\A j \in Jobs :
       /\ Complete(j) => Complete(j)'
       /\ jobs[j].runner # None => jobs[j].runner' = jobs[j].runner
       /\ jobs[j].status = "queued" =>
            jobs[j].status' \in {"queued", "running", "cancelled"}]_jobs

(* A job whose start was recorded ends, whatever becomes of its VM, its    *)
(* runner, the connection and the backend - unless its process is shutting *)
(* down and has stopped listening.                                         *)
StartedJobEnds ==
  \A j \in Jobs :
    jobs[j].status = "running" /\ jobs[j].started # "null"
      ~> \/ Complete(j)
         \/ jobs[j].runner # None /\ owner[jobs[j].runner] \in draining

(* Every runner process that serves the job's platform is large enough,    *)
(* and there is one.                                                       *)
FitsEverywhere(j) ==
  LET serving == {p \in Procs : PlatformOf[p] = jobs[j].platform}
  IN serving # {} /\ \A p \in serving : jobs[j].demand <= Limit[p]

(* A job that has the backend to itself, and that fits the limits of every *)
(* runner of its platform, is claimed or cancelled in the end, whichever   *)
(* runners miss its broadcast, poll too early or skip its row. No more can *)
(* be said.  A job too large for some runner may stay queued although      *)
(* another could run it: the one it is offered to declines, and the other  *)
(* has asked while the row was locked.  With a second job an offer that is *)
(* declined, or whose job is cancelled before the claim, is not followed   *)
(* by another.                                                             *)
LoneJobIsTaken ==
  \A j \in Jobs :
    [](\A i \in Jobs \ {j} : jobs[i].status = "absent") =>
      (jobs[j].status = "queued" /\ FitsEverywhere(j) ~> jobs[j].status # "queued")

(* Once a queued job has its check run, the end of the job shows there,    *)
(* in whatever order claims, cancellations and reports reach GitHub.       *)
CheckRunSettles ==
  \A j \in Jobs :
    [](jobs[j].status = "queued" /\ check[j] = "queued" =>
         [](Complete(j) => <>(check[j] \in Completions)))

-----------------------------------------------------------------------------
(* What comments in the code say, and the code does not do *)

(* job/model.rs, cancel: "Uses SELECT FOR UPDATE to prevent race           *)
(* conditions"; job/serve.rs: "the model's cancel method which handles     *)
(* locking and race conditions".                                           *)
CancelledStaysCancelled ==
  [][\A j \in Jobs : jobs[j].status = "cancelled" =>
       jobs[j].status' = "cancelled"]_jobs

(* job/model.rs, find_expired_jobs: "Find in-progress jobs that have       *)
(* exceeded the timeout period".                                           *)
RunningJobTimesOut ==
  \A j \in Jobs : jobs[j].status = "running" ~> Complete(j)

==============================================================================
