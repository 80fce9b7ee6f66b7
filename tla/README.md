# cloud.devenv.sh: verification project

TLA+ models of the parts of cloud.devenv.sh that carry its own logic, TLC runs
over small instances of them, and TLAPS proofs for every instance. Paths are
relative to the repository root; `runner.rs` is `src/runner/src/bin/runner.rs`
and `serve.rs`, unless another directory is named, is
`src/backend/src/runner/serve.rs`.

To repeat: `tlc -config <run>.cfg <module>` for each run in `PROJECT.json`,
`tlapm <module>.tla` for `DispatchProofs`, `LineageProofs`, `ResourcesProofs`,
`RunnerProofs`, `VmSessionProofs`, `LogStreamProofs`, `LogViewersProofs`,
`WebhookProofs`.

## 1. The system

A push to a GitHub repository becomes *jobs*. The **backend** keeps them in
PostgreSQL and shows each as a GitHub check run. **Runners**, one process per
build machine, hold a websocket to the backend, are offered queued jobs for
their platform, claim them, run each in a VM of its own, and report how it
ended. The VM streams its log to the **log service**, from which the **front
end** reads it live.

| component | state | operations | talks to |
|---|---|---|---|
| Job dispatch, backend (`backend/src/runner/serve.rs`, `backend/src/job/`) | `jobs` and `runners` tables; in memory the map from runner id to the channel of its connection task | one task per connection: poll and offer, claim, update, forward; `create_job`, `cancel_job`, `retry_job`; broadcast; `job_timeout_checker` every 30 s | runners by websocket, GitHub by HTTP, all tasks through the rows and the channels |
| GitHub jobs and check runs (`backend/src/github/model.rs`) | `jobs_github`, check runs at GitHub | `create_job`, `create_with_check_run`, `update_status`, which also stamps `started_at`/`finished_at` | called by all of the above |
| Webhook, repository pages (`backend/src/github/serve.rs`, `cloudconfig.rs`) | owners, installations, repositories, commits | upserts, fan-out of a push into jobs | dispatch |
| Runner process (`runner.rs`, `client.rs`, `job_manager.rs`, `vm_manager.rs`) | `JobManager.jobs` under a lock, control channels, three bounded channels, `shutting_down` | main loop, completion task, a task per VM | backend, VM drivers, resource manager |
| Resource manager (`resource_manager.rs`) | CPU and memory counters, pools of IP addresses and CIDs | allocate, release by guards whose drop spawns a task | VM drivers, main loop |
| VM driver (`vm_impl/`, `vm.rs`) | hypervisor and virtiofsd processes, root directory, guards, job result | create, start, wait, shutdown, drop | hypervisor API, guest |
| VM session (`vsock.rs`, `bin/driver.rs`) | job configuration, result, log channel | serve the configuration, accept log lines, record the result | guest, driver |
| Guest init, launcher (`init/`, `bin/launcher.rs`) | none that outlives a VM | mount, run the driver, power off | driver |
| Log service (`logger/`) | lines by job and number in a key-value store | post, stream by repeated scans | runner, front end |
| Front end (`frontend/`) | log viewers of the page, state objects and event sources of their connections | open, filter and close a viewer; connect, retry, batch | backend, log service |
| Authentication, accounts, set-up, configuration | none of its own | token introspection, start-up | Zitadel |

What is hard, by component (each item is a row of `hazards` in `PROJECT.json`,
at its line):

- *Dispatch*: any number of connection tasks, HTTP handlers and the timeout
  checker read a row, wait (for the database, GitHub or a channel) and then
  write. A job may be claimed by several runners, cancelled while it is
  reported, timed out from a stale row, or retried twice; notices to a runner
  are dropped silently when its channel is full or it has reconnected under a
  new id; the backend forgets every connection when it restarts. *Correct
  means*: one process per job, no job returns from its end to the queue, a job
  that started ends, the check run follows, a retry follows a job that is over.
- *Runner*: a VM may fail before the job is marked running, an order may arrive
  while the VM is being built, the completion races the order, and the sole
  reader of the status channel is one of its writers. *Correct means*: one end
  per job, told once; an order reaches the VM; a process told to stop exits.
- *Resources*: a test and the allocation it justifies are far apart, release
  happens in tasks spawned by drops, and creation can fail after any number of
  guards was taken. *Correct means*: nothing oversubscribed, leaked or given
  back twice.
- *VM session*: a result is stored by one task, a process is polled by another
  and a command cancels the poll anywhere; lines pass three bounded channels and
  a log service that may stall; `LinuxVm::new` can fail after any of its steps.
  *Correct means*: a success has a reason, a report or a command ends the VM,
  lines are lost only where the code says so, nothing outlives its guards.
- *Log service, viewers*: lines are stored while a reader scans; scans fail and
  are repeated; viewers are closed and opened while timers hold their old state.
  *Correct means*: no stored line is passed over, an id has one connection, what
  is on the screen is what the filters select.
- *Webhook*: deliveries are handled concurrently, in any order, more than once,
  without transactions and with calls of GitHub in the middle. *Correct means*:
  a commit gets the jobs of one configuration or an error; the tables follow
  GitHub as long as deliveries are handled in order.

## 2. Plan

| step | modules | questions | state |
|---|---|---|---|
| 1 | `JobProtocol`, `Dispatch`, `MCDispatch`, `DispatchProofs`, `LineageProofs` | who owns a job, how does it end | done |
| 2 | `AddressPool`, `Resources`, `MCResources`, `ResourcesProofs` | are counters and pools exact | done |
| 3 | `VmTask`, `Runner`, `MCRunner`, `RunnerProofs` | does every VM's end get out of the process | done |
| 4 | `VmSession`, `MCVmSession`, `VmSessionProofs` | how does a VM end, and with what result and log | done |
| 5 | `LogFeed`, `LogStream`, `MCLogStream`, `LogStreamProofs`, `LogViewers`, `MCLogViewers`, `LogViewersProofs` | does a line reach the reader, and the screen | done |
| 6 | `CloudConfig`, `Webhook`, `MCWebhook`, `WebhookProofs` | fan-out of a push, repeated and reordered deliveries | done |
| 7 | proofs | every safety property of the runs for every instance (section 10) | done |

Abstract specifications: `AddressPool` (implemented by each pool of
`Resources`), `VmTask` (by the VM tasks of `Runner`, which is built on it, and by
`VmSession`, which shows how a Linux VM keeps it) and `LogFeed` (by every stream
of `LogStream`). Runs are few by intention: one for each question.

How modules compose: `JobProtocol` is shared vocabulary; `Dispatch` joins the
backend and the runners as seen from the wire; `Runner` and `Resources` open up
two parts of that runner. `Runner` takes from `Dispatch` that a job is granted
once and that no order overtakes the grant (`ControlFollowsClaim`, checked
there). `Resources` leaves to `Runner` when an attempt starts and ends.
`Runner` and `VmSession` meet in `VmTask`: in the first a VM's creation and end
are choices, in the second they are explained, and both are shown to be the same
task. `LogViewers` takes from `LogStream` that a connection brings the lines from
the first one on, each in time (`FeedKept`, `LinesArrive`). `Webhook` opens up
what is `CreateJob` in `Dispatch`.

## 3. Dispatch

A variable is a table (`jobs`, `check`), the state of a task (`req`, `checker`,
`pc`/`cur`), a channel or socket (`rx`, `up`, `down`, `sock`), or what a runner
process knows (`link`, `local`, `vm`, `draining`). An action is the code of a
handler between two awaits at which another task can run; database
transactions are one action. A connection and a runner id are the same thing,
because every connection inserts a fresh row in `runners`.

| code | actions |
|---|---|
| `create_job`, broadcast | `CreateJob`, `LinkJob`, `BroadcastJob` |
| `cancel_job` | `CancelJob`, `NotifyCancelled`, `CheckCancelled` |
| `retry_job` | `RetryJob` (reads the row), `InsertRetry` (writes) |
| `job_timeout_checker` | `FindExpired`, `NotifyTimedOut`, `CompleteTimedOut`, `CheckTimedOut`; `Age` is the clock |
| `spawn_runner` | `HandleClaimJob`, `HandleUpdateJobStatus`, `HandleRequestJob`, `UpdateCheck`, `StampJob`, `ReplyJobClaimed`, `CheckAndSendJob`, `ForwardToRunner`, `HangUp`, `UnregisterRunner` |
| `runner.rs` | `Connect`, `LoseConnection`, the four `Read...`, `PanicOnClaim`, `FinishJob`, `ReleaseVm`, `ReportJob`, `Drain`, `ExitGracefully` |
| faults | `CrashRunner`, `CutConnection`, `RestartBackend`, and a failing GitHub call or VM creation inside the actions concerned |

`started` is `null`, `recent` or `old`: all a timeout can tell apart. What a job
asks for (`demand`, one of `Amounts`) and what a process has (`Limit`) are numbers
of one kind here, tested with the offer (`can_allocate`) and again with the claim
(`allocate_resources`); CPUs, memory and the reserve are in `Resources`.

### Runs

| run | instance | shows |
|---|---|---|
| `DispatchRaces` | two processes with room for 1 and for 2, a job that asks for 1 or 2, one handler, two connections, no faults | `GrantsFollowLedger`; `LoneJobIsTaken`; `CheckRunSettles`, where VMs end |
| `DispatchRetry` | one process, two rows; a crash, a cut connection and a signal, each at most once, with a job and its retry; two unrelated jobs without faults (`RetryOrNoFault`) | `TypeOK`; `LedgerInv`; `RetryLineage` |
| `DispatchRestart` | one process with two connections; a restart of the backend, a refusal by GitHub, a VM that cannot be created and a timeout, each at most once | `ControlFollowsClaim`; `JobNeverReopens`; `StartedJobEnds` |
| `CancelledOverwritten` | a violation | a report overwrites a cancellation |
| `NeverTimedOut` | a violation | a job without `started_at` is never found by the checker |

*Bounds.* `MaxJobs`, `MaxRunners` (connections in all), `Handlers`, `Cap`,
`WireCap`, `Amounts`, `Limit` and `Budget` (faults by kind) are bounds. A claim race needs
two connections and one job; a stale runner id needs a second connection of the
same process; a retry needs a second row; a full channel is reached with `Cap`
= 1, a busy process with a `Limit` of one job, a process too small for a job with
`Limit` 1 and a demand of 2. A task that must write to a full websocket
waits, so `WireCap` = 1 delays but loses nothing. What the bounds leave out,
more jobs and connections at once, is what the theorems of section 10 add for
the safety properties.

*Fairness.* Weak fairness of every task that can run (tokio runs ready tasks;
the checker and the reconnection are loops on timers), of a process's reading,
reporting and reconnecting, and of the clock. Users, VMs, faults and signals
owe nothing; `EndingSpec` adds that VMs end, for `DispatchRaces` only.

*Three qualifications worth knowing.* `StartedJobEnds` leaves out jobs of a
process that is draining, because such a process no longer reads its websocket
(`runner.rs:407`) and a VM that hangs then keeps the row running for ever.
`LoneJobIsTaken` speaks of a job that has the queue to itself and fits every
runner of its platform. A job that is larger than all of them is offered, declined
(`runner.rs:558`) and offered again for ever, and one that only some of them could
run can wait for ever too: the runner it is offered to declines, the other one
polled while the row was locked for the first and was told of nothing
(`skip_locked`). With two jobs a queue can stall: one poll offers one job; when it
is declined, or cancelled before the claim, nothing offers the other until the
next event on some connection of that platform. And a cancelled or timed-out job is reported before
its VM ends (`runner.rs:666` comes before the shutdown), so the offer that the
backend makes on a report may meet a runner that has no room for it yet.

## 4. Resources

One variable per field of `ResourceManager`; `held`, `stage` and `releasing`
follow each attempt to build a VM through `LinuxVm::new` (resources, IP, CID),
its life, and the tasks its dropped guards spawn. Every method holds one lock
throughout, so each is one action. `PoolEmpty` and `DropVm` are the error paths
between two guards. An attempt allocates under a fresh uuid, not the job's id,
so `release_job(id)` on `JobCancelled` removes nothing and has no action. Other
platforms take the resource guard only, which is a part of these behaviours.

Run `Resources`: four attempts with different demands, pools of two addresses,
limits that fit some sets of them. `TypeOK`; `AccountingExact` (the counters
are the sums over the map, so `saturating_sub` never cuts anything off);
`WithinLimits`; `PoolsConserved`; `EverythingComesBack`; `PoolsImplemented`:
each pool, under a mapping from `held` to the holder of each address, implements
`AddressPool`. Four attempts on two addresses suffice for an empty pool, for a
release that lets a waiting attempt in, and for addresses that come back in
another order. A `MaxInstances` no less than the number of attempts stands for
`None`. Fairness: spawned releases run. Integer width is left out: sums of CPUs
and bytes of one host are far from 2^64.

## 5. Runner

The main loop's place in its code (`main.at`), the completion task
(`completing`) and the VM tasks (`vm`), with the channels between them at their
capacities. `update_job_status` sends its event while it holds the write lock:
when there is no room the writer keeps the lock (`writer`), and everything that
counts or changes jobs waits, the metrics tick of the main loop included. A
test for exit is made at the head of each iteration. VM creation and guests may
hang; the death of the process (panic, crash) stops everything and is in
`Dispatch`.

Run `Runner` has two jobs, one order per job, a status channel of two places
(so it fills and the lock is held) and other channels of one. `TypeOK`; `EndsOnce`: what was told and
what is on its way is exactly the one end `JobManager` has; `OrderReachesVm`;
`EndedVmIsReported`; `DrainEnds`; `VmTasksKept`: each VM's task is a `VmTask`. Six events in all meet a channel of two, so
every place at which a writer can be held up is visited; the code's 100 and
three events per job make that a matter of 34 jobs with unread events.

*Two qualifications.* Both liveness properties allow `WaitsForItself`: the
channel is full and its only reader waits for room in it or for the lock, and
nothing moves again; the model reaches it, the code with a channel of 100 could.
And `EndedVmIsReported` allows the exit: the head of the loop asks only whether
a job is active, so when two jobs end together in a draining process it leaves
after the first report, and the second end stays in the channel. The backend
ends such a row by its timeout.

*Fairness.* `select!` chooses among ready branches at random, hence strong
fairness for reading the status channel; tokio's channels and locks serve their
waiters in order, hence strong fairness for the completion task and for sending
completions.

Run `FastFailureLost`, a violation: the completion task's comment says that a
completion is rejected if the job "was already marked as canceled/timed out",
and one of a VM that failed before `set_job_running` is rejected as well.

## 6. VmSession

One VM from `LinuxVm::new` to its drop. On the host: the VM's task (`task`), the
two processes (`vmm`, `virtiofsd`), what the VM holds (`rootfs`, `guards`), the
vsock server and the task of the guest's connection (`server`, `handler`,
`job_result`), the log stream (`stream`, `logs`, `posted`). In the guest: init
and driver (`guest`, `tries`), the writer's channel (`buffer`) and the connection
(`wire`). `select!` is a step that takes a command at any moment while `wait` is
in progress, also in the middle of `wait`'s own shutdown.

| code | actions |
|---|---|
| `LinuxVm::new`, `set_job_config`, `start` | `AllocateResources` to `DefineVm`, `SetJobConfig`, `StartVm`; `NewFails`, `StartFails` |
| `wait`, `shutdown`, `vm_task_impl` | `ReadResult`, `TryWait`, `ShutdownVm`, `KillVm`, `TakeCommand`, `SendCompletion`, `EndTask` |
| `Drop for LinuxVm`, then its fields | `DropVm` or `StartFails` (the vsock server is aborted), `DropHypervisor`, `DropVirtiofsd`, `RemoveRootfs` (which may fail), `ReleaseGuards` |
| vsock server, `handle_guest_connection` | `ServerBinds`, `SendConfig`, `ReadReady`, `ReadLog`, `ReadComplete`, `StoreResult`, `LoseGuest` |
| `setup_log_stream` | `StartStream`, `PostLine`, `CloseStream` |
| guest: init, `driver.rs`, `VsockWriter` | `MountFilesystems`, `SwitchRoot`, `Connect`, `RetryConnect`, `ReceiveConfig`, `ConfigureNetwork`, `SetUpNix`, `CloneRepository`, `RunDevenv`, `FailEarly`, `WriteLine`, `SendLine`, `ReportComplete`, `Halt` |
| environment | `HypervisorExits`, `VirtiofsdExits`, `GuestGoes`, `ServiceFails`, `SendShutdown` |

Run `VmSession`: two lines, one command, two connection attempts, every channel
of one place, so each is full and each writer waits or drops, and two places in
the connection, so lines do lie ahead of the driver's report. One command is
enough: a task that has taken one no longer looks for another.
`SuccessHasAReason`; `LinesAccountedFor`; `GuardsOutlastProcesses`; `VmTaskKept`,
the refinement; `ReportEnds`; `OrderEnds`. *Fairness.* The host's tasks run; `select!` picks at
random among ready branches, so a waiting command is taken in the end (strong);
creation and the guest may hang.

A queue goes with the task that reads it: the lines in the log channel with the
log stream, those in the connection with its handler, those in the writer's
channel with the guest. `LinesAccountedFor` says that nothing else loses a line
that the writer's channel took, that none is repeated or overtakes another, and
that no line after a lost one reaches the log service. `GuardsOutlastProcesses`
is about the order of `Drop`: hypervisor, virtiofsd, directory, guards. It does
not say that the directory is gone, since `remove_dir_all` may fail and is only
warned about (`linux.rs:91`); and the model takes a process that was sent SIGKILL
to be dead after the pause of 100 ms (`linux.rs:88`), which the code does not
check.

What the model makes plain, and no property hides:

- `ReportEnds` allows `StreamWaitsForItself`: the task of the log stream sends the
  first line into the channel that it alone reads, before it reads
  (`runner.rs:106`). If the channel is full by then, that task, and with it the
  handler and the report, waits for ever. The task is spawned before the VM, and
  the channel has 100 places, so it would have to be held up for a whole boot.
- When a step of `LinuxVm::new` fails after a process was spawned, the process
  and the root directory stay behind; `GuardsOutlastProcesses` speaks of a
  `LinuxVm` that was made. `cleanup_vm_template`, documented as a clean-up "on
  startup" (`linux.rs:513`), is called only when `VmManager` is
  dropped (`vm_manager.rs:150`).
- `driver.rs:183` says the VM is shut down "regardless of success or failure",
  and `driver.rs:37` that logs are captured "even if the driver fails early": a
  failure of the network or Nix set-up leaves `main` by `?`, with no report and
  no shutdown, and lines still in the writer's channel are lost. PID 1 ends, the
  guest with it, and the exit status decides.
- `wait` reads the result, then polls the process with the result it has read: a
  report stored in between is not used, and the exit code is what counts, in
  spite of "prioritize job result over exit code" (`linux.rs:392`).
- The report may overtake lines that still wait in the guest; and as the handler
  waits for room in the log channel, a log service that stalls delays the report.
- The log stream's own task keeps a sender (`runner.rs:90`), so the stream has no
  end, and the message of its completion (`runner.rs:172`) is seen only when the
  log service closes the request.

## 7. LogStream

`post_logs` numbers the lines of the runner's request (`line_counter`) and puts
them in the store; a put may fail, and a line that does not parse takes no number.
`DbFetcher` (`fetcher`) scans from its key, which it advances by one for each line
it yields. Stores, flushes, restarts and scans interleave. An iterator may or may
not see lines stored after its scan began; assumed of the store, which is outside
the repository, is that one that sees a line sees those stored before it.

Run `LogStream`: five lines, two restarts, one reader (readers share nothing but
the store they read). `KeyNotAhead`; `FeedKept`: each stream implements `LogFeed`,
no stored line is passed over; `LinesArrive`. *Fairness.* The loop goes on, and
scans do not all fail before they have yielded a line (strong, on `Yield`). Five
lines let two puts fail with lines before, between and after them.

The key starts at 0 and the lines at 1, and a failed put leaves a number free, so
the key may be behind the last line: the line at the key is sent once more. That
repetition is bounded by `KeyNotAhead`, and `LogFeed` allows it.

## 8. LogViewers

The viewers of a commit's page (`logViewers`, Elm) and `SSEConnectionManager`
(`connectionStates`, `connections`, and every state object that was ever made,
because timers and callbacks keep the one they were created with). Everything
runs on one thread: an action is one callback or update.

Run `LogViewers`: two jobs, two connects, two errors, filters of one viewer.
`FilteredIsFilter`; `OneConnection`; `OwnLinesArrive`. Two connects are two viewers
at once, or one that is closed and opened again; with two errors a connection that has
lines waiting when its source fails can then fail to be constructed. An object that was
dropped because no source could be constructed keeps `isConnecting` and still delivers
the lines it has; `OneConnection` says that it has no live source and no retry. *Fairness.* Timers fire,
sources connect and receive what there is.

Known and allowed by the properties: the ports carry no id, so each viewer also
takes the lines of the others; after a reconnection the whole log is appended once
more; leaving the page disconnects nothing (`disconnectAll` has no caller);
`sseError` is sent only when a source cannot be constructed, so the "reconnecting"
that `LogViewer.elm:246` speaks of is not shown on an error. Scrolling, selection
and layout are left out.

## 9. Webhook and CloudConfig

`github` is what is true at GitHub (installation, suspension, selected
repositories, revisions); `owner`, `installations`, `repos`, `commits`, `jobs` are
the tables; `deliveries` has the state of each handler. Each statement is a step,
as nothing is in a transaction, and handlers interleave. `Redeliver` and
`Interrupt` are the faults. `CloudConfig` is `FinalCloud::new`: platforms, defaults,
and memory in a `u32` that wraps.

Run `Webhook`: one owner and one repository with one branch, two installation ids
(symmetric), four events, two revisions, one mishap. `CommitGetsItsJobs`: an
answered push has a job for each VM of one configuration, with its check run and
row; a failed one has those of a prefix. `MirrorsGitHub`: while the app's
deliveries are handled in order and with success, the list of repositories has no
duplicate, and when all are handled it follows GitHub. `PushSucceeds`: then a push
fails only for a fault, a branch without `devenv.nix`, a configuration that does not
parse, or access taken away since. It speaks of pushes, and of synchronizes within a repository; not of pull
requests from forks (`PushToFork`), for which the handler looks up the owner of the
fork (`github/serve.rs:398-409`), who has no row: it always fails. A fork whose
owner has installed the app as well would need a second owner, which the model does
not have. Four events are an installation, a change of it and two pushes, or an
installation, its removal, a new one and a push. Safety only: GitHub does not
retry, so nothing has to happen.

What the code does, and the model with it: nothing makes a commit unique, so a
repeated push gets jobs again; `deleted` before `created` leaves the installation
enabled; a new installation leaves repositories of the old one enabled;
`devenv.yaml` is read from the branch and any failure to read it counts as an
empty file, that is, two default VMs; a failure in the middle leaves a job without
its row in `jobs_github`; a push does not look at `disabled` of the repository; a
missing `devenv.nix` is a 404 of GitHub, which `?` turns into an error of the handler
(`github/serve.rs:329`), so that the test for an empty answer below it never decides
anything; `create_from_webhook` leaves `owner_id` as it is on
a conflict.

## 10. Proofs

All proofs hold for every value of the constants that the named assumptions
admit: `DispatchAssumption` (at least one place in each channel), `NoProcAssumption`
and `NoVmAssumption` (no process or VM is called `None`), `ResourcesAssumption`,
`RunnerAssumption`, `VmSessionAssumption`, `LogStreamAssumption`,
`LogViewersAssumption`, `WebhookAssumption` (bounds are numbers, and what a `devenv.yaml` says has the types
serde reads) and `NoInstallationAssumption`. TLC evaluates each of them in the runs.

| theorem | says |
|---|---|
| `DispatchProofs!Typing` | `Spec => []TypeOK` |
| `DispatchProofs!Ledger` | `Spec => []LedgerInv` |
| `DispatchProofs!OneRunner` | `Spec => []GrantsFollowLedger` |
| `DispatchProofs!NeverReopens` | `Spec => JobNeverReopens` |
| `LineageProofs!Lineage` | `Spec => []RetryLineage` |
| `LineageProofs!ClaimBeforeControl` | `Spec => []ControlFollowsClaim` |
| `ResourcesProofs!Typing` | `Spec => []TypeOK` |
| `ResourcesProofs!Conservation` | `Spec => []PoolsConserved` |
| `ResourcesProofs!Limits` | `Spec => []WithinLimits` |
| `ResourcesProofs!Accounting` | `Spec => []AccountingExact` |
| `ResourcesProofs!PoolsAreAddressPools` | `Spec => PoolsImplemented` |
| `RunnerProofs!Typing` | `Spec => []TypeOK` |
| `RunnerProofs!OneEnd` | `Spec => []EndsOnce` |
| `RunnerProofs!OrderWaitsForVm` | `Spec => []OrderReachesVm` |
| `RunnerProofs!VmTasksImplemented` | `Spec => VmTasksKept` |
| `VmSessionProofs!Typing` | `Spec => []TypeOK` |
| `VmSessionProofs!SuccessJustified` | `Spec => []SuccessHasAReason` |
| `VmSessionProofs!GuardsHeld` | `Spec => []GuardsOutlastProcesses` |
| `VmSessionProofs!NoLineVanishes` | `Spec => []LinesAccountedFor` |
| `VmSessionProofs!VmTaskImplemented` | `Spec => VmTaskKept` |
| `LogStreamProofs!Typing` | `Spec => []TypeOK` |
| `LogStreamProofs!KeyStaysBehind` | `Spec => []KeyNotAhead` |
| `LogStreamProofs!FeedImplemented` | `Spec => FeedKept` |
| `LogViewersProofs!Typing` | `Spec => []TypeOK` |
| `LogViewersProofs!ScreenFollowsFilters` | `Spec => []FilteredIsFilter` |
| `LogViewersProofs!OneConnectionPerId` | `Spec => []OneConnection` |
| `WebhookProofs!Typing` | `Spec => []TypeOK` |
| `WebhookProofs!JobsOfOneConfiguration` | `Spec => []CommitGetsItsJobs` |
| `WebhookProofs!TablesMirrorGitHub` | `Spec => []MirrorsGitHub` |
| `WebhookProofs!PushesSucceed` | `Spec => []PushSucceeds` |

Each module proves one inductive invariant, with one lemma for what an action does
and one for what it preserves, and draws the theorems from it.

*Ledger.* `GrantsFollowLedger` relates what a process holds and what is in
flight to the row. It is not inductive: an answer to a claim is sent from what
the task remembers (`cur`), a report is believed whoever sends it, and the
checker works from a snapshot. `LedgerInv` adds what makes these safe: a row has
a runner from its claim on and never another (`RowsInv`), a link belongs to the
process that opened it (`LinksInv`), and every task in the middle of an update
speaks of a job that was claimed, by this connection if it is about to answer
(`TasksInv`). The proof has one step per action; `NeverReopens` follows because
every unconditional write of an end is then a write to a row that was claimed.

*Lineage.* `RetryLineage` needs that a retry in flight was found to be of a job
that is over (`LineageInv`), which stays true because no job reopens (the step of
`NeverReopens`). An action leaves the three columns alone, inserts a row without a
predecessor, or inserts one retry (`LineageStep`); two retries of one row are two such
steps, of which the second replaces `retried`.

*Claim before control.* `ControlFollowsClaim` looks at one queue of one process,
its reason lies in the backend. `ControlInv` adds that a notice of an end, in the
channel of a task or on the wire, is on the way to the connection that claimed the
job (`Addressed`), and that whoever reads an open connection knows each job claimed
over it, or the answer is on the wire, or the task is still producing it (`Told`):
so the task cannot forward the notice before it has answered.

*Pools.* `PoolsConserved` needs to know that a guard is taken once and
that a spawned release still has what it gives back (`GuardsInv`). Each action
is shown to do to each pool nothing, one taking or one return (`PoolSteps`), and
each of these to conserve it, from lemmas about sequences without repetitions.
The same case analysis gives the refinement: a taking grants the head of the queue
to the VM in `AddressPool`, a return takes it back from its holder (`HolderOf`).

*Limits.* By induction with finiteness of the map of jobs; the saturating
subtraction needs the case of a demand of zero.

*Accounting.* `AccountingExact` sums over the map of jobs, and what a sum over a set
computes has no proof by the library's induction theorems, which take an operator. It is
reached by a least counterexample instead (`LeastNumber`, from the well-foundedness of
the numbers): there is one function of all parts of the map in which any entry may be the
last one added (`Sums`), and it is the sum; so adding or removing one entry adds or
removes its demand. `AccountingInv` adds that an
attempt that has not allocated yet has no entry; then a release lowers the counters by
exactly what its allocation added, and the saturating subtraction never cuts off.

*Runner.* `EndsOnce` counts: what was told, what the main loop or a writer has in
hand and what waits in the channel make one end, the one that `JobManager` records.
`RunnerInv` adds where a job and its VM can be while the main loop is between two of
its awaits (`LoopInv`) and that a control channel is registered as long as its VM can
run (`ControlInv`, from which `OrderReachesVm` is kept). The effect of a write and of a
send are lemmas, as both the loop and the completion task perform them.

*VmSession.* `SessionInv` says what a VM holds at each step of its creation, its
life and its drop (`HostInv`), that the guest connects once, so that there is one result
(`GuestInv`, `ResultInv`), and that a command is taken only when there is a VM. The
refinement of `VmTask` then is one case per action of the task, and stutters for the
guest, the vsock server and the log.

`LinesAccountedFor` looks at four queues as one sequence. A step moves a line from the
head of one to the end of the one before it, which leaves the sequence as it is
(`MovesOn`), throws a line away (`Discards`), adds one at the end (`Written`), empties a
queue whose reader has ended (`QueueGone`), or lets a message without a line in or out,
anywhere (`WithoutLine`). `LinesInv` names the set of the lines that are lost: the writer
refused them or a reader has ended, and they come after all lines that are still ahead
of the place where lines get lost (`Ahead`), which is what keeps the log without gaps. That what the handler reads
as `Ready` is not a line needs `WireInv`: `Ready` is the first message of the one
connection, and no line is sent before it.

*LogStream.* The argument is about numbers: the key counts the lines sent, a scan
has come to `next`, and no stored line below either is missing from what was sent
(`NothingMissed`). A crash removes stored lines only from some number on (`StoreInv`),
and no number is given out twice. `FeedKept` follows step by step.

*LogViewers.* That the filter distributes over concatenation and keeps everything when
all levels are shown is proved by a least counterexample, on the length of the list, as
`Filter` is a recursive function. `FilteredIsFilter` then has one case for each way to
change the lines or the filters. `OneConnection` needs `ConnectionsInv`: at each id the
two maps and the objects made for it agree (`ConnectionOK`), the current object is on
its way in exactly one way (`OneWay`), and any other is at its end (`Ended`).

*Webhook.* `ProgressInv` follows `create_job` through the VMs: what is done is a prefix
of one configuration and what the handler has left is the rest of the same one, all
jobs but the newest are complete, and the newest is as far as the step says. The
configuration is one that the handler may have read: the branch's head exists because
the revision was pushed (`GithubOK`), and revisions are only added (`SeesMore`).

`MirrorsGitHub` compares the tables with GitHub, which is ahead of them by any number
of deliveries. `MirrorInv` therefore says that there is a history `h`: what GitHub was
after each delivery, as the events tell it (`After`), from not installed to what it is
now. In order, there is a last delivery `k` about the app that has begun (`Frontier`),
all before it were answered ok (`InOrder`), and the tables are at `h[k - 1]`, at `h[k]`,
or between the two as far as the step of its handler says (`Halfway`). An event of
GitHub makes `h` longer, a step of the handler of `k` brings the tables nearer to `h[k]`,
and the next handler that begins finds them there. At each of these points the
installations enabled are those of `h[k - 1]` or `h[k]`, at most one, and the first half
of `MirrorsGitHub` follows; the second is the case that nothing is left to handle.
`Access` adds that since a push the app has had the repository in all of `h` unless
`changes` tells otherwise, so that what the handler of a push looks up is there
(`PushFinds`), whichever of the two states the tables show: `PushSucceeds`.

Out of the prover's reach, and checked by TLC only: liveness under fairness, which
rests on `ENABLED`: `StartedJobEnds`, `LoneJobIsTaken`, `CheckRunSettles`,
`EverythingComesBack`, `EndedVmIsReported`, `DrainEnds`, `ReportEnds`, `OrderEnds`,
`LinesArrive`, `OwnLinesArrive`. The invariants and action properties that the runs
check, the four refinements (`PoolsImplemented`, `VmTasksKept`, `VmTaskKept`,
`FeedKept`) among them, are all proved. No module declares a `RECURSIVE` operator, so
that all can be proved about; `Filter` of `LogViewers` is a recursive function.

## 11. Findings

1. A report overwrites a cancellation: `update_job_status` has no condition on
   the current status (`CancelledOverwritten`).
2. A job claimed before its check run exists gets no `started_at` and is never
   timed out (`NeverTimedOut`).
3. The failure of a VM that comes before `set_job_running` is rejected; the job
   stays running, and a draining process never exits (`FastFailureLost`).

## 12. Not modelled, and why

- *macOS VM driver*: it does not build at this commit (`MacosVm::new` lacks the
  `config` that the trait passes), so there is no behaviour to be faithful to.
- *Launcher, server set-up, configuration*: start-up code without interleaving.
- *Authentication, accounts*: one call to an external service per request, no
  state.
- *Repository pages*: read-only queries, except the list of owners with their
  repositories (`OwnersWithRepos`), and `update_generate_pr`, a
  column that only a page shows.
- *Guest*: the system calls behind mounting, switching root and the network; each
  is a step that succeeds or fails.
- *Front end*: pages other than the viewers, the OIDC glue and the layout.
- *cloud-hypervisor client*: generated.
- Of dispatch, metrics reports, which only log.
