--------------------------- MODULE DispatchProofs ---------------------------
(* Types, and one runner for each job, for every value of the constants of *)
(* Dispatch.                                                               *)
EXTENDS Dispatch, SequenceTheorems, TLAPS

-----------------------------------------------------------------------------
(* What the operators shared by several actions do to the types *)

LEMMA FaultTyping ==
  ASSUME TypeOK, NEW kind \in FaultKinds, Fault(kind)
  PROVE  faults' \in [FaultKinds -> Nat]
BY DEF TypeOK, Fault

(* Every update of one row leaves a table of rows. *)
LEMMA RowUpdates ==
  ASSUME NEW table \in [Jobs -> Row], NEW j \in Jobs
  PROVE  /\ \A s \in JobStatuses :
              [table EXCEPT ![j].status = s] \in [Jobs -> Row]
         /\ \A s \in JobStatuses :
              [table EXCEPT ![j].status = s, ![j].finished = TRUE]
                \in [Jobs -> Row]
         /\ \A s \in JobStatuses, c \in Runners :
              [table EXCEPT ![j].status = s, ![j].runner = c] \in [Jobs -> Row]
         /\ \A k \in Jobs : [table EXCEPT ![j].retried = k] \in [Jobs -> Row]
         /\ \A t \in {"recent", "old"} :
              [table EXCEPT ![j].started = t] \in [Jobs -> Row]
         /\ [table EXCEPT ![j].finished = TRUE] \in [Jobs -> Row]
<1>1. ASSUME NEW s \in JobStatuses
      PROVE  /\ [table EXCEPT ![j].status = s] \in [Jobs -> Row]
             /\ [table EXCEPT ![j].status = s, ![j].finished = TRUE]
                  \in [Jobs -> Row]
  BY ZenonT(60) DEF Row
<1>2. ASSUME NEW s \in JobStatuses, NEW c \in Runners
      PROVE  [table EXCEPT ![j].status = s, ![j].runner = c] \in [Jobs -> Row]
  BY ZenonT(60) DEF Row
<1>3. ASSUME NEW k \in Jobs
      PROVE  [table EXCEPT ![j].retried = k] \in [Jobs -> Row]
  BY DEF Row
<1>4. ASSUME NEW t \in {"recent", "old"}
      PROVE  [table EXCEPT ![j].started = t] \in [Jobs -> Row]
  BY DEF Row
<1>5. [table EXCEPT ![j].finished = TRUE] \in [Jobs -> Row]
  BY DEF Row
<1>6. QED
  BY <1>1, <1>2, <1>3, <1>4, <1>5

LEMMA NewRowTyping ==
  ASSUME NEW f \in Platforms, NEW n \in Amounts \cup {0}, NEW j \in Jobs \cup {None}
  PROVE  NewRow(f, n, j) \in Row
BY DEF NewRow, Row, JobStatuses

(* A process that restarts keeps the types of what it resets. *)
LEMMA RestartTyping ==
  ASSUME TypeOK, NEW p \in Procs, Restart(p)
  PROVE  /\ sock' \in [Runners -> {"unused", "open", "closed"}]
         /\ down' \in [Runners -> Seq(ServerMsg)]
         /\ ClientTypeOK'
<1> USE DEF TypeOK, Restart
<1>1. sock' \in [Runners -> {"unused", "open", "closed"}]
  BY DEF WireTypeOK
<1>2. down' \in [Runners -> Seq(ServerMsg)]
  BY DEF WireTypeOK
<1>3. /\ link' \in [Procs -> Runners \cup {None}]
      /\ vm' \in [Procs -> SUBSET Jobs]
      /\ draining' \in SUBSET Procs
  BY DEF ClientTypeOK
<1>4. local' \in [Procs -> [Jobs -> LocalStatuses]]
  BY DEF ClientTypeOK, LocalStatuses
<1>5. QED
  BY <1>1, <1>2, <1>3, <1>4 DEF ClientTypeOK

LEMMA SendDownTyping ==
  ASSUME TypeOK, NEW c \in Runners, NEW m \in ServerMsg, SendDown(c, m)
  PROVE  down' \in [Runners -> Seq(ServerMsg)]
<1>1. down[c] \in Seq(ServerMsg)
  BY DEF TypeOK, WireTypeOK
<1>2. Append(down[c], m) \in Seq(ServerMsg)
  BY <1>1
<1>3. QED
  BY <1>2 DEF SendDown, TypeOK, WireTypeOK

LEMMA TrySendTyping ==
  ASSUME TypeOK, NEW c \in Runners \cup {None}, NEW m \in Notices,
         TrySendTo(c, m)
  PROVE  rx' \in [Runners -> Seq(Notices)]
<1>1. CASE CanSendTo(c)
  <2>1. rx[c] \in Seq(Notices) /\ c \in Runners
    BY <1>1 DEF CanSendTo, TypeOK, ConnTypeOK
  <2>2. Append(rx[c], m) \in Seq(Notices)
    BY <2>1
  <2>3. QED
    BY <1>1, <2>1, <2>2 DEF TrySendTo, TypeOK, ConnTypeOK
<1>2. CASE ~CanSendTo(c)
  BY <1>2 DEF TrySendTo, TypeOK, ConnTypeOK
<1>3. QED
  BY <1>1, <1>2

LEMMA MsgTyping ==
  ASSUME NEW j \in Jobs
  PROVE  /\ \A type \in {"NewJobAvailable", "JobTimedOut", "JobCancelled"} :
              Msg(type, j) \in Notices /\ Msg(type, j) \in ServerMsg
         /\ Msg("JobClaimed", j) \in ServerMsg
         /\ Msg("ClaimJob", j) \in ClientMsg
BY DEF Msg, Notices, ServerMsg, ClientMsg

LEMMA CheckRunTyping ==
  ASSUME TypeOK, NEW j \in Jobs, NEW status \in JobStatuses,
         UpdateCheckRun(j, status) \/ CheckRunFails(j)
  PROVE  /\ check' \in [Jobs -> {"none"} \cup JobStatuses]
         /\ faults' \in [FaultKinds -> Nat]
<1>1. CASE UpdateCheckRun(j, status)
  BY <1>1 DEF UpdateCheckRun, TypeOK, DbTypeOK
<1>2. CASE CheckRunFails(j)
  BY <1>2, FaultTyping DEF CheckRunFails, TypeOK, DbTypeOK, FaultKinds
<1>3. QED
  BY <1>1, <1>2

(* A handler that has notified the runner goes on with the same job. *)
LEMMA StepTyping ==
  ASSUME NEW reqs \in [Handlers -> Requests], NEW h \in Handlers,
         reqs[h].at = "notify"
  PROVE  [reqs EXCEPT ![h].at = "check"] \in [Handlers -> Requests]
BY DEF Requests, Idle

LEMMA UpdateTyping ==
  ASSUME ConnTypeOK, NEW c \in Runners, NEW j \in Jobs,
         NEW status \in {"running"} \cup Completions,
         pc' = [pc EXCEPT ![c] = "check"],
         cur' = [cur EXCEPT ![c] = [job |-> j, status |-> status]],
         UNCHANGED <<owner, rx>>
  PROVE  ConnTypeOK'
<1> DEFINE u == [job |-> j, status |-> status]
<1>1. u \in [job : Jobs \cup {None}, status : {"running"} \cup Completions]
  OBVIOUS
<1>2. u.job \in Jobs
  OBVIOUS
<1> HIDE DEF u
<1>3. cur' = [cur EXCEPT ![c] = u]
  BY DEF u
<1>4. QED
  BY <1>1, <1>2, <1>3 DEF ConnTypeOK, Updating

LEMMA AfterUpdateTyping ==
  ASSUME ConnTypeOK, NEW c \in Runners, AfterUpdate(c), Updating(c),
         UNCHANGED <<owner, rx>>
  PROVE  ConnTypeOK'
<1>1. CASE cur[c].status = "running"
  BY <1>1 DEF ConnTypeOK, AfterUpdate, Updating
<1>2. CASE cur[c].status # "running"
  <2>1. pc' = [pc EXCEPT ![c] = "poll"] /\ cur' = [cur EXCEPT ![c] = NoCur]
    BY <1>2 DEF AfterUpdate
  <2>2. NoCur \in [job : Jobs \cup {None}, status : {"running"} \cup Completions]
    BY DEF NoCur
  <2>3. QED
    BY <2>1, <2>2 DEF ConnTypeOK, Updating
<1>3. QED
  BY <1>1, <1>2

LEMMA ReadsTyping ==
  ASSUME TypeOK, NEW p \in Procs, NEW type, Reads(p, type)
  PROVE  /\ link[p] \in Runners
         /\ Head(down[link[p]]).id \in Jobs
         /\ down' \in [Runners -> Seq(ServerMsg)]
<1>1. link[p] \in Runners /\ down[link[p]] \in Seq(ServerMsg)
  BY DEF TypeOK, ClientTypeOK, WireTypeOK, Reads
<1>2. /\ Head(down[link[p]]) \in ServerMsg
      /\ Tail(down[link[p]]) \in Seq(ServerMsg)
  BY <1>1, HeadTailProperties DEF Reads
<1>3. QED
  BY <1>1, <1>2 DEF TypeOK, WireTypeOK, Reads, ServerMsg, Notices

LEMMA DecideTyping ==
  ASSUME TypeOK, NEW p \in Procs, NEW j \in Jobs, NEW status \in Completions,
         Decide(p, j, status)
  PROVE  local' \in [Procs -> [Jobs -> LocalStatuses]]
BY DEF TypeOK, ClientTypeOK, Decide, LocalStatuses

-----------------------------------------------------------------------------
(* Every variable keeps its type; in particular a handler, the checker or  *)
(* a connection that is updating a job names a job that may exist.         *)
THEOREM Typing == Spec => []TypeOK
<1>1. Init => TypeOK
  <2> SUFFICES ASSUME Init PROVE TypeOK
    OBVIOUS
  <2>1. DbTypeOK
    BY DEF Init, DbTypeOK, NoRow, Row, JobStatuses
  <2>2. WebTypeOK
    BY DEF Init, WebTypeOK, Idle, Requests, CheckerStates
  <2>3. ConnTypeOK
    BY DEF Init, ConnTypeOK, NoCur, Updating
  <2>4. WireTypeOK
    BY DEF Init, WireTypeOK
  <2>5. ClientTypeOK
    BY DEF Init, ClientTypeOK, LocalStatuses
  <2>6. QED
    BY <2>1, <2>2, <2>3, <2>4, <2>5, DispatchAssumption DEF Init, TypeOK
<1>2. TypeOK /\ [Next]_vars => TypeOK'
  <2> SUFFICES ASSUME TypeOK, [Next]_vars PROVE TypeOK'
    OBVIOUS
  <2> USE DEF TypeOK, DbTypeOK, WebTypeOK, ConnTypeOK, WireTypeOK, ClientTypeOK
  <2> USE DEF dbVars, webVars, connVars, wireVars, clientVars
  <2>1. ASSUME NEW h \in Handlers, CreateJob(h) PROVE TypeOK'
    <3>1. jobs' \in [Jobs -> Row]
      BY <2>1, NewRowTyping DEF CreateJob
    <3>2. req' \in [Handlers -> Requests]
      BY <2>1 DEF CreateJob, At, Requests
    <3>3. QED
      BY <2>1, <3>1, <3>2 DEF CreateJob, Updating
  <2>2. ASSUME NEW h \in Handlers, LinkJob(h) PROVE TypeOK'
    <3>1. req[h] \in Requests /\ req[h].at = "link"
      BY <2>2 DEF LinkJob
    <3>2. req[h].job \in Jobs
      BY <3>1 DEF Requests, Idle
    <3>3. check' \in [Jobs -> {"none"} \cup JobStatuses]
      BY <2>2, <3>2 DEF LinkJob, JobStatuses
    <3>4. req' \in [Handlers -> Requests]
      BY <2>2, <3>2 DEF LinkJob, Requests
    <3>5. faults' \in [FaultKinds -> Nat]
      BY <2>2, FaultTyping DEF LinkJob, FaultKinds
    <3>6. QED
      BY <2>2, <3>3, <3>4, <3>5 DEF LinkJob, Updating
  <2>3. ASSUME NEW h \in Handlers, BroadcastJob(h) PROVE TypeOK'
    <3>1. req[h] \in Requests /\ req[h].at = "broadcast"
      BY <2>3 DEF BroadcastJob
    <3>2. req[h].job \in Jobs
      BY <3>1 DEF Requests, Idle
    <3>3. \A c \in Runners :
            Append(rx[c], Msg("NewJobAvailable", req[h].job)) \in Seq(Notices)
      BY <3>2, MsgTyping
    <3>4. rx' \in [Runners -> Seq(Notices)]
      BY <2>3, <3>3 DEF BroadcastJob
    <3>5. req' \in [Handlers -> Requests]
      BY <2>3 DEF BroadcastJob, Requests
    <3>6. QED
      BY <2>3, <3>4, <3>5 DEF BroadcastJob, Updating
  <2>4. ASSUME NEW h \in Handlers, NotifyCancelled(h) PROVE TypeOK'
    <3>1. req[h] \in Requests /\ req[h].at = "notify"
      BY <2>4 DEF NotifyCancelled
    <3>2. req[h].job \in Jobs
      BY <3>1 DEF Requests, Idle
    <3>3. jobs[req[h].job].runner \in Runners \cup {None}
      BY <3>2 DEF Row
    <3>4. rx' \in [Runners -> Seq(Notices)]
      BY <2>4, <3>2, <3>3, MsgTyping, TrySendTyping DEF NotifyCancelled
    <3>5. req' \in [Handlers -> Requests]
      BY <2>4, <3>1, StepTyping DEF NotifyCancelled
    <3>6. QED
      BY <2>4, <3>4, <3>5 DEF NotifyCancelled, Updating
  <2>5. ASSUME NEW h \in Handlers, CheckCancelled(h) PROVE TypeOK'
    <3>1. req[h] \in Requests /\ req[h].at = "check"
      BY <2>5 DEF CheckCancelled
    <3>2. req[h].job \in Jobs
      BY <3>1 DEF Requests, Idle
    <3>3. /\ check' \in [Jobs -> {"none"} \cup JobStatuses]
          /\ faults' \in [FaultKinds -> Nat]
      BY <2>5, <3>2, CheckRunTyping DEF CheckCancelled, JobStatuses, Completions
    <3>4. req' \in [Handlers -> Requests]
      BY <2>5 DEF CheckCancelled, Requests
    <3>5. QED
      BY <2>5, <3>3, <3>4 DEF CheckCancelled, Updating
  <2>6. ASSUME NEW h \in Handlers, InsertRetry(h) PROVE TypeOK'
    <3>1. req[h] \in Requests /\ req[h].at = "retry"
      BY <2>6 DEF InsertRetry
    <3>2. req[h].job \in Jobs
      BY <3>1 DEF Requests, Idle
    <3> DEFINE j == req[h].job
    <3>3. PICK k \in Jobs :
            /\ jobs[k].status = "absent"
            /\ jobs' = [jobs EXCEPT ![k] = NewRow(jobs[j].platform, jobs[j].demand, j),
                                    ![j].retried = k]
            /\ req' = [req EXCEPT ![h] = At("link", k)]
      BY <2>6 DEF InsertRetry, NextJob
    <3>4. NewRow(jobs[j].platform, jobs[j].demand, j) \in Row
      BY <3>2 DEF NewRow, Row, JobStatuses
    <3> HIDE DEF j
    <3>5. [jobs EXCEPT ![k] = NewRow(jobs[j].platform, jobs[j].demand, j)] \in [Jobs -> Row]
      BY <3>4
    <3>6. jobs' \in [Jobs -> Row]
      BY <3>2, <3>3, <3>5, RowUpdates
    <3>7. req' \in [Handlers -> Requests]
      BY <3>3 DEF At, Requests
    <3>8. QED
      BY <2>6, <3>6, <3>7 DEF InsertRetry, Updating
  <2>7. ASSUME NEW h \in Handlers, NEW j \in Jobs, CancelJob(h, j) PROVE TypeOK'
    <3>1. "cancelled" \in JobStatuses
      BY DEF JobStatuses, Completions
    <3>2. jobs' \in [Jobs -> Row]
      BY <2>7, <3>1, RowUpdates DEF CancelJob, Completed
    <3>3. req' \in [Handlers -> Requests]
      BY <2>7 DEF CancelJob, At, Requests
    <3>4. QED
      BY <2>7, <3>2, <3>3 DEF CancelJob, Updating
  <2>8. ASSUME NEW h \in Handlers, NEW j \in Jobs, RetryJob(h, j) PROVE TypeOK'
    <3>1. req' \in [Handlers -> Requests]
      BY <2>8 DEF RetryJob, At, Requests
    <3>2. QED
      BY <2>8, <3>1 DEF RetryJob, Updating
  <2>9. ASSUME NEW j \in Jobs, Age(j) PROVE TypeOK'
    <3>1. jobs' \in [Jobs -> Row]
      BY <2>9, RowUpdates DEF Age
    <3>2. faults' \in [FaultKinds -> Nat]
      BY <2>9, FaultTyping DEF Age, FaultKinds
    <3>3. QED
      BY <2>9, <3>1, <3>2 DEF Age, Updating
  <2>10. CASE FindExpired
    <3>1. checker' \in CheckerStates
      BY <2>10 DEF FindExpired, Expired, CheckerStates
    <3>2. QED
      BY <2>10, <3>1 DEF FindExpired, Updating
  <2>11. ASSUME NEW j \in Jobs, NotifyTimedOut(j) PROVE TypeOK'
    <3>1. checker.todo \in SUBSET Jobs
      BY DEF CheckerStates
    <3>2. checker' \in CheckerStates
      BY <2>11, <3>1 DEF NotifyTimedOut, NextExpired, CheckerStates
    <3>3. jobs[j].runner \in Runners \cup {None}
      BY DEF Row
    <3>4. rx' \in [Runners -> Seq(Notices)]
      BY <2>11, <3>3, MsgTyping, TrySendTyping DEF NotifyTimedOut
    <3>5. QED
      BY <2>11, <3>2, <3>4 DEF NotifyTimedOut, Updating
  <2>12. CASE CompleteTimedOut
    <3>1. checker.job \in Jobs
      BY <2>12 DEF CompleteTimedOut, CheckerStates
    <3>2. "timed_out" \in JobStatuses
      BY DEF JobStatuses, Completions
    <3>3. jobs' \in [Jobs -> Row]
      BY <2>12, <3>1, <3>2, RowUpdates DEF CompleteTimedOut, Completed
    <3>4. checker' \in CheckerStates
      BY <2>12 DEF CompleteTimedOut, CheckerStates
    <3>5. QED
      BY <2>12, <3>3, <3>4 DEF CompleteTimedOut, Updating
  <2>13. CASE CheckTimedOut
    <3>1. checker.job \in Jobs /\ checker.todo \in SUBSET Jobs
      BY <2>13 DEF CheckTimedOut, CheckerStates
    <3>2. /\ check' \in [Jobs -> {"none"} \cup JobStatuses]
          /\ faults' \in [FaultKinds -> Nat]
      BY <2>13, <3>1, CheckRunTyping DEF CheckTimedOut, JobStatuses, Completions
    <3>3. checker' \in CheckerStates
      BY <2>13, <3>1 DEF CheckTimedOut, NextExpired, CheckerStates
    <3>4. QED
      BY <2>13, <3>2, <3>3 DEF CheckTimedOut, Updating
  <2>14. ASSUME NEW c \in Runners, CheckAndSendJob(c) PROVE TypeOK'
    <3>1. down' \in [Runners -> Seq(ServerMsg)]
      BY <2>14, MsgTyping, SendDownTyping DEF CheckAndSendJob, Candidates
    <3>2. QED
      BY <2>14, <3>1 DEF CheckAndSendJob, Updating
  <2>15. ASSUME NEW c \in Runners, HandleClaimJob(c) PROVE TypeOK'
    <3>1. up[c] \in Seq(ClientMsg) /\ up[c] # <<>> /\ Head(up[c]).type = "ClaimJob"
      BY <2>15 DEF HandleClaimJob, Receives
    <3>2. Head(up[c]) \in ClientMsg /\ Tail(up[c]) \in Seq(ClientMsg)
      BY <3>1, HeadTailProperties
    <3>3. Head(up[c]).id \in Jobs
      BY <3>1, <3>2 DEF ClientMsg
    <3>4. [jobs EXCEPT ![Head(up[c]).id].status = "running",
                       ![Head(up[c]).id].runner = c] \in [Jobs -> Row]
      BY <3>3, RowUpdates DEF JobStatuses
    <3>5. jobs' \in [Jobs -> Row]
      BY <2>15, <3>4 DEF HandleClaimJob
    <3>6. up' \in [Runners -> Seq(ClientMsg)]
      BY <2>15, <3>2 DEF HandleClaimJob, Receives
    <3>7. ConnTypeOK'
      <4>1. CASE jobs[Head(up[c]).id].status = "queued"
        <5>1. /\ pc' = [pc EXCEPT ![c] = "check"]
              /\ cur' = [cur EXCEPT ![c] = [job |-> Head(up[c]).id,
                                           status |-> "running"]]
              /\ UNCHANGED <<owner, rx>>
          BY <2>15, <4>1 DEF HandleClaimJob
        <5>2. QED
          BY <3>3, <5>1, UpdateTyping
      <4>2. CASE jobs[Head(up[c]).id].status # "queued"
        BY <2>15, <4>2 DEF HandleClaimJob, Updating
      <4>3. QED
        BY <4>1, <4>2
    <3>8. QED
      BY <2>15, <3>5, <3>6, <3>7 DEF HandleClaimJob
  <2>16. ASSUME NEW c \in Runners, HandleUpdateJobStatus(c) PROVE TypeOK'
    <3>1. /\ up[c] \in Seq(ClientMsg) /\ up[c] # <<>>
          /\ Head(up[c]).type = "UpdateJobStatus"
      BY <2>16 DEF HandleUpdateJobStatus, Receives
    <3>2. Head(up[c]) \in ClientMsg /\ Tail(up[c]) \in Seq(ClientMsg)
      BY <3>1, HeadTailProperties
    <3>3. Head(up[c]).id \in Jobs /\ Head(up[c]).status \in Completions
      BY <3>1, <3>2 DEF ClientMsg
    <3>4. jobs' \in [Jobs -> Row]
      BY <2>16, <3>3, RowUpdates DEF HandleUpdateJobStatus, JobStatuses
    <3>5. up' \in [Runners -> Seq(ClientMsg)]
      BY <2>16, <3>2 DEF HandleUpdateJobStatus, Receives
    <3>6. ConnTypeOK'
      BY <2>16, <3>3, UpdateTyping DEF HandleUpdateJobStatus
    <3>7. QED
      BY <2>16, <3>4, <3>5, <3>6 DEF HandleUpdateJobStatus
  <2>17. ASSUME NEW c \in Runners, HandleRequestJob(c) PROVE TypeOK'
    <3>1. Tail(up[c]) \in Seq(ClientMsg)
      BY <2>17, HeadTailProperties DEF HandleRequestJob, Receives
    <3>2. up' \in [Runners -> Seq(ClientMsg)]
      BY <2>17, <3>1 DEF HandleRequestJob, Receives
    <3>3. QED
      BY <2>17, <3>2 DEF HandleRequestJob, Updating
  <2>18. ASSUME NEW c \in Runners, UpdateCheck(c) PROVE TypeOK'
    <3>1. cur[c].job \in Jobs /\ cur[c].status \in JobStatuses
      BY <2>18 DEF UpdateCheck, Updating, JobStatuses
    <3>2. /\ check' \in [Jobs -> {"none"} \cup JobStatuses]
          /\ faults' \in [FaultKinds -> Nat]
      BY <2>18, <3>1, CheckRunTyping DEF UpdateCheck
    <3>3. ConnTypeOK'
      <4>1. CASE AfterUpdate(c)
        BY <2>18, <4>1, AfterUpdateTyping DEF UpdateCheck, Updating
      <4>2. CASE pc' = [pc EXCEPT ![c] = "stamp"] /\ UNCHANGED cur
        BY <2>18, <3>1, <4>2 DEF UpdateCheck, Updating
      <4>3. QED
        BY <2>18, <4>1, <4>2 DEF UpdateCheck
    <3>4. QED
      BY <2>18, <3>2, <3>3 DEF UpdateCheck
  <2>19. ASSUME NEW c \in Runners, StampJob(c) PROVE TypeOK'
    <3>1. cur[c].job \in Jobs
      BY <2>19 DEF StampJob, Updating
    <3>2. jobs' \in [Jobs -> Row]
      BY <2>19, <3>1, RowUpdates DEF StampJob
    <3>3. ConnTypeOK'
      BY <2>19, AfterUpdateTyping DEF StampJob, Updating
    <3>4. QED
      BY <2>19, <3>2, <3>3 DEF StampJob
  <2>20. ASSUME NEW c \in Runners, ReplyJobClaimed(c) PROVE TypeOK'
    <3>1. down' \in [Runners -> Seq(ServerMsg)]
      BY <2>20, MsgTyping, SendDownTyping DEF ReplyJobClaimed, Updating
    <3>2. QED
      BY <2>20, <3>1 DEF ReplyJobClaimed, NoCur, Updating
  <2>21. ASSUME NEW c \in Runners, ForwardToRunner(c) PROVE TypeOK'
    <3>1. Head(rx[c]) \in Notices /\ Tail(rx[c]) \in Seq(Notices)
      BY <2>21, HeadTailProperties DEF ForwardToRunner
    <3>2. down' \in [Runners -> Seq(ServerMsg)]
      BY <2>21, <3>1, SendDownTyping DEF ForwardToRunner, ServerMsg
    <3>3. rx' \in [Runners -> Seq(Notices)]
      BY <2>21, <3>1 DEF ForwardToRunner
    <3>4. QED
      BY <2>21, <3>2, <3>3 DEF ForwardToRunner, Updating
  <2>22. ASSUME NEW c \in Runners, HangUp(c) PROVE TypeOK'
    BY <2>22 DEF HangUp, Updating
  <2>23. ASSUME NEW c \in Runners, UnregisterRunner(c) PROVE TypeOK'
    BY <2>23 DEF UnregisterRunner, Updating
  <2>24. ASSUME NEW c \in Runners, CutConnection(c) PROVE TypeOK'
    BY <2>24, FaultTyping DEF CutConnection, Updating, FaultKinds
  <2>25. ASSUME NEW p \in Procs, Connect(p) PROVE TypeOK'
    <3>1. <<>> \in Seq(ClientMsg) /\ <<[type |-> "RequestJob"]>> \in Seq(ClientMsg)
      BY DEF ClientMsg
    <3>2. up' \in [Runners -> Seq(ClientMsg)]
      BY <2>25, <3>1 DEF Connect
    <3>3. QED
      BY <2>25, <3>2 DEF Connect, Updating
  <2>26. ASSUME NEW p \in Procs, LoseConnection(p) PROVE TypeOK'
    BY <2>26 DEF LoseConnection, Updating
  <2>27. ASSUME NEW p \in Procs, ReadNewJobAvailable(p) PROVE TypeOK'
    <3>1. /\ Head(down[link[p]]).id \in Jobs
          /\ down' \in [Runners -> Seq(ServerMsg)]
      BY <2>27, ReadsTyping DEF ReadNewJobAvailable
    <3> DEFINE m == Msg("ClaimJob", Head(down[link[p]]).id)
    <3>2. link[p] \in Runners /\ up[link[p]] \in Seq(ClientMsg) /\ m \in ClientMsg
      BY <2>27, <3>1, MsgTyping, ReadsTyping DEF ReadNewJobAvailable
    <3>3. Append(up[link[p]], m) \in Seq(ClientMsg)
      BY <3>2
    <3>4. up' = up \/ up' = [up EXCEPT ![link[p]] = Append(up[link[p]], m)]
      BY <2>27 DEF ReadNewJobAvailable, SendUp
    <3> HIDE DEF m
    <3>5. up' \in [Runners -> Seq(ClientMsg)]
      BY <3>3, <3>4
    <3>6. QED
      BY <2>27, <3>1, <3>5 DEF ReadNewJobAvailable, Updating
  <2>28. ASSUME NEW p \in Procs, PanicOnClaim(p) PROVE TypeOK'
    BY <2>28, RestartTyping DEF PanicOnClaim, Updating
  <2>29. ASSUME NEW p \in Procs, ReadJobClaimed(p) PROVE TypeOK'
    <3>1. /\ Head(down[link[p]]).id \in Jobs
          /\ down' \in [Runners -> Seq(ServerMsg)]
      BY <2>29, ReadsTyping DEF ReadJobClaimed
    <3> DEFINE j == Head(down[link[p]]).id
    <3>2. j \in Jobs
      BY <3>1
    <3>3. PICK status \in {"running", "failed"} :
            local' = [local EXCEPT ![p][j] = status]
      BY <2>29 DEF ReadJobClaimed
    <3>4. vm' = vm \/ vm' = [vm EXCEPT ![p] = vm[p] \cup {j}]
      BY <2>29 DEF ReadJobClaimed
    <3> HIDE DEF j
    <3>5. local' \in [Procs -> [Jobs -> LocalStatuses]]
      BY <3>2, <3>3 DEF LocalStatuses, Completions
    <3>6. vm' \in [Procs -> SUBSET Jobs]
      <4>1. vm[p] \cup {j} \in SUBSET Jobs
        BY <3>2
      <4>2. QED
        BY <3>4, <4>1
    <3>7. faults' \in [FaultKinds -> Nat]
      BY <2>29, FaultTyping DEF ReadJobClaimed, FaultKinds
    <3>8. QED
      BY <2>29, <3>1, <3>5, <3>6, <3>7 DEF ReadJobClaimed, Updating
  <2>30. ASSUME NEW p \in Procs, ReadJobTimedOut(p) PROVE TypeOK'
    <3>1. /\ Head(down[link[p]]).id \in Jobs
          /\ down' \in [Runners -> Seq(ServerMsg)]
      BY <2>30, ReadsTyping DEF ReadJobTimedOut
    <3>2. local' \in [Procs -> [Jobs -> LocalStatuses]]
      BY <2>30, <3>1, DecideTyping DEF ReadJobTimedOut, Completions
    <3>3. QED
      BY <2>30, <3>1, <3>2 DEF ReadJobTimedOut, Updating
  <2>31. ASSUME NEW p \in Procs, ReadJobCancelled(p) PROVE TypeOK'
    <3>1. /\ Head(down[link[p]]).id \in Jobs
          /\ down' \in [Runners -> Seq(ServerMsg)]
      BY <2>31, ReadsTyping DEF ReadJobCancelled
    <3>2. local' \in [Procs -> [Jobs -> LocalStatuses]]
      BY <2>31, <3>1, DecideTyping DEF ReadJobCancelled, Completions
    <3>3. QED
      BY <2>31, <3>1, <3>2 DEF ReadJobCancelled, Updating
  <2>32. ASSUME NEW p \in Procs, NEW j \in Jobs, FinishJob(p, j) PROVE TypeOK'
    <3>1. local' \in [Procs -> [Jobs -> LocalStatuses]]
      BY <2>32, DecideTyping DEF FinishJob, Completions
    <3>2. QED
      BY <2>32, <3>1 DEF FinishJob, Updating
  <2>33. ASSUME NEW p \in Procs, NEW j \in Jobs, ReleaseVm(p, j) PROVE TypeOK'
    BY <2>33 DEF ReleaseVm, Updating
  <2>34. ASSUME NEW p \in Procs, NEW j \in Jobs, ReportJob(p, j) PROVE TypeOK'
    <3>1. link[p] \in Runners /\ up[link[p]] \in Seq(ClientMsg)
      BY <2>34 DEF ReportJob
    <3>2. local' \in [Procs -> [Jobs -> LocalStatuses]]
      BY <2>34 DEF ReportJob, LocalStatuses
    <3>3. [type |-> "UpdateJobStatus", id |-> j, status |-> local[p][j]]
            \in ClientMsg
      BY <2>34 DEF ReportJob, ClientMsg
    <3> DEFINE m == [type |-> "UpdateJobStatus", id |-> j,
                     status |-> local[p][j]]
    <3>4. <<[type |-> "RequestJob"]>> \in Seq(ClientMsg) /\ <<>> \in Seq(ClientMsg)
      BY DEF ClientMsg
    <3>5. \/ up' = up
          \/ \E more \in Seq(ClientMsg) :
               up' = [up EXCEPT ![link[p]] = Append(up[link[p]], m) \o more]
      BY <2>34, <3>4 DEF ReportJob
    <3> HIDE DEF m
    <3>6. ASSUME NEW more \in Seq(ClientMsg)
          PROVE  [up EXCEPT ![link[p]] = Append(up[link[p]], m) \o more]
                   \in [Runners -> Seq(ClientMsg)]
      <4>1. Append(up[link[p]], m) \o more \in Seq(ClientMsg)
        BY <3>1, <3>3 DEF m
      <4>2. QED
        BY <4>1
    <3>7. up' \in [Runners -> Seq(ClientMsg)]
      <4>1. CASE up' = up
        BY <4>1
      <4>2. CASE up' # up
        <5>1. PICK more \in Seq(ClientMsg) :
                up' = [up EXCEPT ![link[p]] = Append(up[link[p]], m) \o more]
          BY <3>5, <4>2
        <5>2. QED
          BY <3>6, <5>1, Zenon
      <4>3. QED
        BY <4>1, <4>2
    <3>8. QED
      BY <2>34, <3>2, <3>7 DEF ReportJob, Updating
  <2>35. ASSUME NEW p \in Procs, Drain(p) PROVE TypeOK'
    BY <2>35, FaultTyping DEF Drain, Updating, FaultKinds
  <2>36. ASSUME NEW p \in Procs, ExitGracefully(p) PROVE TypeOK'
    BY <2>36, RestartTyping DEF ExitGracefully, Updating
  <2>37. ASSUME NEW p \in Procs, CrashRunner(p) PROVE TypeOK'
    BY <2>37, RestartTyping, FaultTyping DEF CrashRunner, Updating, FaultKinds
  <2>38. CASE RestartBackend
    <3>1. req' \in [Handlers -> Requests]
      BY <2>38 DEF RestartBackend, Requests
    <3>2. checker' \in CheckerStates
      BY <2>38 DEF RestartBackend, NextExpired, CheckerStates
    <3>3. /\ pc' \in [Runners -> {"unused", "poll", "idle", "check",
                                  "stamp", "reply", "closing", "gone"}]
          /\ \A c \in Runners : pc'[c] \in {"unused", "gone"}
      BY <2>38 DEF RestartBackend
    <3>4. /\ cur' \in [Runners -> [job : Jobs \cup {None},
                                   status : {"running"} \cup Completions]]
          /\ rx' \in [Runners -> Seq(Notices)]
      BY <2>38 DEF RestartBackend, NoCur
    <3>5. /\ sock' \in [Runners -> {"unused", "open", "closed"}]
          /\ up' \in [Runners -> Seq(ClientMsg)]
      BY <2>38 DEF RestartBackend
    <3>6. faults' \in [FaultKinds -> Nat]
      BY <2>38, FaultTyping DEF RestartBackend, FaultKinds
    <3>7. QED
      BY <2>38, <3>1, <3>2, <3>3, <3>4, <3>5, <3>6 DEF RestartBackend, Updating
  <2>39. CASE UNCHANGED vars
    BY <2>39 DEF vars, Updating
  <2>40. QED
    BY <2>1, <2>2, <2>3, <2>4, <2>5, <2>6, <2>7, <2>8, <2>9, <2>10, <2>11,
       <2>12, <2>13, <2>14, <2>15, <2>16, <2>17, <2>18, <2>19, <2>20, <2>21,
       <2>22, <2>23, <2>24, <2>25, <2>26, <2>27, <2>28, <2>29, <2>30, <2>31,
       <2>32, <2>33, <2>34, <2>35, <2>36, <2>37, <2>38, <2>39
       DEF Next, HandlerStep, CheckerStep, ConnectionStep, ReadSocket,
           ContinueTask, ClientStep, Reconnect, ReadMessage
<1>3. QED
  BY <1>1, <1>2, PTL DEF Spec

-----------------------------------------------------------------------------
(* Messages in a queue *)

LEMMA RangeOfAppend ==
  ASSUME NEW S, NEW q \in Seq(S), NEW m \in S
  PROVE  Range(Append(q, m)) = Range(q) \cup {m}
<1>1. <<m>> \in Seq(S)
  OBVIOUS
<1>2. Append(q, m) = q \o <<m>>
  BY AppendIsConcat
<1>3. Range(<<m>>) = {m}
  BY DEF Range
<1>4. Range(q \o <<m>>) = Range(q) \cup Range(<<m>>)
  BY <1>1, RangeConcatenation
<1>5. QED
  BY <1>2, <1>3, <1>4

LEMMA RangeOfReport ==
  ASSUME NEW S, NEW q \in Seq(S), NEW m \in S, NEW r \in Seq(S)
  PROVE  Range(Append(q, m) \o r) = Range(q) \cup {m} \cup Range(r)
<1>1. Append(q, m) \in Seq(S)
  OBVIOUS
<1>2. Range(Append(q, m) \o r) = Range(Append(q, m)) \cup Range(r)
  BY <1>1, RangeConcatenation
<1>3. QED
  BY <1>2, RangeOfAppend

LEMMA RangeOfTail ==
  ASSUME NEW S, NEW q \in Seq(S), q # <<>>
  PROVE  Head(q) \in Range(q) /\ Range(Tail(q)) \subseteq Range(q)
<1>1. /\ \A i \in DOMAIN Tail(q) : i + 1 \in DOMAIN q /\ Tail(q)[i] = q[i + 1]
      /\ 1 \in DOMAIN q /\ Head(q) = q[1]
  OBVIOUS
<1>2. QED
  BY <1>1 DEF Range

LEMMA RangeOfEmpty == Range(<<>>) = {}
BY DEF Range

-----------------------------------------------------------------------------
(* Rows after an update *)

LEMMA StatusWrite ==
  ASSUME NEW table \in [Jobs -> Row], NEW j \in Jobs, NEW s,
         NEW t, t = [table EXCEPT ![j].status = s]
  PROVE  \A k \in Jobs : /\ t[k].runner = table[k].runner
                         /\ t[k].status = IF k = j THEN s ELSE table[k].status
BY DEF Row

LEMMA CompletedWrite ==
  ASSUME TypeOK, NEW j \in Jobs, NEW s,
         jobs' = Completed(j, s)
  PROVE  \A k \in Jobs : /\ jobs'[k].runner = jobs[k].runner
                         /\ jobs'[k].status = IF k = j THEN s ELSE jobs[k].status
BY DEF TypeOK, DbTypeOK, Row, Completed

LEMMA ClaimWrite ==
  ASSUME NEW table \in [Jobs -> Row], NEW j \in Jobs, NEW s, NEW c,
         NEW t, t = [table EXCEPT ![j].status = s, ![j].runner = c]
  PROVE  \A k \in Jobs : /\ t[k].runner = IF k = j THEN c ELSE table[k].runner
                         /\ t[k].status = IF k = j THEN s ELSE table[k].status
BY DEF Row

LEMMA OtherWrite ==
  ASSUME NEW table \in [Jobs -> Row], NEW j \in Jobs, NEW s, NEW t,
         \/ t = [table EXCEPT ![j].started = s]
         \/ t = [table EXCEPT ![j].finished = s]
         \/ t = [table EXCEPT ![j].retried = s]
  PROVE  \A k \in Jobs : /\ t[k].runner = table[k].runner
                         /\ t[k].status = table[k].status
BY DEF Row

-----------------------------------------------------------------------------
(* What one step may do to each part of the ledger                         *)

(* A row keeps its runner and is left alone or completed, and a queued one *)
(* is only ever cancelled; or it is inserted; or an open connection claims *)
(* it.                                                                     *)
RowStep(j) ==
  \/ /\ jobs'[j].runner = jobs[j].runner
     /\ jobs'[j].status \in {jobs[j].status} \cup Completions
     /\ jobs[j].status = "queued" => jobs'[j].status \in {"queued", "cancelled"}
  \/ /\ jobs[j].status = "absent" /\ jobs'[j].status = "queued"
     /\ jobs[j].runner = None /\ jobs'[j].runner = None
  \/ /\ jobs[j].status = "queued" /\ jobs'[j].status = "running"
     /\ jobs[j].runner = None /\ jobs'[j].runner \in Runners
     /\ owner'[jobs'[j].runner] # None

OwnerStep(c) ==
  \/ owner'[c] = owner[c] /\ (pc'[c] = "unused" <=> pc[c] = "unused")
  \/ owner[c] = None /\ owner'[c] # None /\ pc'[c] # "unused"

LinkStep(p) ==
  \/ link'[p] \in {link[p], None}
  \/ owner'[link'[p]] = p

(* A task goes on with its update, or begins or answers one it may.        *)
TaskStep(c) ==
  \/ ~Updating(c)'
  \/ pc'[c] = pc[c] /\ cur'[c] = cur[c]
  \/ /\ pc'[c] = "reply" => cur'[c].status = "running"
     /\ IF cur'[c].status = "running"
        THEN jobs'[cur'[c].job].runner = c
        ELSE jobs'[cur'[c].job].runner # None

ExpiryStep ==
  /\ \A j \in checker'.todo : j \in checker.todo \/ jobs'[j].runner # None
  /\ \/ checker'.at \in {"wait", "each"}
     \/ checker.at \in {"complete", "check"} /\ checker'.job = checker.job
     \/ jobs'[checker'.job].runner # None

HoldStep(p, j) ==
  \/ local'[p][j] = "none"
  \/ local[p][j] # "none"
  \/ jobs'[j].runner # None /\ owner'[jobs'[j].runner] = p

DownStep(c) ==
  \A m \in Range(down'[c]) :
    \/ m \in Range(down[c])
    \/ m.type = "JobClaimed" => jobs'[m.id].runner = c

UpStep(c) ==
  \A m \in Range(up'[c]) :
    \/ m \in Range(up[c])
    \/ m.type = "UpdateJobStatus" =>
         jobs'[m.id].runner # None /\ owner'[jobs'[m.id].runner] = owner'[c]

LedgerStep ==
  /\ \A j \in Jobs : RowStep(j)
  /\ \A c \in Runners : OwnerStep(c)
  /\ \A p \in Procs : LinkStep(p)
  /\ \A c \in Runners : TaskStep(c)
  /\ ExpiryStep
  /\ \A p \in Procs, j \in Jobs : HoldStep(p, j)
  /\ \A c \in Runners : DownStep(c) /\ UpStep(c)

(* Whatever is true of the runner of a job, or of the owner of a           *)
(* connection, stays true.                                                 *)
LEMMA Kept ==
  ASSUME TypeOK, LedgerInv, LedgerStep
  PROVE  /\ \A j \in Jobs : jobs[j].runner # None =>
                             jobs'[j].runner = jobs[j].runner
         /\ \A c \in Runners : owner[c] # None => owner'[c] = owner[c]
BY DEF LedgerStep, RowStep, OwnerStep

LEMMA LedgerStepKeepsInv ==
  ASSUME TypeOK, TypeOK', LedgerInv, LedgerStep
  PROVE  LedgerInv'
<1>1. RowsInv'
  <2> SUFFICES ASSUME NEW j \in Jobs
               PROVE  /\ jobs'[j].status \in {"absent", "queued"} =>
                           jobs'[j].runner = None
                      /\ jobs'[j].status = "running" => jobs'[j].runner # None
                      /\ jobs'[j].runner # None => owner'[jobs'[j].runner] # None
    BY DEF RowsInv
  <2>1. jobs[j].runner \in Runners \cup {None}
    BY DEF TypeOK, DbTypeOK, Row
  <2>2. RowStep(j)
    BY DEF LedgerStep
  <2>3. QED
    BY <2>1, <2>2, Kept
       DEF RowStep, LedgerInv, RowsInv, Completions, Runners, None
<1>2. LinksInv'
  <2>1. \A c \in Runners : owner'[c] = None <=> pc'[c] = "unused"
    BY DEF LedgerStep, OwnerStep, LedgerInv, LinksInv
  <2>2. ASSUME NEW p \in Procs, link'[p] # None
        PROVE  owner'[link'[p]] = p
    <3>1. CASE link'[p] = link[p]
      <4>1. owner[link[p]] = p /\ link[p] \in Runners
        BY <2>2, <3>1 DEF LedgerInv, LinksInv, TypeOK, ClientTypeOK
      <4>2. QED
        BY <3>1, <4>1, Kept, NoProcAssumption
    <3>2. QED
      BY <2>2, <3>1 DEF LedgerStep, LinkStep
  <2>3. QED
    BY <2>1, <2>2 DEF LinksInv
<1>3. TasksInv'
  <2>1. ASSUME NEW c \in Runners
        PROVE  /\ pc'[c] = "reply" => cur'[c].status = "running"
               /\ Updating(c)' =>
                    IF cur'[c].status = "running"
                    THEN jobs'[cur'[c].job].runner = c
                    ELSE jobs'[cur'[c].job].runner # None
    <3>1. TaskStep(c)
      BY DEF LedgerStep
    <3>2. CASE Updating(c)' /\ pc'[c] = pc[c] /\ cur'[c] = cur[c]
      <4>1. Updating(c) /\ cur[c].job \in Jobs
        BY <3>2 DEF Updating, TypeOK, ConnTypeOK
      <4>2. QED
        BY <3>2, <4>1, Kept DEF LedgerInv, TasksInv, Runners, None
    <3>3. CASE ~Updating(c)'
      BY <3>3 DEF Updating
    <3>4. QED
      BY <3>1, <3>2, <3>3 DEF TaskStep
  <2>2. checker.todo \in SUBSET Jobs
    BY DEF TypeOK, WebTypeOK, CheckerStates
  <2>3. checker.at \in {"complete", "check"} => checker.job \in Jobs
    BY DEF TypeOK, WebTypeOK, CheckerStates
  <2>4. \A j \in checker'.todo : jobs'[j].runner # None
    BY <2>2, Kept DEF LedgerStep, ExpiryStep, LedgerInv, TasksInv
  <2>5. checker'.at \in {"complete", "check"} => jobs'[checker'.job].runner # None
    BY <2>3, Kept DEF LedgerStep, ExpiryStep, LedgerInv, TasksInv
  <2>6. QED
    BY <2>1, <2>4, <2>5 DEF TasksInv
<1>4. GrantsFollowLedger'
  <2>1. ASSUME NEW p \in Procs, NEW j \in Jobs, local'[p][j] # "none"
        PROVE  jobs'[j].runner # None /\ owner'[jobs'[j].runner] = p
    <3>1. HoldStep(p, j)
      BY DEF LedgerStep
    <3>2. CASE local[p][j] # "none"
      <4>1. jobs[j].runner # None /\ owner[jobs[j].runner] = p
        BY <3>2 DEF LedgerInv, GrantsFollowLedger
      <4>2. jobs[j].runner \in Runners
        BY <4>1 DEF TypeOK, DbTypeOK, Row
      <4>3. QED
        BY <4>1, <4>2, Kept, NoProcAssumption
    <3>3. QED
      BY <2>1, <3>1, <3>2 DEF HoldStep
  <2>2. ASSUME NEW c \in Runners, NEW m \in Range(down'[c]),
               m.type = "JobClaimed"
        PROVE  jobs'[m.id].runner = c
    <3>1. CASE m \in Range(down[c])
      <4>1. m \in ServerMsg
        BY <3>1, RangeOfSeq DEF TypeOK, WireTypeOK
      <4>2. m.id \in Jobs
        BY <4>1 DEF ServerMsg, Notices
      <4>3. jobs[m.id].runner = c
        BY <2>2, <3>1 DEF LedgerInv, GrantsFollowLedger
      <4>4. QED
        BY <4>2, <4>3, Kept DEF Runners, None
    <3>2. QED
      BY <2>2, <3>1 DEF LedgerStep, DownStep
  <2>3. ASSUME NEW c \in Runners, NEW m \in Range(up'[c]),
               m.type = "UpdateJobStatus"
        PROVE  /\ jobs'[m.id].runner # None
               /\ owner'[jobs'[m.id].runner] = owner'[c]
    <3>1. CASE m \in Range(up[c])
      <4>1. m \in ClientMsg
        BY <3>1, RangeOfSeq DEF TypeOK, WireTypeOK
      <4>2. m.id \in Jobs
        BY <2>3, <4>1 DEF ClientMsg
      <4>3. jobs[m.id].runner # None /\ owner[jobs[m.id].runner] = owner[c]
        BY <2>3, <3>1 DEF LedgerInv, GrantsFollowLedger
      <4>4. jobs[m.id].runner \in Runners /\ owner[jobs[m.id].runner] # None
        BY <4>2, <4>3 DEF LedgerInv, RowsInv, TypeOK, DbTypeOK, Row
      <4>5. QED
        BY <4>2, <4>3, <4>4, Kept
    <3>2. QED
      BY <2>3, <3>1 DEF LedgerStep, UpStep
  <2>4. QED
    BY <2>1, <2>2, <2>3 DEF GrantsFollowLedger
<1>5. QED
  BY <1>1, <1>2, <1>3, <1>4 DEF LedgerInv

(* What a step leaves alone is in order. *)
LEMMA Untouched ==
  ASSUME TypeOK
  PROVE  /\ UNCHANGED jobs => \A j \in Jobs : RowStep(j)
         /\ UNCHANGED <<owner, pc>> => \A c \in Runners : OwnerStep(c)
         /\ UNCHANGED link => \A p \in Procs : LinkStep(p)
         /\ UNCHANGED <<pc, cur>> => \A c \in Runners : TaskStep(c)
         /\ UNCHANGED checker => ExpiryStep
         /\ UNCHANGED local => \A p \in Procs, j \in Jobs : HoldStep(p, j)
         /\ UNCHANGED down => \A c \in Runners : DownStep(c)
         /\ UNCHANGED up => \A c \in Runners : UpStep(c)
<1>1. UNCHANGED checker => ExpiryStep
  BY DEF ExpiryStep, TypeOK, WebTypeOK, CheckerStates
<1>2. QED
  BY <1>1 DEF RowStep, OwnerStep, LinkStep, TaskStep, HoldStep, DownStep,
              UpStep, Updating

(* A message taken from the head of a queue, or put at its end. *)
LEMMA TakeUp ==
  ASSUME TypeOK, NEW c \in Runners, up[c] # <<>>,
         up' = [up EXCEPT ![c] = Tail(@)]
  PROVE  /\ Head(up[c]) \in Range(up[c]) /\ Head(up[c]) \in ClientMsg
         /\ \A d \in Runners : UpStep(d)
<1>1. up[c] \in Seq(ClientMsg)
  BY DEF TypeOK, WireTypeOK
<1>2. Head(up[c]) \in Range(up[c]) /\ Range(Tail(up[c])) \subseteq Range(up[c])
  BY <1>1, RangeOfTail
<1>3. Head(up[c]) \in ClientMsg
  BY <1>1, HeadTailProperties
<1>4. \A d \in Runners : Range(up'[d]) \subseteq Range(up[d])
  BY <1>2 DEF TypeOK, WireTypeOK
<1>5. QED
  BY <1>2, <1>3, <1>4 DEF UpStep

LEMMA TakeDown ==
  ASSUME TypeOK, NEW p \in Procs, NEW type, Reads(p, type)
  PROVE  /\ link[p] \in Runners
         /\ Head(down[link[p]]) \in Range(down[link[p]])
         /\ Head(down[link[p]]).type = type
         /\ \A d \in Runners : DownStep(d)
<1>1. link[p] \in Runners /\ down[link[p]] \in Seq(ServerMsg)
  BY DEF TypeOK, ClientTypeOK, WireTypeOK, Reads
<1>2. /\ Head(down[link[p]]) \in Range(down[link[p]])
      /\ Range(Tail(down[link[p]])) \subseteq Range(down[link[p]])
  BY <1>1, RangeOfTail DEF Reads
<1>3. \A d \in Runners : Range(down'[d]) \subseteq Range(down[d])
  BY <1>1, <1>2 DEF TypeOK, WireTypeOK, Reads
<1>4. QED
  BY <1>1, <1>2, <1>3 DEF DownStep, Reads

LEMMA PutDown ==
  ASSUME TypeOK, NEW c \in Runners, NEW m \in ServerMsg, SendDown(c, m),
         m.type = "JobClaimed" => jobs'[m.id].runner = c
  PROVE  \A d \in Runners : DownStep(d)
<1>1. down[c] \in Seq(ServerMsg)
  BY DEF TypeOK, WireTypeOK
<1>2. Range(Append(down[c], m)) = Range(down[c]) \cup {m}
  BY <1>1, RangeOfAppend
<1>3. \A d \in Runners :
        Range(down'[d]) \subseteq
          IF d = c THEN Range(down[d]) \cup {m} ELSE Range(down[d])
  BY <1>2 DEF SendDown, TypeOK, WireTypeOK
<1>4. QED
  BY <1>3 DEF DownStep

(* A process that restarts forgets its jobs and its connection. *)
LEMMA RestartStep ==
  ASSUME TypeOK, NEW p \in Procs, Restart(p)
  PROVE  /\ \A q \in Procs : LinkStep(q)
         /\ \A q \in Procs, j \in Jobs : HoldStep(q, j)
         /\ \A c \in Runners : DownStep(c)
<1>1. \A q \in Procs : LinkStep(q)
  BY DEF Restart, LinkStep, TypeOK, ClientTypeOK
<1>2. \A q \in Procs, j \in Jobs : HoldStep(q, j)
  BY DEF Restart, HoldStep, TypeOK, ClientTypeOK
<1>3. \A c \in Runners : Range(down'[c]) \subseteq Range(down[c])
  BY RangeOfEmpty DEF Restart, TypeOK, WireTypeOK
<1>4. QED
  BY <1>1, <1>2, <1>3 DEF DownStep

LEMMA DecideStep ==
  ASSUME TypeOK, NEW p \in Procs, NEW j \in Jobs, NEW status,
         Decide(p, j, status)
  PROVE  \A q \in Procs, i \in Jobs : HoldStep(q, i)
BY DEF Decide, HoldStep, TypeOK, ClientTypeOK

(* The end of a task's update. *)
LEMMA AfterUpdateStep ==
  ASSUME TypeOK, LedgerInv, NEW c \in Runners, Updating(c), AfterUpdate(c),
         \A j \in Jobs : jobs'[j].runner = jobs[j].runner
  PROVE  \A d \in Runners : TaskStep(d)
<1>1. cur[c].job \in Jobs
  BY DEF TypeOK, ConnTypeOK
<1>2. CASE cur[c].status = "running"
  <2>1. pc' = [pc EXCEPT ![c] = "reply"] /\ cur' = cur
    BY <1>2 DEF AfterUpdate
  <2>2. jobs[cur[c].job].runner = c
    BY <1>2 DEF LedgerInv, TasksInv
  <2>3. TaskStep(c)
    BY <1>1, <1>2, <2>1, <2>2 DEF TaskStep
  <2>4. QED
    BY <2>1, <2>3 DEF TaskStep, TypeOK, ConnTypeOK
<1>3. CASE cur[c].status # "running"
  BY <1>3 DEF AfterUpdate, TaskStep, TypeOK, ConnTypeOK, Updating
<1>4. QED
  BY <1>2, <1>3

-----------------------------------------------------------------------------
(* Every action is such a step. *)
LEMMA NextLedger ==
  ASSUME TypeOK, LedgerInv, [Next]_vars
  PROVE  LedgerStep
<1> USE DEF dbVars, webVars, connVars, wireVars, clientVars
<1>1. ASSUME NEW h \in Handlers, CreateJob(h) PROVE LedgerStep
  <2>1. \A j \in Jobs : RowStep(j)
    BY <1>1 DEF CreateJob, NextJob, NewRow, RowStep, LedgerInv, RowsInv,
                TypeOK, DbTypeOK
  <2>2. QED
    BY <1>1, <2>1, Untouched DEF CreateJob, LedgerStep
<1>2. ASSUME NEW h \in Handlers, LinkJob(h) PROVE LedgerStep
  BY <1>2, Untouched DEF LinkJob, LedgerStep
<1>3. ASSUME NEW h \in Handlers, BroadcastJob(h) PROVE LedgerStep
  BY <1>3, Untouched DEF BroadcastJob, LedgerStep
<1>4. ASSUME NEW h \in Handlers, NotifyCancelled(h) PROVE LedgerStep
  BY <1>4, Untouched DEF NotifyCancelled, LedgerStep
<1>5. ASSUME NEW h \in Handlers, CheckCancelled(h) PROVE LedgerStep
  BY <1>5, Untouched DEF CheckCancelled, LedgerStep
<1>6. ASSUME NEW h \in Handlers, InsertRetry(h) PROVE LedgerStep
  <2> DEFINE j == req[h].job
  <2>1. j \in Jobs
    BY <1>6 DEF InsertRetry, TypeOK, WebTypeOK, Requests, Idle
  <2>2. PICK k \in Jobs :
          /\ jobs[k].status = "absent"
          /\ jobs' = [jobs EXCEPT ![k] = NewRow(jobs[j].platform, jobs[j].demand, j),
                                  ![j].retried = k]
    BY <1>6 DEF InsertRetry, NextJob
  <2> DEFINE table == [jobs EXCEPT ![k] = NewRow(jobs[j].platform, jobs[j].demand, j)]
  <2>3. NewRow(jobs[j].platform, jobs[j].demand, j) \in Row
    BY <2>1 DEF NewRow, Row, JobStatuses, TypeOK, DbTypeOK
  <2>4. table \in [Jobs -> Row]
    BY <2>3 DEF TypeOK, DbTypeOK
  <2>5. jobs' = [table EXCEPT ![j].retried = k]
    BY <2>2
  <2>6. \A i \in Jobs : /\ jobs'[i].runner = table[i].runner
                        /\ jobs'[i].status = table[i].status
    BY <2>1, <2>4, <2>5, OtherWrite
  <2>7. \A i \in Jobs : RowStep(i)
    BY <2>2, <2>6 DEF NewRow, RowStep, LedgerInv, RowsInv, TypeOK, DbTypeOK
  <2>8. QED
    BY <1>6, <2>7, Untouched DEF InsertRetry, LedgerStep
<1>7. ASSUME NEW h \in Handlers, NEW j \in Jobs, CancelJob(h, j)
      PROVE  LedgerStep
  <2>1. \A i \in Jobs : RowStep(i)
    BY <1>7, CompletedWrite DEF CancelJob, RowStep, Completions
  <2>2. QED
    BY <1>7, <2>1, Untouched DEF CancelJob, LedgerStep
<1>8. ASSUME NEW h \in Handlers, NEW j \in Jobs, RetryJob(h, j)
      PROVE  LedgerStep
  BY <1>8, Untouched DEF RetryJob, LedgerStep
<1>9. ASSUME NEW j \in Jobs, Age(j) PROVE LedgerStep
  <2>1. \A i \in Jobs : RowStep(i)
    BY <1>9, OtherWrite DEF Age, RowStep, TypeOK, DbTypeOK
  <2>2. QED
    BY <1>9, <2>1, Untouched DEF Age, LedgerStep
<1>10. CASE FindExpired
  <2>1. ExpiryStep
    BY <1>10 DEF FindExpired, Expired, ExpiryStep, LedgerInv, RowsInv
  <2>2. QED
    BY <1>10, <2>1, Untouched DEF FindExpired, LedgerStep
<1>11. ASSUME NEW j \in Jobs, NotifyTimedOut(j) PROVE LedgerStep
  <2>1. jobs[j].runner # None
    BY <1>11 DEF NotifyTimedOut, LedgerInv, TasksInv
  <2>2. ExpiryStep
    BY <1>11, <2>1 DEF NotifyTimedOut, NextExpired, ExpiryStep
  <2>3. QED
    BY <1>11, <2>2, Untouched DEF NotifyTimedOut, LedgerStep
<1>12. CASE CompleteTimedOut
  <2>1. checker.job \in Jobs
    BY <1>12 DEF CompleteTimedOut, TypeOK, WebTypeOK, CheckerStates
  <2>2. jobs[checker.job].status # "queued"
    BY <1>12, <2>1 DEF CompleteTimedOut, LedgerInv, RowsInv, TasksInv
  <2>3. \A i \in Jobs : RowStep(i)
    BY <1>12, <2>1, <2>2, CompletedWrite DEF CompleteTimedOut, RowStep, Completions
  <2>4. ExpiryStep
    BY <1>12 DEF CompleteTimedOut, ExpiryStep, TypeOK, WebTypeOK, CheckerStates
  <2>5. QED
    BY <1>12, <2>3, <2>4, Untouched DEF CompleteTimedOut, LedgerStep
<1>13. CASE CheckTimedOut
  <2>1. ExpiryStep
    BY <1>13 DEF CheckTimedOut, NextExpired, ExpiryStep
  <2>2. QED
    BY <1>13, <2>1, Untouched DEF CheckTimedOut, LedgerStep
<1>14. ASSUME NEW c \in Runners, CheckAndSendJob(c) PROVE LedgerStep
  <2>1. \A d \in Runners : OwnerStep(d) /\ TaskStep(d)
    BY <1>14 DEF CheckAndSendJob, OwnerStep, TaskStep, Updating, TypeOK, ConnTypeOK
  <2>2. UNCHANGED down \/ \E j \in Jobs : SendDown(c, Msg("NewJobAvailable", j))
    BY <1>14 DEF CheckAndSendJob, Candidates
  <2>3. \A j \in Jobs : Msg("NewJobAvailable", j).type # "JobClaimed"
    BY DEF Msg
  <2>4. \A d \in Runners : DownStep(d)
    BY <2>2, <2>3, Untouched, MsgTyping, PutDown
  <2>5. QED
    BY <1>14, <2>1, <2>4, Untouched DEF CheckAndSendJob, LedgerStep
<1>15. ASSUME NEW c \in Runners, HandleClaimJob(c) PROVE LedgerStep
  <2> DEFINE j == Head(up[c]).id
  <2>1. /\ up[c] # <<>> /\ Head(up[c]).type = "ClaimJob" /\ pc[c] = "idle"
        /\ up' = [up EXCEPT ![c] = Tail(@)]
        /\ UNCHANGED <<owner, down, link, local, checker>>
    BY <1>15 DEF HandleClaimJob, Receives
  <2>2. j \in Jobs /\ \A d \in Runners : UpStep(d)
    BY <2>1, TakeUp DEF ClientMsg
  <2>3. owner[c] # None
    BY <2>1 DEF LedgerInv, LinksInv
  <2>4. CASE jobs[j].status = "queued"
    <3>1. /\ jobs' = [jobs EXCEPT ![j].status = "running", ![j].runner = c]
          /\ pc' = [pc EXCEPT ![c] = "check"]
          /\ cur' = [cur EXCEPT ![c] = [job |-> j, status |-> "running"]]
      BY <1>15, <2>4 DEF HandleClaimJob
    <3>2. \A k \in Jobs :
            /\ jobs'[k].runner = IF k = j THEN c ELSE jobs[k].runner
            /\ jobs'[k].status = IF k = j THEN "running" ELSE jobs[k].status
      BY <2>2, <3>1, ClaimWrite DEF TypeOK, DbTypeOK
    <3> HIDE DEF j
    <3>3. \A k \in Jobs : RowStep(k)
      BY <2>1, <2>2, <2>3, <2>4, <3>2 DEF RowStep, LedgerInv, RowsInv
    <3>4. \A d \in Runners : OwnerStep(d)
      BY <2>1, <3>1 DEF OwnerStep, TypeOK, ConnTypeOK
    <3>5. \A d \in Runners : TaskStep(d)
      BY <2>2, <3>1, <3>2 DEF TaskStep, TypeOK, ConnTypeOK
    <3>6. QED
      BY <2>1, <2>2, <3>3, <3>4, <3>5, Untouched DEF LedgerStep
  <2>5. CASE jobs[j].status # "queued"
    <3>1. UNCHANGED <<jobs, pc, cur>>
      BY <1>15, <2>5 DEF HandleClaimJob
    <3>2. QED
      BY <2>1, <2>2, <3>1, Untouched DEF LedgerStep
  <2>6. QED
    BY <2>4, <2>5
<1>16. ASSUME NEW c \in Runners, HandleUpdateJobStatus(c) PROVE LedgerStep
  <2> DEFINE m == Head(up[c])
  <2>1. /\ up[c] # <<>> /\ m.type = "UpdateJobStatus" /\ pc[c] = "idle"
        /\ up' = [up EXCEPT ![c] = Tail(@)]
        /\ jobs' = [jobs EXCEPT ![m.id].status = m.status]
        /\ pc' = [pc EXCEPT ![c] = "check"]
        /\ cur' = [cur EXCEPT ![c] = [job |-> m.id, status |-> m.status]]
        /\ UNCHANGED <<owner, down, link, local, checker>>
    BY <1>16 DEF HandleUpdateJobStatus, Receives
  <2>2. /\ m.id \in Jobs /\ m.status \in Completions /\ m \in Range(up[c])
        /\ \A d \in Runners : UpStep(d)
    BY <2>1, TakeUp DEF ClientMsg
  <2>3. jobs[m.id].runner # None /\ jobs[m.id].status # "queued"
    BY <2>1, <2>2 DEF LedgerInv, GrantsFollowLedger, RowsInv
  <2> HIDE DEF m
  <2>4. \A k \in Jobs :
          /\ jobs'[k].runner = jobs[k].runner
          /\ jobs'[k].status = IF k = m.id THEN m.status ELSE jobs[k].status
    BY <2>1, <2>2, StatusWrite DEF TypeOK, DbTypeOK
  <2>5. \A k \in Jobs : RowStep(k)
    BY <2>2, <2>3, <2>4 DEF RowStep
  <2>6. \A d \in Runners : OwnerStep(d)
    BY <2>1 DEF OwnerStep, TypeOK, ConnTypeOK
  <2>7. \A d \in Runners : TaskStep(d)
    BY <2>1, <2>2, <2>3, <2>4 DEF TaskStep, Completions, TypeOK, ConnTypeOK
  <2>8. QED
    BY <2>1, <2>2, <2>5, <2>6, <2>7, Untouched DEF LedgerStep
<1>17. ASSUME NEW c \in Runners, HandleRequestJob(c) PROVE LedgerStep
  <2>1. /\ up[c] # <<>> /\ up' = [up EXCEPT ![c] = Tail(@)]
        /\ pc[c] = "idle" /\ pc' = [pc EXCEPT ![c] = "poll"]
        /\ UNCHANGED <<jobs, checker, owner, cur, down, link, local>>
    BY <1>17 DEF HandleRequestJob, Receives
  <2>2. \A d \in Runners : UpStep(d)
    BY <2>1, TakeUp
  <2>3. \A d \in Runners : OwnerStep(d) /\ TaskStep(d)
    BY <2>1 DEF OwnerStep, TaskStep, Updating, TypeOK, ConnTypeOK
  <2>4. QED
    BY <2>1, <2>2, <2>3, Untouched DEF LedgerStep
<1>18. ASSUME NEW c \in Runners, UpdateCheck(c) PROVE LedgerStep
  <2>1. \A d \in Runners : OwnerStep(d)
    BY <1>18 DEF UpdateCheck, AfterUpdate, OwnerStep, TypeOK, ConnTypeOK
  <2>2. \A d \in Runners : TaskStep(d)
    <3>1. CASE AfterUpdate(c)
      BY <1>18, <3>1, AfterUpdateStep DEF UpdateCheck, Updating
    <3>2. CASE pc' = [pc EXCEPT ![c] = "stamp"] /\ UNCHANGED cur
      <4>1. TaskStep(c)
        BY <1>18, <3>2 DEF UpdateCheck, TaskStep, Updating, LedgerInv, TasksInv,
                           TypeOK, ConnTypeOK
      <4>2. QED
        BY <3>2, <4>1 DEF TaskStep, TypeOK, ConnTypeOK
    <3>3. QED
      BY <1>18, <3>1, <3>2 DEF UpdateCheck
  <2>3. QED
    BY <1>18, <2>1, <2>2, Untouched DEF UpdateCheck, LedgerStep
<1>19. ASSUME NEW c \in Runners, StampJob(c) PROVE LedgerStep
  <2>1. cur[c].job \in Jobs
    BY <1>19 DEF StampJob, Updating, TypeOK, ConnTypeOK
  <2>2. \A k \in Jobs : /\ jobs'[k].runner = jobs[k].runner
                        /\ jobs'[k].status = jobs[k].status
    BY <1>19, <2>1, OtherWrite DEF StampJob, TypeOK, DbTypeOK
  <2>3. \A k \in Jobs : RowStep(k)
    BY <2>2 DEF RowStep
  <2>4. \A d \in Runners : OwnerStep(d)
    BY <1>19 DEF StampJob, AfterUpdate, OwnerStep, TypeOK, ConnTypeOK
  <2>5. \A d \in Runners : TaskStep(d)
    BY <1>19, <2>2, AfterUpdateStep DEF StampJob, Updating
  <2>6. QED
    BY <1>19, <2>3, <2>4, <2>5, Untouched DEF StampJob, LedgerStep
<1>20. ASSUME NEW c \in Runners, ReplyJobClaimed(c) PROVE LedgerStep
  <2>1. \A d \in Runners : OwnerStep(d) /\ TaskStep(d)
    BY <1>20 DEF ReplyJobClaimed, OwnerStep, TaskStep, Updating, TypeOK, ConnTypeOK
  <2>2. cur[c].job \in Jobs /\ jobs[cur[c].job].runner = c
    BY <1>20 DEF ReplyJobClaimed, LedgerInv, TasksInv, Updating, TypeOK, ConnTypeOK
  <2>3. \A d \in Runners : DownStep(d)
    BY <1>20, <2>2, MsgTyping, PutDown DEF ReplyJobClaimed, Msg
  <2>4. QED
    BY <1>20, <2>1, <2>3, Untouched DEF ReplyJobClaimed, LedgerStep
<1>21. ASSUME NEW c \in Runners, ForwardToRunner(c) PROVE LedgerStep
  <2>1. \A d \in Runners : OwnerStep(d) /\ TaskStep(d)
    BY <1>21 DEF ForwardToRunner, OwnerStep, TaskStep, Updating, TypeOK, ConnTypeOK
  <2>2. Head(rx[c]) \in Notices
    BY <1>21, HeadTailProperties DEF ForwardToRunner, TypeOK, ConnTypeOK
  <2>3. Head(rx[c]) \in ServerMsg /\ Head(rx[c]).type # "JobClaimed"
    BY <2>2 DEF ServerMsg, Notices
  <2>4. \A d \in Runners : DownStep(d)
    BY <1>21, <2>3, PutDown DEF ForwardToRunner
  <2>5. QED
    BY <1>21, <2>1, <2>4, Untouched DEF ForwardToRunner, LedgerStep
<1>22. ASSUME NEW c \in Runners, HangUp(c) PROVE LedgerStep
  <2>1. \A d \in Runners : OwnerStep(d) /\ TaskStep(d)
    BY <1>22 DEF HangUp, OwnerStep, TaskStep, Updating, TypeOK, ConnTypeOK
  <2>2. QED
    BY <1>22, <2>1, Untouched DEF HangUp, LedgerStep
<1>23. ASSUME NEW c \in Runners, UnregisterRunner(c) PROVE LedgerStep
  <2>1. \A d \in Runners : OwnerStep(d) /\ TaskStep(d)
    BY <1>23 DEF UnregisterRunner, OwnerStep, TaskStep, Updating, TypeOK, ConnTypeOK
  <2>2. \A d \in Runners : UpStep(d)
    BY <1>23, RangeOfEmpty DEF UnregisterRunner, UpStep, TypeOK, WireTypeOK
  <2>3. QED
    BY <1>23, <2>1, <2>2, Untouched DEF UnregisterRunner, LedgerStep
<1>24. ASSUME NEW c \in Runners, CutConnection(c) PROVE LedgerStep
  BY <1>24, Untouched DEF CutConnection, LedgerStep
<1>25. ASSUME NEW p \in Procs, Connect(p) PROVE LedgerStep
  <2>1. PICK c \in Runners :
          /\ pc[c] = "unused"
          /\ link' = [link EXCEPT ![p] = c]
          /\ owner' = [owner EXCEPT ![c] = p]
          /\ pc' = [pc EXCEPT ![c] = "poll"]
          /\ up' = [up EXCEPT ![c] =
               IF HasMinimalCapacity(p) THEN <<[type |-> "RequestJob"]>> ELSE <<>>]
    BY <1>25 DEF Connect
  <2>2. owner[c] = None
    BY <2>1 DEF LedgerInv, LinksInv
  <2>3. \A d \in Runners : OwnerStep(d) /\ TaskStep(d)
    BY <1>25, <2>1, <2>2, NoProcAssumption
       DEF Connect, OwnerStep, TaskStep, Updating, TypeOK, ConnTypeOK
  <2>4. \A q \in Procs : LinkStep(q)
    BY <2>1 DEF LinkStep, TypeOK, ConnTypeOK, ClientTypeOK
  <2>5. Range(<<[type |-> "RequestJob"]>>) = {[type |-> "RequestJob"]}
    BY DEF Range
  <2>6. \A d \in Runners : UpStep(d)
    BY <2>1, <2>5, RangeOfEmpty DEF UpStep, TypeOK, WireTypeOK
  <2>7. QED
    BY <1>25, <2>3, <2>4, <2>6, Untouched DEF Connect, LedgerStep
<1>26. ASSUME NEW p \in Procs, LoseConnection(p) PROVE LedgerStep
  <2>1. \A q \in Procs : LinkStep(q)
    BY <1>26 DEF LoseConnection, LinkStep, TypeOK, ClientTypeOK
  <2>2. \A d \in Runners : DownStep(d)
    BY <1>26, RangeOfEmpty DEF LoseConnection, DownStep, TypeOK, WireTypeOK
  <2>3. QED
    BY <1>26, <2>1, <2>2, Untouched DEF LoseConnection, LedgerStep
<1>27. ASSUME NEW p \in Procs, ReadNewJobAvailable(p) PROVE LedgerStep
  <2> DEFINE m == Msg("ClaimJob", Head(down[link[p]]).id)
  <2>1. \A d \in Runners : DownStep(d)
    BY <1>27, TakeDown DEF ReadNewJobAvailable
  <2>2. link[p] \in Runners /\ m \in ClientMsg /\ m.type # "UpdateJobStatus"
    BY <1>27, ReadsTyping, MsgTyping DEF ReadNewJobAvailable, Msg
  <2>3. up' = up \/ up' = [up EXCEPT ![link[p]] = Append(@, m)]
    BY <1>27 DEF ReadNewJobAvailable, SendUp
  <2> HIDE DEF m
  <2>4. Range(Append(up[link[p]], m)) = Range(up[link[p]]) \cup {m}
    BY <2>2, RangeOfAppend DEF TypeOK, WireTypeOK
  <2>5. \A d \in Runners : Range(up'[d]) \subseteq Range(up[d]) \cup {m}
    BY <2>2, <2>3, <2>4 DEF TypeOK, WireTypeOK
  <2>6. \A d \in Runners : UpStep(d)
    BY <2>2, <2>5 DEF UpStep
  <2>7. QED
    BY <1>27, <2>1, <2>6, Untouched DEF ReadNewJobAvailable, LedgerStep
<1>28. ASSUME NEW p \in Procs, PanicOnClaim(p) PROVE LedgerStep
  BY <1>28, Untouched, RestartStep DEF PanicOnClaim, LedgerStep
<1>29. ASSUME NEW p \in Procs, ReadJobClaimed(p) PROVE LedgerStep
  <2> DEFINE j == Head(down[link[p]]).id
  <2>1. link[p] \in Runners /\ j \in Jobs /\ \A d \in Runners : DownStep(d)
    BY <1>29, TakeDown, ReadsTyping DEF ReadJobClaimed
  <2>2. jobs[j].runner = link[p]
    BY <1>29, <2>1, TakeDown DEF ReadJobClaimed, LedgerInv, GrantsFollowLedger
  <2>3. owner[link[p]] = p
    BY <2>1 DEF LedgerInv, LinksInv, Runners, None
  <2>4. \E status \in {"running", "failed"} :
          local' = [local EXCEPT ![p][j] = status]
    BY <1>29 DEF ReadJobClaimed
  <2>5. UNCHANGED <<jobs, owner>>
    BY <1>29 DEF ReadJobClaimed
  <2> HIDE DEF j
  <2>6. \A q \in Procs, i \in Jobs : HoldStep(q, i)
    BY <2>1, <2>2, <2>3, <2>4, <2>5
       DEF HoldStep, TypeOK, ClientTypeOK, Runners, None
  <2>7. QED
    BY <1>29, <2>1, <2>6, Untouched DEF ReadJobClaimed, LedgerStep
<1>30. ASSUME NEW p \in Procs, ReadJobTimedOut(p) PROVE LedgerStep
  BY <1>30, Untouched, TakeDown, DecideStep, ReadsTyping
     DEF ReadJobTimedOut, LedgerStep
<1>31. ASSUME NEW p \in Procs, ReadJobCancelled(p) PROVE LedgerStep
  BY <1>31, Untouched, TakeDown, DecideStep, ReadsTyping
     DEF ReadJobCancelled, LedgerStep
<1>32. ASSUME NEW p \in Procs, NEW j \in Jobs, FinishJob(p, j)
       PROVE  LedgerStep
  BY <1>32, Untouched, DecideStep DEF FinishJob, LedgerStep
<1>33. ASSUME NEW p \in Procs, NEW j \in Jobs, ReleaseVm(p, j)
       PROVE  LedgerStep
  BY <1>33, Untouched DEF ReleaseVm, LedgerStep
<1>34. ASSUME NEW p \in Procs, NEW j \in Jobs, ReportJob(p, j)
       PROVE  LedgerStep
  <2> DEFINE c == link[p]
             m == [type |-> "UpdateJobStatus", id |-> j, status |-> local[p][j]]
             request == <<[type |-> "RequestJob"]>>
             nothing == <<>>
  <2>1. c \in Runners /\ c # None /\ local[p][j] \in Completions
    BY <1>34 DEF ReportJob, TypeOK, ClientTypeOK
  <2>2. jobs[j].runner # None /\ owner[jobs[j].runner] = p /\ owner[c] = p
    BY <2>1 DEF LedgerInv, LinksInv, GrantsFollowLedger, Completions
  <2>3. local' = [local EXCEPT ![p][j] = "reported"] /\ UNCHANGED <<jobs, owner>>
    BY <1>34 DEF ReportJob
  <2>4. \A q \in Procs, i \in Jobs : HoldStep(q, i)
    BY <2>1, <2>3 DEF HoldStep, TypeOK, ClientTypeOK, Completions
  <2>5. /\ up[c] \in Seq(ClientMsg) /\ m \in ClientMsg
        /\ request \in Seq(ClientMsg) /\ nothing \in Seq(ClientMsg)
        /\ Range(request) = {[type |-> "RequestJob"]} /\ Range(nothing) = {}
    BY <2>1 DEF TypeOK, WireTypeOK, ClientMsg, Range
  <2>6. \/ up' = up
        \/ up' = [up EXCEPT ![c] = Append(@, m) \o request]
        \/ up' = [up EXCEPT ![c] = Append(@, m) \o nothing]
    BY <1>34 DEF ReportJob
  <2>7. m.id = j
    OBVIOUS
  <2> HIDE DEF m, c, request, nothing
  <2>8. Range(Append(up[c], m) \o request) =
          Range(up[c]) \cup {m} \cup Range(request)
    BY <2>5, RangeOfReport
  <2>9. Range(Append(up[c], m) \o nothing) =
          Range(up[c]) \cup {m} \cup Range(nothing)
    BY <2>5, RangeOfReport
  <2>10. \A d \in Runners : Range(up'[d]) \subseteq
           IF d = c THEN Range(up[d]) \cup {m, [type |-> "RequestJob"]}
           ELSE Range(up[d])
    BY <2>1, <2>5, <2>6, <2>8, <2>9 DEF TypeOK, WireTypeOK
  <2>11. \A d \in Runners : UpStep(d)
    BY <2>2, <2>3, <2>7, <2>10 DEF UpStep
  <2>12. QED
    BY <1>34, <2>4, <2>11, Untouched DEF ReportJob, LedgerStep
<1>35. ASSUME NEW p \in Procs, Drain(p) PROVE LedgerStep
  BY <1>35, Untouched DEF Drain, LedgerStep
<1>36. ASSUME NEW p \in Procs, ExitGracefully(p) PROVE LedgerStep
  BY <1>36, Untouched, RestartStep DEF ExitGracefully, LedgerStep
<1>37. ASSUME NEW p \in Procs, CrashRunner(p) PROVE LedgerStep
  BY <1>37, Untouched, RestartStep DEF CrashRunner, LedgerStep
<1>38. CASE RestartBackend
  <2>1. \A d \in Runners : OwnerStep(d) /\ TaskStep(d)
    BY <1>38 DEF RestartBackend, OwnerStep, TaskStep, Updating
  <2>2. ExpiryStep
    BY <1>38 DEF RestartBackend, NextExpired, ExpiryStep
  <2>3. \A d \in Runners : UpStep(d)
    BY <1>38, RangeOfEmpty DEF RestartBackend, UpStep
  <2>4. QED
    BY <1>38, <2>1, <2>2, <2>3, Untouched DEF RestartBackend, LedgerStep
<1>39. CASE UNCHANGED vars
  BY <1>39, Untouched DEF vars, LedgerStep
<1>40. QED
  BY <1>1, <1>2, <1>3, <1>4, <1>5, <1>6, <1>7, <1>8, <1>9, <1>10, <1>11,
     <1>12, <1>13, <1>14, <1>15, <1>16, <1>17, <1>18, <1>19, <1>20, <1>21,
     <1>22, <1>23, <1>24, <1>25, <1>26, <1>27, <1>28, <1>29, <1>30, <1>31,
     <1>32, <1>33, <1>34, <1>35, <1>36, <1>37, <1>38, <1>39
     DEF Next, HandlerStep, CheckerStep, ConnectionStep, ReadSocket,
         ContinueTask, ClientStep, Reconnect, ReadMessage

-----------------------------------------------------------------------------
(* The ledger invariant holds, and with it GrantsFollowLedger: only the    *)
(* process behind runner_id is granted a job, runs it or reports its end.  *)
THEOREM Ledger == Spec => []LedgerInv
<1>1. Init => LedgerInv
  <2> SUFFICES ASSUME Init PROVE LedgerInv
    OBVIOUS
  <2>1. RowsInv
    BY DEF Init, RowsInv, NoRow
  <2>2. LinksInv
    BY DEF Init, LinksInv
  <2>3. TasksInv
    BY DEF Init, TasksInv, Updating
  <2>4. GrantsFollowLedger
    BY RangeOfEmpty DEF Init, GrantsFollowLedger
  <2>5. QED
    BY <2>1, <2>2, <2>3, <2>4 DEF LedgerInv
<1>2. TypeOK /\ TypeOK' /\ LedgerInv /\ [Next]_vars => LedgerInv'
  BY NextLedger, LedgerStepKeepsInv
<1>3. QED
  BY <1>1, <1>2, Typing, PTL DEF Spec

(* serve_ws grants a job to, takes reports of it from and leaves it to no  *)
(* process but the one behind the runner_id that the claim wrote.          *)
THEOREM OneRunner == Spec => []GrantsFollowLedger
<1>1. LedgerInv => GrantsFollowLedger
  BY DEF LedgerInv
<1>2. QED
  BY <1>1, Ledger, PTL

(* However handlers, connections and the checker interleave, a job that is *)
(* over stays over, a job keeps its runner, and a queued job is claimed or *)
(* cancelled: an end reported or timed out is always that of a claimed job.*)
THEOREM NeverReopens == Spec => JobNeverReopens
<1> DEFINE Step(j) ==
      /\ Complete(j) => Complete(j)'
      /\ jobs[j].runner # None => jobs[j].runner' = jobs[j].runner
      /\ jobs[j].status = "queued" =>
           jobs[j].status' \in {"queued", "running", "cancelled"}
<1>1. TypeOK /\ LedgerInv /\ [Next]_vars => [\A j \in Jobs : Step(j)]_jobs
  <2> SUFFICES ASSUME TypeOK, LedgerInv, [Next]_vars, NEW j \in Jobs
               PROVE  Step(j)
    OBVIOUS
  <2>1. RowStep(j)
    BY NextLedger DEF LedgerStep
  <2>2. QED
    BY <2>1 DEF RowStep, Complete, Completions
<1>2. QED
  BY <1>1, Typing, Ledger, PTL DEF Spec, JobNeverReopens
==============================================================================
