---------------------------- MODULE LineageProofs ----------------------------
(***************************************************************************)
(* Retries lead back to jobs that are over, and a runner hears of a job    *)
(* before it hears of its end, for every value of the constants of         *)
(* Dispatch.                                                               *)
(***************************************************************************)
EXTENDS DispatchProofs

-----------------------------------------------------------------------------
(* Retries *)

(* A retry in flight is of a job that is over, and only a row that was     *)
(* inserted has a predecessor.                                             *)
LineageInv ==
  /\ \A h \in Handlers : req[h].at = "retry" => Complete(req[h].job)
  /\ \A j \in Jobs : jobs[j].status = "absent" => jobs[j].prev = None
  /\ RetryLineage

(* A row keeps its place in the history of its job, or is inserted without *)
(* one.                                                                    *)
SameLine(j) ==
  /\ jobs'[j].prev = jobs[j].prev
  /\ jobs'[j].platform = jobs[j].platform
  /\ jobs'[j].retried = jobs[j].retried

Extends(j) == SameLine(j) \/ (jobs[j].status = "absent" /\ jobs'[j].prev = None)

(* The row k is inserted as the retry of j. *)
Retries(j, k) ==
  /\ Complete(j) /\ jobs[k].status = "absent" /\ jobs'[k].status # "absent"
  /\ jobs'[k].prev = j /\ jobs'[k].platform = jobs[j].platform
  /\ jobs'[j].retried = k
  /\ jobs'[j].prev = jobs[j].prev /\ jobs'[j].platform = jobs[j].platform
  /\ \A i \in Jobs \ {j, k} : SameLine(i)

LineageStep ==
  \/ \A j \in Jobs : Extends(j)
  \/ \E j, k \in Jobs : Retries(j, k)

RequestStep ==
  \A h \in Handlers : req'[h].at = "retry" =>
    Complete(req[h].job)' \/ req'[h] = req[h]

(* Job::cancel, Job::complete, update_job_status, claim_job_for_runner and *)
(* the stamps write none of the three columns.                             *)
LEMMA WritesElsewhere ==
  ASSUME NEW table \in [Jobs -> Row], NEW j \in Jobs, NEW s, NEW c, NEW t,
         \/ t = [table EXCEPT ![j].status = s]
         \/ t = [table EXCEPT ![j].status = s, ![j].finished = TRUE]
         \/ t = [table EXCEPT ![j].status = s, ![j].runner = c]
         \/ t = [table EXCEPT ![j].started = s]
         \/ t = [table EXCEPT ![j].finished = TRUE]
  PROVE  \A k \in Jobs : /\ t[k].prev = table[k].prev
                         /\ t[k].platform = table[k].platform
                         /\ t[k].retried = table[k].retried
<1>1. CASE t = [table EXCEPT ![j].status = s]
  BY <1>1 DEF Row
<1>2. CASE t = [table EXCEPT ![j].status = s, ![j].finished = TRUE]
  BY <1>2 DEF Row
<1>3. CASE t = [table EXCEPT ![j].status = s, ![j].runner = c]
  BY <1>3 DEF Row
<1>4. CASE t = [table EXCEPT ![j].started = s]
  BY <1>4 DEF Row
<1>5. CASE t = [table EXCEPT ![j].finished = TRUE]
  BY <1>5 DEF Row
<1>6. QED
  BY <1>1, <1>2, <1>3, <1>4, <1>5

(* The two writes of Job::retry. *)
LEMMA RetryWrites ==
  ASSUME TypeOK, NEW j \in Jobs, NEW k \in Jobs,
         Complete(j), jobs[k].status = "absent",
         jobs' = [jobs EXCEPT ![k] = NewRow(jobs[j].platform, jobs[j].demand, j),
                              ![j].retried = k]
  PROVE  Retries(j, k)
<1> DEFINE new == NewRow(jobs[j].platform, jobs[j].demand, j)
<1>1. jobs \in [Jobs -> Row] /\ j # k
  BY DEF TypeOK, DbTypeOK, Complete, Completions
<1>2. /\ new.prev = j /\ new.platform = jobs[j].platform
      /\ new.status = "queued"
  BY DEF NewRow
<1>3. jobs' = [jobs EXCEPT ![k] = new, ![j].retried = k]
  OBVIOUS
<1> HIDE DEF new
<1>4. /\ jobs'[k] = new /\ jobs'[j] = [jobs[j] EXCEPT !.retried = k]
      /\ \A i \in Jobs \ {j, k} : jobs'[i] = jobs[i]
  BY <1>1, <1>3
<1>5. /\ jobs'[j].retried = k /\ jobs'[j].prev = jobs[j].prev
      /\ jobs'[j].platform = jobs[j].platform
  BY <1>1, <1>4 DEF Row
<1>6. QED
  BY <1>2, <1>4, <1>5 DEF Retries, SameLine

LEMMA NextLineage ==
  ASSUME TypeOK, LineageInv, [Next]_vars
  PROVE  LineageStep
<1> USE DEF dbVars, webVars, connVars, wireVars, clientVars
<1>1. UNCHANGED jobs => LineageStep
  BY DEF LineageStep, Extends, SameLine
<1>2. jobs \in [Jobs -> Row]
  BY DEF TypeOK, DbTypeOK
<1>3. ASSUME NEW h \in Handlers, CreateJob(h) PROVE LineageStep
  <2>1. PICK j \in Jobs, f \in Platforms, n \in Amounts :
          NextJob(j) /\ jobs' = [jobs EXCEPT ![j] = NewRow(f, n, None)]
    BY <1>3 DEF CreateJob
  <2>2. QED
    BY <1>2, <2>1 DEF NextJob, NewRow, LineageStep, Extends, SameLine
<1>4. ASSUME NEW h \in Handlers, InsertRetry(h) PROVE LineageStep
  <2> DEFINE j == req[h].job
  <2>1. j \in Jobs /\ Complete(j)
    BY <1>4 DEF InsertRetry, TypeOK, WebTypeOK, Requests, Idle, LineageInv
  <2>2. PICK k \in Jobs :
          /\ jobs[k].status = "absent"
          /\ jobs' = [jobs EXCEPT ![k] = NewRow(jobs[j].platform, jobs[j].demand, j),
                                  ![j].retried = k]
    BY <1>4 DEF InsertRetry, NextJob
  <2>3. Retries(j, k)
    BY <2>1, <2>2, RetryWrites
  <2>4. QED
    BY <2>1, <2>3 DEF LineageStep
<1>5. ASSUME NEW h \in Handlers, NEW j \in Jobs, CancelJob(h, j)
      PROVE  LineageStep
  BY <1>2, <1>5, WritesElsewhere
     DEF CancelJob, Completed, LineageStep, Extends, SameLine
<1>6. ASSUME NEW j \in Jobs, Age(j) PROVE LineageStep
  BY <1>2, <1>6, WritesElsewhere DEF Age, LineageStep, Extends, SameLine
<1>7. CASE CompleteTimedOut
  <2>1. checker.job \in Jobs
    BY <1>7 DEF CompleteTimedOut, TypeOK, WebTypeOK, CheckerStates
  <2>2. QED
    BY <1>2, <1>7, <2>1, WritesElsewhere
       DEF CompleteTimedOut, Completed, LineageStep, Extends, SameLine
<1>8. ASSUME NEW c \in Runners, HandleClaimJob(c) \/ HandleUpdateJobStatus(c)
      PROVE  LineageStep
  <2>1. Head(up[c]) \in ClientMsg /\ Head(up[c]).type # "RequestJob"
    BY <1>8, HeadTailProperties
       DEF HandleClaimJob, HandleUpdateJobStatus, Receives, TypeOK, WireTypeOK
  <2>2. Head(up[c]).id \in Jobs
    BY <2>1 DEF ClientMsg
  <2> DEFINE j == Head(up[c]).id
  <2>3. \/ jobs' = jobs
        \/ \E s : jobs' = [jobs EXCEPT ![j].status = s]
        \/ jobs' = [jobs EXCEPT ![j].status = "running", ![j].runner = c]
    BY <1>8 DEF HandleClaimJob, HandleUpdateJobStatus
  <2> HIDE DEF j
  <2>4. j \in Jobs
    BY <2>2 DEF j
  <2>5. QED
    BY <1>1, <1>2, <2>3, <2>4, WritesElsewhere DEF LineageStep, Extends, SameLine
<1>9. ASSUME NEW c \in Runners, StampJob(c) PROVE LineageStep
  <2>1. cur[c].job \in Jobs
    BY <1>9 DEF StampJob, Updating, TypeOK, ConnTypeOK
  <2>2. QED
    BY <1>2, <1>9, <2>1, WritesElsewhere
       DEF StampJob, LineageStep, Extends, SameLine
<1>10. ASSUME NEW h \in Handlers,
              \/ LinkJob(h) \/ BroadcastJob(h) \/ NotifyCancelled(h)
              \/ CheckCancelled(h) \/ \E j \in Jobs : RetryJob(h, j)
       PROVE  UNCHANGED jobs
  BY <1>10 DEF LinkJob, BroadcastJob, NotifyCancelled, CheckCancelled, RetryJob
<1>11. CASE FindExpired \/ CheckTimedOut \/ \E j \in Jobs : NotifyTimedOut(j)
  BY <1>1, <1>11 DEF FindExpired, NotifyTimedOut, CheckTimedOut
<1>12. ASSUME NEW c \in Runners,
              \/ HandleRequestJob(c) \/ ForwardToRunner(c) \/ CheckAndSendJob(c)
              \/ UpdateCheck(c) \/ ReplyJobClaimed(c) \/ HangUp(c)
              \/ UnregisterRunner(c) \/ CutConnection(c)
       PROVE  UNCHANGED jobs
  BY <1>12 DEF HandleRequestJob, ForwardToRunner, CheckAndSendJob, UpdateCheck,
               ReplyJobClaimed, HangUp, UnregisterRunner, CutConnection
<1>13. ASSUME NEW p \in Procs, ClientStep(p) \/ CrashRunner(p)
       PROVE  UNCHANGED jobs
  BY <1>13 DEF ClientStep, Reconnect, ReadMessage, LoseConnection, Connect,
               ReadNewJobAvailable, ReadJobClaimed, ReadJobTimedOut,
               ReadJobCancelled, PanicOnClaim, FinishJob, ReleaseVm, ReportJob,
               Drain, ExitGracefully, CrashRunner
<1>14. CASE RestartBackend \/ UNCHANGED vars
  BY <1>1, <1>14 DEF RestartBackend, vars
<1>15. QED
  BY <1>1, <1>3, <1>4, <1>5, <1>6, <1>7, <1>8, <1>9, <1>10, <1>11, <1>12,
     <1>13, <1>14 DEF Next, HandlerStep, CheckerStep, ConnectionStep,
                      ReadSocket, ContinueTask

(* Only retry_job starts a retry, of a job it has found to be over. *)
LEMMA NextRequest ==
  ASSUME TypeOK, [Next]_vars
  PROVE  RequestStep
<1> USE DEF dbVars, webVars, connVars, wireVars, clientVars
<1>1. UNCHANGED req => RequestStep
  BY DEF RequestStep
<1>2. ASSUME NEW h \in Handlers, NEW r, req' = [req EXCEPT ![h] = r],
             r.at = "retry" => Complete(r.job)'
      PROVE  RequestStep
  BY <1>2 DEF RequestStep, TypeOK, WebTypeOK
<1>3. ASSUME NEW h \in Handlers, CreateJob(h) PROVE RequestStep
  <2>1. \E j \in Jobs : req' = [req EXCEPT ![h] = At("link", j)]
    BY <1>3 DEF CreateJob
  <2>2. QED
    BY <1>2, <2>1 DEF At
<1>4. ASSUME NEW h \in Handlers, LinkJob(h) PROVE RequestStep
  <2>1. \/ req' = [req EXCEPT ![h] = Idle]
        \/ \E ids : req' = [req EXCEPT ![h] =
                       [at |-> "broadcast", job |-> req[h].job, to |-> ids]]
    BY <1>4 DEF LinkJob
  <2>2. QED
    BY <1>2, <2>1 DEF Idle
<1>5. ASSUME NEW h \in Handlers, BroadcastJob(h) \/ CheckCancelled(h)
      PROVE  RequestStep
  BY <1>2, <1>5 DEF BroadcastJob, CheckCancelled, Idle
<1>6. ASSUME NEW h \in Handlers, InsertRetry(h) PROVE RequestStep
  <2>1. \E k \in Jobs : req' = [req EXCEPT ![h] = At("link", k)]
    BY <1>6 DEF InsertRetry
  <2>2. QED
    BY <1>2, <2>1 DEF At
<1>7. ASSUME NEW h \in Handlers, NEW j \in Jobs, CancelJob(h, j)
      PROVE  RequestStep
  <2>1. \E s \in {"notify", "check"} : req' = [req EXCEPT ![h] = At(s, j)]
    BY <1>7 DEF CancelJob
  <2>2. QED
    BY <1>2, <2>1 DEF At
<1>8. ASSUME NEW h \in Handlers, NEW j \in Jobs, RetryJob(h, j)
      PROVE  RequestStep
  <2>1. Complete(j)'
    BY <1>8 DEF RetryJob, IsRetryable, Complete
  <2>2. QED
    BY <1>2, <1>8, <2>1 DEF RetryJob, At
<1>9. ASSUME NEW h \in Handlers, NotifyCancelled(h) PROVE RequestStep
  <2>1. req' = [req EXCEPT ![h].at = "check"] /\ req \in [Handlers -> Requests]
    BY <1>9 DEF NotifyCancelled, TypeOK, WebTypeOK
  <2>2. req[h] \in Requests
    BY <2>1
  <2>3. req'[h].at = "check"
    BY <2>1, <2>2 DEF Requests, Idle
  <2>4. QED
    BY <2>1, <2>3 DEF RequestStep
<1>10. CASE CheckerStep \/ (\E j \in Jobs : Age(j)) \/ UNCHANGED vars
  BY <1>1, <1>10 DEF CheckerStep, FindExpired, NotifyTimedOut, CompleteTimedOut,
                    CheckTimedOut, Age, vars
<1>11. ASSUME NEW c \in Runners, ConnectionStep(c) \/ CutConnection(c)
      PROVE  UNCHANGED req
  BY <1>11 DEF ConnectionStep, ReadSocket, ContinueTask, HandleClaimJob,
              HandleUpdateJobStatus, HandleRequestJob, ForwardToRunner,
              CheckAndSendJob, UpdateCheck, StampJob, ReplyJobClaimed, HangUp,
              UnregisterRunner, CutConnection
<1>12. ASSUME NEW p \in Procs, ClientStep(p) \/ CrashRunner(p)
      PROVE  UNCHANGED req
  BY <1>12 DEF ClientStep, Reconnect, ReadMessage, LoseConnection, Connect,
              ReadNewJobAvailable, ReadJobClaimed, ReadJobTimedOut,
              ReadJobCancelled, PanicOnClaim, FinishJob, ReleaseVm, ReportJob,
              Drain, ExitGracefully, CrashRunner
<1>13. CASE RestartBackend
  BY <1>13 DEF RestartBackend, RequestStep, Idle
<1>14. QED
  BY <1>1, <1>3, <1>4, <1>5, <1>6, <1>7, <1>8, <1>9, <1>10, <1>11, <1>12,
     <1>13 DEF Next, HandlerStep

LEMMA LineageStepKeeps ==
  ASSUME TypeOK, TypeOK', LineageInv, LineageStep, RequestStep,
         \A j \in Jobs : RowStep(j)
  PROVE  LineageInv'
<1>1. ASSUME NEW j \in Jobs
      PROVE  /\ Complete(j) => Complete(j)'
             /\ jobs'[j].status = "absent" => jobs[j].status = "absent"
  BY DEF RowStep, Complete, Completions
<1>2. \A j \in Jobs : jobs[j] \in Row /\ jobs'[j] \in Row
  BY DEF TypeOK, DbTypeOK
<1>3. ASSUME NEW h \in Handlers, req'[h].at = "retry"
      PROVE  Complete(req[h].job)'
  <2>1. CASE req'[h] = req[h]
    <3>1. req[h].job \in Jobs /\ Complete(req[h].job)
      BY <1>3, <2>1 DEF LineageInv, TypeOK, WebTypeOK, Requests, Idle
    <3>2. jobs'[req[h].job].status \in Completions
      BY <1>1, <3>1 DEF Complete
    <3>3. QED
      BY <2>1, <3>2 DEF Complete
  <2>2. QED
    BY <1>3, <2>1 DEF RequestStep
<1>4. CASE \A j \in Jobs : Extends(j)
  <2>1. ASSUME NEW j \in Jobs, jobs'[j].status = "absent"
        PROVE  jobs'[j].prev = None
    BY <1>1, <1>4, <2>1 DEF LineageInv, Extends, SameLine
  <2>2. ASSUME NEW k \in Jobs, jobs'[k].prev # None
        PROVE  LET j == jobs'[k].prev IN
               /\ jobs'[j].status \in Completions
               /\ jobs'[j].platform = jobs'[k].platform
               /\ jobs'[j].retried # None /\ jobs'[jobs'[j].retried].prev = j
    <3> DEFINE j == jobs[k].prev
    <3>1. SameLine(k) /\ j # None
      BY <1>4, <2>2 DEF Extends, SameLine
    <3>2. j \in Jobs /\ Complete(j)
      BY <1>2, <3>1 DEF Row, LineageInv, RetryLineage
    <3>3. SameLine(j) /\ jobs'[j].status \in Completions
      BY <1>1, <1>4, <3>2 DEF Extends, Complete, Completions
    <3> DEFINE i == jobs[j].retried
    <3>4. i # None /\ jobs[i].prev = j /\ jobs[j].platform = jobs[k].platform
      BY <3>1 DEF LineageInv, RetryLineage
    <3>5. i \in Jobs
      BY <1>2, <3>2, <3>4 DEF Row
    <3>6. SameLine(i)
      BY <1>4, <3>1, <3>4, <3>5 DEF Extends, LineageInv
    <3>7. jobs'[k].prev = j /\ jobs'[j].retried = i
      BY <3>1, <3>3 DEF SameLine
    <3>8. QED
      BY <3>1, <3>3, <3>4, <3>6, <3>7 DEF SameLine, Complete
  <2>3. QED
    BY <1>3, <2>1, <2>2 DEF LineageInv, RetryLineage, Complete
<1>5. ASSUME NEW j \in Jobs, NEW k \in Jobs, Retries(j, k)
      PROVE  LineageInv'
  <2>1. j # k
    BY <1>5 DEF Retries, Complete, Completions
  <2>2. /\ jobs'[k].prev = j /\ jobs'[j].retried = k
        /\ jobs'[k].platform = jobs[j].platform
        /\ jobs'[j].platform = jobs[j].platform /\ jobs'[j].prev = jobs[j].prev
        /\ Complete(j) /\ jobs[k].status = "absent" /\ jobs[k].prev = None
        /\ jobs'[k].status # "absent"
    BY <1>5 DEF Retries, LineageInv
  <2>3. \A i \in Jobs \ {j, k} : SameLine(i)
    BY <1>5 DEF Retries
  <2>4. ASSUME NEW i \in Jobs, jobs'[i].status = "absent"
        PROVE  jobs'[i].prev = None
    BY <1>1, <2>2, <2>3, <2>4 DEF LineageInv, SameLine, Complete, Completions
  <2>5. j # None /\ k # None
    BY DEF Jobs, None
  <2>6. ASSUME NEW i \in Jobs, jobs'[i].prev # None
        PROVE  LET m == jobs'[i].prev IN
               /\ jobs'[m].status \in Completions
               /\ jobs'[m].platform = jobs'[i].platform
               /\ jobs'[m].retried # None /\ jobs'[jobs'[m].retried].prev = m
    <3>1. CASE i = k
      BY <1>1, <2>2, <2>5, <3>1 DEF Complete
    <3>2. CASE i # k
      <4> DEFINE m == jobs[i].prev
      <4>1. jobs'[i].prev = m /\ jobs'[i].platform = jobs[i].platform
        BY <2>2, <2>3, <3>2 DEF SameLine
      <4>2. /\ m \in Jobs /\ Complete(m) /\ jobs[m].platform = jobs[i].platform
            /\ jobs[m].retried # None /\ jobs[jobs[m].retried].prev = m
        BY <1>2, <2>6, <4>1 DEF Row, LineageInv, RetryLineage
      <4>3. m # k /\ jobs'[m].status \in Completions
        BY <1>1, <2>2, <4>2 DEF Complete, Completions
      <4>4. jobs'[m].platform = jobs[m].platform
        BY <2>2, <2>3, <4>2, <4>3 DEF SameLine
      <4> DEFINE r == jobs[m].retried
      <4>5. r \in Jobs /\ r # k
        BY <1>2, <2>2, <4>2 DEF Row, None, Jobs
      <4> HIDE DEF m, r
      <4>6. jobs[r].prev = m /\ jobs'[r].prev = m
        BY <2>2, <2>3, <4>2, <4>5 DEF SameLine, r
      <4>7. jobs'[m].retried # None /\ jobs'[jobs'[m].retried].prev = m
        <5>1. CASE m = j
          BY <2>2, <2>5, <5>1
        <5>2. CASE m # j
          <6>1. jobs'[m].retried = r
            BY <2>3, <4>2, <4>3, <5>2 DEF SameLine, r
          <6>2. QED
            BY <4>2, <4>6, <6>1 DEF r
        <5>3. QED
          BY <5>1, <5>2
      <4>8. QED
        BY <4>1, <4>2, <4>3, <4>4, <4>7
    <3>3. QED
      BY <3>1, <3>2
  <2>7. QED
    BY <1>3, <2>4, <2>6 DEF LineageInv, RetryLineage, Complete
<1>6. QED
  BY <1>4, <1>5 DEF LineageStep

(* Rows of jobs keep the links that Job::retry gave them, and a handler of *)
(* retry that has read its job is about to insert the row it read.         *)
THEOREM LineageInvariant == Spec => []LineageInv
<1>1. Init => LineageInv
  BY DEF Init, LineageInv, RetryLineage, NoRow, Idle
<1>2. TypeOK /\ TypeOK' /\ LedgerInv /\ LineageInv /\ [Next]_vars => LineageInv'
  BY NextLedger, NextLineage, NextRequest, LineageStepKeeps DEF LedgerStep
<1>3. QED
  BY <1>1, <1>2, Typing, Ledger, PTL DEF Spec

(* However retries interleave with each other and with cancellations and   *)
(* late reports, a row that Job::retry inserted follows a job that is over *)
(* and stays so, on its platform, whose row leads on to a retry of it.     *)
THEOREM Lineage == Spec => []RetryLineage
<1>1. LineageInv => RetryLineage
  BY DEF LineageInv
<1>2. QED
  BY <1>1, LineageInvariant, PTL

-----------------------------------------------------------------------------
(* Control messages *)

LEMMA RangeOfRest ==
  ASSUME NEW S, NEW q \in Seq(S), q # <<>>
  PROVE  Range(q) \subseteq {Head(q)} \cup Range(Tail(q))
<1> SUFFICES ASSUME NEW i \in DOMAIN q, i # 1
             PROVE  q[i] \in Range(Tail(q))
  BY DEF Range
<1>1. i - 1 \in DOMAIN Tail(q) /\ Tail(q)[i - 1] = q[i]
  OBVIOUS
<1>2. QED
  BY <1>1 DEF Range

IsControl(m) == m.type \in {"JobCancelled", "JobTimedOut"}

(* The task of c has yet to answer the claim of j. *)
Answering(c, j) ==
  Updating(c) /\ cur[c].job = j /\ cur[c].status = "running"

(* A cancellation or a timeout is only ever on its way to the connection   *)
(* that claimed the job.                                                   *)
Addressed(c) ==
  /\ \A m \in Range(rx[c]) : IsControl(m) => jobs[m.id].runner = c
  /\ \A m \in Range(down[c]) : IsControl(m) => jobs[m.id].runner = c

(* A process that is reading c knows every job claimed over c, or will be  *)
(* told: the answer is on the wire, or the task is still producing it.     *)
Told(p) ==
  link[p] # None /\ sock[link[p]] = "open" =>
    \A j \in Jobs : jobs[j].runner = link[p] =>
      \/ local[p][j] # "none"
      \/ Answering(link[p], j)
      \/ Msg("JobClaimed", j) \in Range(down[link[p]])

(* ControlFollowsClaim for one process. *)
Follows(p) ==
  link[p] # None /\ sock[link[p]] = "open" =>
    \A i \in DOMAIN down[link[p]] : IsControl(down[link[p]][i]) =>
      \/ local[p][down[link[p]][i].id] # "none"
      \/ \E k \in 1 .. i - 1 :
           down[link[p]][k] = Msg("JobClaimed", down[link[p]][i].id)

ControlInv ==
  /\ \A c \in Runners : Addressed(c)
  /\ \A p \in Procs : Told(p) /\ Follows(p)

(* What one step may do to each part of the delivery.                      *)

(* A process keeps its connection and its socket stays open; or it has no  *)
(* open connection; or its connection is one nothing was claimed over.     *)
LinkKept(p) ==
  \/ link'[p] = None \/ sock'[link'[p]] # "open"
  \/ link'[p] = link[p] /\ sock[link[p]] = "open"
  \/ \A j \in Jobs : jobs'[j].runner # link'[p]

(* What a process knows it forgets only with its connection. *)
KnowledgeKept(p) ==
  \/ link'[p] = None
  \/ \A j \in Jobs : local[p][j] # "none" => local'[p][j] # "none"

(* One message is put in the queue to a process, a control message only    *)
(* from the channel of an idle task; or the process takes one, and a       *)
(* JobClaimed makes it know the job.                                       *)
QueueStep(p) ==
  link[p] # None /\ link'[p] = link[p] /\ sock'[link[p]] = "open" =>
    LET q == down[link[p]] IN
    \/ down'[link[p]] = q
    \/ \E m \in ServerMsg :
         /\ down'[link[p]] = Append(q, m)
         /\ IsControl(m) => pc[link[p]] = "idle" /\ m \in Range(rx[link[p]])
    \/ /\ q # <<>> /\ down'[link[p]] = Tail(q)
       /\ Head(q).type = "JobClaimed" => local'[p][Head(q).id] # "none"

(* A claim begins an answer, which ends in JobClaimed. *)
AnswerStep(c) ==
  sock'[c] = "open" =>
    \A j \in Jobs : jobs'[j].runner = c =>
      \/ Answering(c, j)'
      \/ /\ jobs[j].runner = c
         /\ Answering(c, j) => Msg("JobClaimed", j) \in Range(down'[c])

(* Control messages enter a channel for the runner of their job, and leave *)
(* it for the queue.                                                       *)
ChannelStep(c) ==
  \A m \in Range(rx'[c]) : IsControl(m) =>
    m \in Range(rx[c]) \/ jobs[m.id].runner = c

SentStep(c) ==
  \A m \in Range(down'[c]) : IsControl(m) =>
    m \in Range(down[c]) \/ m \in Range(rx[c])

DeliveryStep ==
  /\ \A p \in Procs : LinkKept(p) /\ KnowledgeKept(p) /\ QueueStep(p)
  /\ \A c \in Runners : AnswerStep(c) /\ ChannelStep(c) /\ SentStep(c)

LEMMA AddressedStep ==
  ASSUME TypeOK, TypeOK', LedgerInv, LedgerStep, ControlInv, DeliveryStep,
         NEW c \in Runners
  PROVE  Addressed(c)'
<1>1. \A j \in Jobs : jobs[j].runner = c => jobs'[j].runner = c
  BY Kept DEF Runners, None
<1>2. \A m \in Range(rx[c]) : m.id \in Jobs
  <2>1. rx[c] \in Seq(Notices)
    BY DEF TypeOK, ConnTypeOK
  <2>2. \A m \in Range(rx[c]) : m \in Notices
    BY <2>1, RangeOfSeq
  <2>3. QED
    BY <2>2 DEF Notices
<1>3. \A m \in Range(down[c]) : m.id \in Jobs
  BY RangeOfSeq DEF TypeOK, WireTypeOK, ServerMsg, Notices
<1>4. Addressed(c) /\ ChannelStep(c) /\ SentStep(c)
  BY DEF ControlInv, DeliveryStep
<1>5. ASSUME NEW m \in Range(rx'[c]), IsControl(m)
      PROVE  jobs'[m.id].runner = c
  <2>1. CASE m \in Range(rx[c])
    BY <1>1, <1>2, <1>4, <1>5, <2>1 DEF Addressed
  <2>2. CASE jobs[m.id].runner = c /\ m \notin Range(rx[c])
    <3>1. rx'[c] \in Seq(Notices)
      BY DEF TypeOK, ConnTypeOK
    <3>2. m \in Notices
      BY <1>5, <3>1, RangeOfSeq
    <3>3. QED
      BY <1>1, <2>2, <3>2 DEF Notices
  <2>3. QED
    BY <1>4, <1>5, <2>1, <2>2 DEF ChannelStep
<1>6. ASSUME NEW m \in Range(down'[c]), IsControl(m)
      PROVE  jobs'[m.id].runner = c
  BY <1>1, <1>2, <1>3, <1>4, <1>6 DEF Addressed, SentStep
<1>7. QED
  BY <1>5, <1>6 DEF Addressed

LEMMA ToldStep ==
  ASSUME TypeOK, TypeOK', LedgerInv, LedgerStep, ControlInv, DeliveryStep,
         NEW p \in Procs
  PROVE  Told(p)'
<1> SUFFICES ASSUME link'[p] # None, sock'[link'[p]] = "open", NEW j \in Jobs,
                    jobs'[j].runner = link'[p]
             PROVE  \/ local'[p][j] # "none"
                    \/ Answering(link[p], j)'
                    \/ Msg("JobClaimed", j) \in Range(down'[link'[p]])
  BY DEF Told
<1> DEFINE c == link[p]
<1>1. /\ LinkKept(p) /\ KnowledgeKept(p) /\ QueueStep(p) /\ Told(p)
  BY DEF DeliveryStep, ControlInv
<1>2. link'[p] = c /\ sock[c] = "open" /\ c # None /\ c \in Runners
  BY <1>1 DEF LinkKept, TypeOK, ClientTypeOK
<1>3. AnswerStep(c) /\ down[c] \in Seq(ServerMsg)
  BY <1>2 DEF DeliveryStep, TypeOK, WireTypeOK
<1>4. CASE Answering(c, j)'
  BY <1>4
<1>5. CASE ~Answering(c, j)' /\ jobs[j].runner = c
  <2>1. Answering(c, j) => Msg("JobClaimed", j) \in Range(down'[c])
    BY <1>2, <1>3, <1>5 DEF AnswerStep
  <2>2. CASE local[p][j] # "none"
    BY <1>1, <1>2, <2>2 DEF KnowledgeKept
  <2>3. CASE Msg("JobClaimed", j) \in Range(down[c])
    <3>1. CASE down'[c] = down[c]
      BY <1>2, <2>3, <3>1
    <3>2. ASSUME NEW m \in ServerMsg, down'[c] = Append(down[c], m)
          PROVE  Msg("JobClaimed", j) \in Range(down'[c])
      BY <1>3, <2>3, <3>2, RangeOfAppend
    <3>3. CASE /\ down[c] # <<>> /\ down'[c] = Tail(down[c])
               /\ Head(down[c]).type = "JobClaimed" =>
                    local'[p][Head(down[c]).id] # "none"
      <4>1. CASE Head(down[c]) = Msg("JobClaimed", j)
        BY <3>3, <4>1 DEF Msg
      <4>2. CASE Head(down[c]) # Msg("JobClaimed", j)
        <5>1. Range(down[c]) \subseteq {Head(down[c])} \cup Range(Tail(down[c]))
          BY <1>3, <3>3, RangeOfRest
        <5>2. QED
          BY <1>2, <2>3, <3>3, <4>2, <5>1
      <4>3. QED
        BY <4>1, <4>2
    <3>4. QED
      BY <1>1, <1>2, <3>1, <3>2, <3>3 DEF QueueStep
  <2>4. QED
    BY <1>1, <1>2, <1>5, <2>1, <2>2, <2>3 DEF Told
<1>6. QED
  BY <1>2, <1>3, <1>4, <1>5 DEF AnswerStep

LEMMA FollowsStep ==
  ASSUME TypeOK, TypeOK', LedgerInv, LedgerStep, ControlInv, DeliveryStep,
         NEW p \in Procs
  PROVE  Follows(p)'
<1> SUFFICES ASSUME link'[p] # None, sock'[link'[p]] = "open",
                    NEW i \in DOMAIN down'[link'[p]],
                    IsControl(down'[link'[p]][i])
             PROVE  \/ local'[p][down'[link'[p]][i].id] # "none"
                    \/ \E k \in 1 .. i - 1 :
                         down'[link'[p]][k] =
                           Msg("JobClaimed", down'[link'[p]][i].id)
  BY DEF Follows, IsControl
<1> DEFINE c == link[p]
<1>1. /\ LinkKept(p) /\ KnowledgeKept(p) /\ QueueStep(p)
      /\ Told(p) /\ Follows(p)
  BY DEF DeliveryStep, ControlInv
<1>2. CASE \A j \in Jobs : jobs'[j].runner # link'[p]
  <2> DEFINE m == down'[link'[p]][i]
  <2>1. link'[p] \in Runners /\ down'[link'[p]] \in Seq(ServerMsg)
    BY DEF TypeOK, ClientTypeOK, WireTypeOK
  <2>2. m \in Range(down'[link'[p]]) /\ m \in ServerMsg
    BY <2>1, RangeOfSeq DEF Range
  <2>3. m.id \in Jobs /\ jobs'[m.id].runner = link'[p]
    BY <2>1, <2>2, AddressedStep DEF Addressed, ServerMsg, Notices
  <2>4. QED
    BY <1>2, <2>3
<1>3. CASE link'[p] = c /\ sock[c] = "open"
  <2>1. c # None /\ c \in Runners
    BY <1>3 DEF TypeOK, ClientTypeOK
  <2>2. down[c] \in Seq(ServerMsg) /\ Addressed(c)
    BY <2>1 DEF TypeOK, WireTypeOK, ControlInv
  <2>3. \A j \in Jobs : local[p][j] # "none" => local'[p][j] # "none"
    BY <1>1 DEF KnowledgeKept
  <2>4. \A k \in DOMAIN down[c] : IsControl(down[c][k]) =>
          \/ local[p][down[c][k].id] # "none"
          \/ \E n \in 1 .. k - 1 : down[c][n] = Msg("JobClaimed", down[c][k].id)
    BY <1>1, <1>3, <2>1 DEF Follows
  <2>5. \A k \in DOMAIN down[c] : down[c][k].id \in Jobs
    <3>1. \A k \in DOMAIN down[c] : down[c][k] \in ServerMsg
      BY <2>2
    <3>2. QED
      BY <3>1 DEF ServerMsg, Notices
  <2>6. CASE down'[c] = down[c]
    BY <1>3, <2>3, <2>4, <2>5, <2>6
  <2>7. ASSUME NEW m \in ServerMsg, down'[c] = Append(down[c], m),
               IsControl(m) => pc[c] = "idle" /\ m \in Range(rx[c])
        PROVE  \/ local'[p][down'[c][i].id] # "none"
               \/ \E k \in 1 .. i - 1 :
                    down'[c][k] = Msg("JobClaimed", down'[c][i].id)
    <3>1. /\ i \in 1 .. Len(down[c]) + 1 /\ Len(down[c]) \in Nat
          /\ \A k \in 1 .. Len(down[c]) : down'[c][k] = down[c][k]
          /\ down'[c][Len(down[c]) + 1] = m
          /\ DOMAIN down[c] = 1 .. Len(down[c])
      BY <1>3, <2>2, <2>7
    <3>2. CASE i \in 1 .. Len(down[c])
      <4>1. down'[c][i] = down[c][i] /\ IsControl(down[c][i])
        BY <1>3, <3>1, <3>2
      <4>2. CASE local[p][down[c][i].id] # "none"
        BY <2>3, <2>5, <3>1, <3>2, <4>1, <4>2
      <4>3. CASE local[p][down[c][i].id] = "none"
        <5>1. PICK n \in 1 .. i - 1 : down[c][n] = Msg("JobClaimed", down[c][i].id)
          BY <2>4, <3>1, <3>2, <4>1, <4>3
        <5>2. down'[c][n] = down[c][n]
          BY <3>1, <3>2, <5>1
        <5>3. QED
          BY <4>1, <5>1, <5>2
      <4>4. QED
        BY <4>2, <4>3
    <3>3. CASE i = Len(down[c]) + 1
      <4>1. down'[c][i] = m /\ IsControl(m)
        BY <1>3, <3>1, <3>3
      <4>2. m.id \in Jobs /\ jobs[m.id].runner = c /\ pc[c] = "idle"
        BY <2>2, <2>7, <4>1 DEF Addressed, ServerMsg, Notices
      <4>3. ~Answering(c, m.id)
        BY <4>2 DEF Answering, Updating
      <4>4. CASE local[p][m.id] # "none"
        BY <2>3, <4>1, <4>2, <4>4
      <4>5. CASE Msg("JobClaimed", m.id) \in Range(down[c])
        <5>1. PICK n \in 1 .. Len(down[c]) : down[c][n] = Msg("JobClaimed", m.id)
          BY <3>1, <4>5 DEF Range
        <5>2. n \in 1 .. i - 1 /\ down'[c][n] = down[c][n]
          BY <3>1, <3>3, <5>1
        <5>3. QED
          BY <4>1, <5>1, <5>2
      <4>6. QED
        BY <1>1, <1>3, <2>1, <4>2, <4>3, <4>4, <4>5 DEF Told
    <3>4. QED
      BY <3>1, <3>2, <3>3
  <2>8. CASE /\ down[c] # <<>> /\ down'[c] = Tail(down[c])
             /\ Head(down[c]).type = "JobClaimed" =>
                  local'[p][Head(down[c]).id] # "none"
    <3>1. /\ i + 1 \in DOMAIN down[c] /\ down'[c][i] = down[c][i + 1]
          /\ i \in Nat
          /\ \A k \in 1 .. i : k + 1 \in DOMAIN down[c] /\ Tail(down[c])[k] = down[c][k + 1]
          /\ Head(down[c]) = down[c][1]
      BY <1>3, <2>2, <2>8
    <3>2. IsControl(down[c][i + 1])
      BY <1>3, <3>1
    <3>3. CASE local[p][down[c][i + 1].id] # "none"
      BY <1>3, <2>3, <2>5, <3>1, <3>3
    <3>4. CASE local[p][down[c][i + 1].id] = "none"
      <4>1. PICK n \in 1 .. i + 1 - 1 :
              down[c][n] = Msg("JobClaimed", down[c][i + 1].id)
        BY <2>4, <3>1, <3>2, <3>4
      <4>2. CASE n = 1
        BY <1>3, <2>8, <3>1, <4>1, <4>2 DEF Msg
      <4>3. CASE n # 1
        <5>1. n - 1 \in 1 .. i - 1 /\ n - 1 \in 1 .. i /\ (n - 1) + 1 = n
          BY <3>1, <4>1, <4>3
        <5>2. down'[c][n - 1] = down[c][n]
          BY <2>8, <3>1, <5>1
        <5>3. QED
          BY <1>3, <3>1, <4>1, <5>1, <5>2
      <4>4. QED
        BY <4>2, <4>3
    <3>5. QED
      BY <3>3, <3>4
  <2>9. QED
    BY <1>1, <1>3, <2>1, <2>6, <2>7, <2>8 DEF QueueStep
<1>4. QED
  BY <1>1, <1>2, <1>3 DEF LinkKept

(* What a step leaves alone is delivered as before. *)
SameRunners == \A j \in Jobs : jobs'[j].runner = jobs[j].runner

LEMMA Undisturbed ==
  ASSUME TypeOK
  PROVE  /\ UNCHANGED <<link, sock>> => \A p \in Procs : LinkKept(p)
         /\ UNCHANGED local => \A p \in Procs : KnowledgeKept(p)
         /\ UNCHANGED down => /\ \A p \in Procs : QueueStep(p)
                             /\ \A c \in Runners : SentStep(c)
         /\ UNCHANGED rx => \A c \in Runners : ChannelStep(c)
         /\ UNCHANGED jobs => SameRunners
BY DEF LinkKept, KnowledgeKept, QueueStep, SentStep, ChannelStep, SameRunners

(* Only the task of c goes on, and it does not forget a claim. *)
LEMMA TaskGoesOn ==
  ASSUME TypeOK, NEW c \in Runners, SameRunners,
         \A d \in Runners \ {c} : pc'[d] = pc[d] /\ cur'[d] = cur[d],
         \A j \in Jobs : Answering(c, j) =>
           \/ Answering(c, j)'
           \/ sock'[c] # "open"
           \/ Msg("JobClaimed", j) \in Range(down'[c])
  PROVE  \A d \in Runners : AnswerStep(d)
BY DEF AnswerStep, Answering, Updating, SameRunners

LEMMA TasksWait ==
  ASSUME SameRunners, UNCHANGED <<pc, cur>>
  PROVE  \A c \in Runners : AnswerStep(c)
BY DEF AnswerStep, Answering, Updating, SameRunners

LEMMA SendDelivers ==
  ASSUME TypeOK, NEW c \in Runners, NEW m \in ServerMsg, SendDown(c, m),
         IsControl(m) => pc[c] = "idle" /\ m \in Range(rx[c])
  PROVE  /\ \A p \in Procs : QueueStep(p)
         /\ \A d \in Runners : SentStep(d)
<1>1. down \in [Runners -> Seq(ServerMsg)]
  BY DEF TypeOK, WireTypeOK
<1>2. CASE sock[c] # "open"
  BY <1>2, Undisturbed DEF SendDown
<1>3. CASE sock[c] = "open"
  <2>1. /\ down'[c] = Append(down[c], m)
        /\ \A d \in Runners \ {c} : down'[d] = down[d]
    BY <1>1, <1>3 DEF SendDown
  <2>2. Range(down'[c]) = Range(down[c]) \cup {m}
    BY <1>1, <2>1, RangeOfAppend
  <2>3. \A d \in Runners : SentStep(d)
    BY <2>1, <2>2 DEF SentStep
  <2>4. \A p \in Procs : link[p] # None => link[p] \in Runners
    BY DEF TypeOK, ClientTypeOK
  <2>5. \A p \in Procs : QueueStep(p)
    BY <2>1, <2>4 DEF QueueStep
  <2>6. QED
    BY <2>3, <2>5
<1>4. QED
  BY <1>2, <1>3

(* Two processes do not read the same connection. *)
LEMMA OwnLink ==
  ASSUME LedgerInv, NEW p \in Procs, NEW q \in Procs, p # q, link[q] # None
  PROVE  link[p] # link[q]
BY DEF LedgerInv, LinksInv

LEMMA ReadDelivers ==
  ASSUME TypeOK, LedgerInv, NEW p \in Procs, NEW type, Reads(p, type),
         type = "JobClaimed" => local'[p][Head(down[link[p]]).id] # "none"
  PROVE  /\ \A q \in Procs : QueueStep(q)
         /\ \A d \in Runners : SentStep(d)
<1> DEFINE c == link[p]
<1>1. /\ c \in Runners /\ c # None /\ down[c] # <<>>
      /\ down \in [Runners -> Seq(ServerMsg)]
      /\ Head(down[c]).type = type
      /\ down' = [down EXCEPT ![c] = Tail(down[c])]
  BY DEF Reads, TypeOK, ClientTypeOK, WireTypeOK
<1>2. /\ down'[c] = Tail(down[c])
      /\ \A d \in Runners \ {c} : down'[d] = down[d]
  BY <1>1
<1>3. \A d \in Runners : SentStep(d)
  BY <1>1, TakeDown, <1>2, RangeOfTail DEF SentStep
<1>4. QueueStep(p)
  BY <1>1, <1>2 DEF QueueStep
<1>5. ASSUME NEW q \in Procs, q # p PROVE QueueStep(q)
  <2>1. link[q] # None => link[q] \in Runners /\ link[q] # c
    BY <1>5, OwnLink DEF TypeOK, ClientTypeOK
  <2>2. QED
    BY <1>2, <2>1 DEF QueueStep
<1>6. QED
  BY <1>3, <1>4, <1>5

(* TrySendTo hands a control message to the runner of the job. *)
LEMMA TrySendDelivers ==
  ASSUME TypeOK, NEW j \in Jobs, NEW m \in Notices, m.id = j,
         TrySendTo(jobs[j].runner, m)
  PROVE  \A c \in Runners : ChannelStep(c)
<1> DEFINE r == jobs[j].runner
<1>1. CASE CanSendTo(r)
  <2>1. r \in Runners /\ rx[r] \in Seq(Notices)
    BY <1>1 DEF CanSendTo, TypeOK, DbTypeOK, ConnTypeOK, Row
  <2>2. /\ rx'[r] = Append(rx[r], m)
        /\ \A c \in Runners \ {r} : rx'[c] = rx[c]
    BY <1>1, <2>1 DEF TrySendTo, TypeOK, ConnTypeOK
  <2>3. Range(rx'[r]) = Range(rx[r]) \cup {m}
    BY <2>1, <2>2, RangeOfAppend
  <2>4. QED
    BY <2>2, <2>3 DEF ChannelStep
<1>2. CASE ~CanSendTo(r)
  BY <1>2, Undisturbed DEF TrySendTo
<1>3. QED
  BY <1>1, <1>2

LEMMA RestartDelivers ==
  ASSUME TypeOK, LedgerInv, NEW p \in Procs, Restart(p)
  PROVE  /\ \A q \in Procs : LinkKept(q) /\ KnowledgeKept(q) /\ QueueStep(q)
         /\ \A c \in Runners : SentStep(c)
<1>1. \A c \in Runners : SentStep(c)
  BY RangeOfEmpty DEF Restart, SentStep
<1>2. LinkKept(p) /\ KnowledgeKept(p) /\ QueueStep(p)
  BY DEF Restart, LinkKept, KnowledgeKept, QueueStep, TypeOK, ClientTypeOK
<1>3. ASSUME NEW q \in Procs, q # p
      PROVE  LinkKept(q) /\ KnowledgeKept(q) /\ QueueStep(q)
  <2>1. link'[q] = link[q] /\ local'[q] = local[q]
    BY <1>3 DEF Restart, TypeOK, ClientTypeOK
  <2>2. link[q] # None =>
          /\ link[q] \in Runners
          /\ sock'[link[q]] = sock[link[q]] /\ down'[link[q]] = down[link[q]]
    <3> SUFFICES ASSUME link[q] # None
                 PROVE  /\ link[q] \in Runners
                        /\ sock'[link[q]] = sock[link[q]]
                        /\ down'[link[q]] = down[link[q]]
      OBVIOUS
    <3>1. link[q] \in Runners /\ link[q] # link[p]
      BY <1>3, OwnLink DEF TypeOK, ClientTypeOK
    <3>2. QED
      BY <3>1 DEF Restart
  <2>3. QED
    BY <2>1, <2>2 DEF LinkKept, KnowledgeKept, QueueStep
<1>4. QED
  BY <1>1, <1>2, <1>3

LEMMA DecideDelivers ==
  ASSUME TypeOK, NEW p \in Procs, NEW j \in Jobs, NEW status, status # "none",
         Decide(p, j, status)
  PROVE  \A q \in Procs : KnowledgeKept(q)
BY DEF Decide, KnowledgeKept, TypeOK, ClientTypeOK

(* runner_id is written by a claim alone. *)
LEMMA RunnersKept ==
  ASSUME TypeOK, LedgerInv, [Next]_vars,
         \A c \in Runners : ~HandleClaimJob(c)
  PROVE  SameRunners
<1> USE DEF dbVars, webVars, connVars, wireVars, clientVars
<1>1. jobs \in [Jobs -> Row]
  BY DEF TypeOK, DbTypeOK
<1>2. ASSUME NEW h \in Handlers, CreateJob(h) PROVE SameRunners
  <2>1. PICK j \in Jobs, f \in Platforms, n \in Amounts :
          NextJob(j) /\ jobs' = [jobs EXCEPT ![j] = NewRow(f, n, None)]
    BY <1>2 DEF CreateJob
  <2>2. QED
    BY <1>1, <2>1 DEF NextJob, NewRow, SameRunners, LedgerInv, RowsInv
<1>3. ASSUME NEW h \in Handlers, InsertRetry(h) PROVE SameRunners
  <2> DEFINE j == req[h].job
  <2>1. j \in Jobs
    BY <1>3 DEF InsertRetry, TypeOK, WebTypeOK, Requests, Idle
  <2>2. PICK k \in Jobs :
          /\ jobs[k].status = "absent"
          /\ jobs' = [jobs EXCEPT ![k] = NewRow(jobs[j].platform, jobs[j].demand, j),
                                  ![j].retried = k]
    BY <1>3 DEF InsertRetry, NextJob
  <2> DEFINE table == [jobs EXCEPT ![k] = NewRow(jobs[j].platform, jobs[j].demand, j)]
  <2>3. NewRow(jobs[j].platform, jobs[j].demand, j) \in Row
    BY <1>1, <2>1 DEF NewRow, Row, JobStatuses
  <2>4. table \in [Jobs -> Row]
    BY <1>1, <2>3
  <2>5. jobs' = [table EXCEPT ![j].retried = k]
    BY <2>2
  <2>6. \A i \in Jobs : jobs'[i].runner = table[i].runner
    BY <2>1, <2>4, <2>5, OtherWrite, SMTT(30)
  <2>7. QED
    BY <1>1, <2>2, <2>6 DEF NewRow, SameRunners, LedgerInv, RowsInv
<1>4. ASSUME NEW h \in Handlers, NEW j \in Jobs, CancelJob(h, j)
      PROVE  SameRunners
  BY <1>4, CompletedWrite DEF CancelJob, SameRunners
<1>5. ASSUME NEW j \in Jobs, Age(j) PROVE SameRunners
  BY <1>1, <1>5, OtherWrite DEF Age, SameRunners
<1>6. CASE CompleteTimedOut
  <2>1. checker.job \in Jobs
    BY <1>6 DEF CompleteTimedOut, TypeOK, WebTypeOK, CheckerStates
  <2>2. QED
    BY <1>6, <2>1, CompletedWrite DEF CompleteTimedOut, SameRunners
<1>7. ASSUME NEW c \in Runners, HandleUpdateJobStatus(c) PROVE SameRunners
  <2>1. Head(up[c]) \in ClientMsg /\ Head(up[c]).type = "UpdateJobStatus"
    BY <1>7, HeadTailProperties
       DEF HandleUpdateJobStatus, Receives, TypeOK, WireTypeOK
  <2>2. Head(up[c]).id \in Jobs
    BY <2>1 DEF ClientMsg
  <2> DEFINE j == Head(up[c]).id
             s == Head(up[c]).status
  <2>3. jobs' = [jobs EXCEPT ![j].status = s] /\ j \in Jobs
    BY <1>7, <2>2 DEF HandleUpdateJobStatus
  <2> HIDE DEF j, s
  <2>4. QED
    BY <1>1, <2>3, StatusWrite DEF SameRunners
<1>8. ASSUME NEW c \in Runners, StampJob(c) PROVE SameRunners
  <2>1. cur[c].job \in Jobs
    BY <1>8 DEF StampJob, Updating, TypeOK, ConnTypeOK
  <2>2. QED
    BY <1>1, <1>8, <2>1, OtherWrite DEF StampJob, SameRunners
<1>9. UNCHANGED jobs => SameRunners
  BY DEF SameRunners
<1>10. ASSUME NEW h \in Handlers,
              \/ LinkJob(h) \/ BroadcastJob(h) \/ NotifyCancelled(h)
              \/ CheckCancelled(h) \/ \E j \in Jobs : RetryJob(h, j)
       PROVE  UNCHANGED jobs
  BY <1>10 DEF LinkJob, BroadcastJob, NotifyCancelled, CheckCancelled, RetryJob
<1>11. CASE FindExpired \/ CheckTimedOut \/ \E j \in Jobs : NotifyTimedOut(j)
  BY <1>9, <1>11 DEF FindExpired, NotifyTimedOut, CheckTimedOut
<1>12. ASSUME NEW c \in Runners,
              \/ HandleRequestJob(c) \/ ForwardToRunner(c) \/ CheckAndSendJob(c)
              \/ UpdateCheck(c) \/ ReplyJobClaimed(c) \/ HangUp(c)
              \/ UnregisterRunner(c) \/ CutConnection(c)
       PROVE  UNCHANGED jobs
  BY <1>12 DEF HandleRequestJob, ForwardToRunner, CheckAndSendJob, UpdateCheck,
               ReplyJobClaimed, HangUp, UnregisterRunner, CutConnection
<1>13. ASSUME NEW p \in Procs, ClientStep(p) \/ CrashRunner(p)
       PROVE  UNCHANGED jobs
  BY <1>13 DEF ClientStep, Reconnect, ReadMessage, LoseConnection, Connect,
               ReadNewJobAvailable, ReadJobClaimed, ReadJobTimedOut,
               ReadJobCancelled, PanicOnClaim, FinishJob, ReleaseVm, ReportJob,
               Drain, ExitGracefully, CrashRunner
<1>14. CASE RestartBackend \/ UNCHANGED vars
  BY <1>9, <1>14 DEF RestartBackend, vars
<1>15. QED
  BY <1>2, <1>3, <1>4, <1>5, <1>6, <1>7, <1>8, <1>9, <1>10, <1>11, <1>12,
     <1>13, <1>14 DEF Next, HandlerStep, CheckerStep, ConnectionStep,
                      ReadSocket, ContinueTask

LEMMA HandlersDeliver ==
  ASSUME TypeOK, SameRunners, NEW h \in Handlers,
         CreateJob(h) \/ HandlerStep(h)
           \/ \E j \in Jobs : CancelJob(h, j) \/ RetryJob(h, j)
  PROVE  DeliveryStep
<1> USE DEF dbVars, webVars, connVars, wireVars, clientVars
<1>1. UNCHANGED <<pc, cur, link, sock, local, down>>
  BY DEF CreateJob, HandlerStep, LinkJob, BroadcastJob, NotifyCancelled,
         CheckCancelled, InsertRetry, CancelJob, RetryJob
<1>2. \A c \in Runners : ChannelStep(c)
  <2>1. CASE UNCHANGED rx
    BY <2>1, Undisturbed
  <2>2. CASE BroadcastJob(h)
    <3>1. req[h].job \in Jobs
      BY <2>2 DEF BroadcastJob, TypeOK, WebTypeOK, Requests, Idle
    <3> DEFINE m == Msg("NewJobAvailable", req[h].job)
    <3>2. m \in Notices /\ ~IsControl(m)
      BY <3>1, MsgTyping DEF IsControl, Msg
    <3>3. \A c \in Runners : rx'[c] = rx[c] \/ rx'[c] = Append(rx[c], m)
      BY <2>2 DEF BroadcastJob
    <3> HIDE DEF m
    <3>4. \A c \in Runners : Range(Append(rx[c], m)) = Range(rx[c]) \cup {m}
      BY <3>2, RangeOfAppend DEF TypeOK, ConnTypeOK
    <3>5. QED
      BY <3>2, <3>3, <3>4 DEF ChannelStep
  <2>3. CASE NotifyCancelled(h)
    <3> DEFINE j == req[h].job
               m == Msg("JobCancelled", j)
    <3>1. j \in Jobs
      BY <2>3 DEF NotifyCancelled, TypeOK, WebTypeOK, Requests, Idle
    <3>2. m \in Notices /\ m.id = j
      BY <3>1, MsgTyping DEF Msg
    <3>3. TrySendTo(jobs[j].runner, m)
      BY <2>3 DEF NotifyCancelled
    <3> HIDE DEF j, m
    <3>4. QED
      BY <3>1, <3>2, <3>3, TrySendDelivers
  <2>4. QED
    BY <2>1, <2>2, <2>3 DEF CreateJob, HandlerStep, LinkJob, CheckCancelled,
                            InsertRetry, CancelJob, RetryJob
<1>3. QED
  BY <1>1, <1>2, Undisturbed, TasksWait DEF DeliveryStep

LEMMA CheckerDelivers ==
  ASSUME TypeOK, SameRunners, CheckerStep \/ \E j \in Jobs : Age(j)
  PROVE  DeliveryStep
<1> USE DEF dbVars, webVars, connVars, wireVars, clientVars
<1>1. UNCHANGED <<pc, cur, link, sock, local, down>>
  BY DEF CheckerStep, FindExpired, NotifyTimedOut, CompleteTimedOut,
         CheckTimedOut, Age
<1>2. \A c \in Runners : ChannelStep(c)
  <2>1. CASE UNCHANGED rx
    BY <2>1, Undisturbed
  <2>2. ASSUME NEW j \in Jobs, NotifyTimedOut(j)
        PROVE  \A c \in Runners : ChannelStep(c)
    <3> DEFINE m == Msg("JobTimedOut", j)
    <3>1. m \in Notices /\ m.id = j
      BY MsgTyping DEF Msg
    <3>2. TrySendTo(jobs[j].runner, m)
      BY <2>2 DEF NotifyTimedOut
    <3> HIDE DEF m
    <3>3. QED
      BY <3>1, <3>2, TrySendDelivers
  <2>3. QED
    BY <2>1, <2>2 DEF CheckerStep, FindExpired, CompleteTimedOut,
                      CheckTimedOut, Age
<1>3. QED
  BY <1>1, <1>2, Undisturbed, TasksWait DEF DeliveryStep

(* A task takes a claim only when it has answered the one before. *)
LEMMA ClaimDelivers ==
  ASSUME TypeOK, NEW c \in Runners, HandleClaimJob(c)
  PROVE  DeliveryStep
<1> USE DEF dbVars, webVars, connVars, wireVars, clientVars
<1> DEFINE j == Head(up[c]).id
<1>1. /\ pc[c] = "idle"
      /\ UNCHANGED <<link, sock, local, down, rx>>
  BY DEF HandleClaimJob, Receives
<1>2. Head(up[c]) \in ClientMsg /\ Head(up[c]).type = "ClaimJob"
  BY HeadTailProperties DEF HandleClaimJob, Receives, TypeOK, WireTypeOK
<1>3. j \in Jobs
  BY <1>2 DEF ClientMsg
<1>4. CASE jobs[j].status # "queued"
  <2>1. UNCHANGED <<jobs, pc, cur>>
    BY <1>4 DEF HandleClaimJob
  <2>2. QED
    BY <1>1, <2>1, Undisturbed, TasksWait DEF DeliveryStep
<1>5. CASE jobs[j].status = "queued"
  <2>1. /\ jobs' = [jobs EXCEPT ![j].status = "running", ![j].runner = c]
        /\ pc' = [pc EXCEPT ![c] = "check"]
        /\ cur' = [cur EXCEPT ![c] = [job |-> j, status |-> "running"]]
    BY <1>5 DEF HandleClaimJob
  <2>2. \A k \in Jobs : jobs'[k].runner = IF k = j THEN c ELSE jobs[k].runner
    BY <1>3, <2>1, ClaimWrite DEF TypeOK, DbTypeOK
  <2> HIDE DEF j
  <2>3. /\ pc'[c] = "check" /\ cur'[c].job = j /\ cur'[c].status = "running"
        /\ \A d \in Runners \ {c} : pc'[d] = pc[d] /\ cur'[d] = cur[d]
    BY <2>1 DEF TypeOK, ConnTypeOK
  <2>4. AnswerStep(c)
    BY <1>1, <2>2, <2>3 DEF AnswerStep, Answering, Updating
  <2>5. ASSUME NEW d \in Runners \ {c} PROVE AnswerStep(d)
    BY <2>2, <2>3 DEF AnswerStep, Answering, Updating
  <2>6. QED
    BY <1>1, <2>4, <2>5, Undisturbed DEF DeliveryStep
<1>6. QED
  BY <1>4, <1>5

LEMMA TasksDeliver ==
  ASSUME TypeOK, LedgerInv, SameRunners, NEW c \in Runners,
         ConnectionStep(c) \/ CutConnection(c), ~HandleClaimJob(c)
  PROVE  DeliveryStep
<1> USE DEF dbVars, webVars, connVars, wireVars, clientVars
<1>1. UNCHANGED <<link, local>>
  BY DEF ConnectionStep, ReadSocket, ContinueTask, HandleUpdateJobStatus,
         HandleRequestJob, ForwardToRunner, CheckAndSendJob, UpdateCheck,
         StampJob, ReplyJobClaimed, HangUp, UnregisterRunner, CutConnection
<1>2. \A d \in Runners : sock'[d] = "open" => sock[d] = "open"
  BY DEF ConnectionStep, ReadSocket, ContinueTask, HandleUpdateJobStatus,
         HandleRequestJob, ForwardToRunner, CheckAndSendJob, UpdateCheck,
         StampJob, ReplyJobClaimed, HangUp, UnregisterRunner, CutConnection,
         TypeOK, WireTypeOK
<1>3. \A p \in Procs : LinkKept(p) /\ KnowledgeKept(p)
  BY <1>1, <1>2, Undisturbed DEF LinkKept, TypeOK, ClientTypeOK
<1>4. pc \in [Runners -> {"unused", "poll", "idle", "check",
                          "stamp", "reply", "closing", "gone"}]
  BY DEF TypeOK, ConnTypeOK
<1>5. CASE HandleUpdateJobStatus(c) \/ HandleRequestJob(c) \/ HangUp(c)
           \/ UnregisterRunner(c)
  <2>1. UNCHANGED down /\ pc[c] \in {"idle", "closing"}
    BY <1>5 DEF HandleUpdateJobStatus, HandleRequestJob, HangUp,
                UnregisterRunner, Receives
  <2>2. \A d \in Runners \ {c} : pc'[d] = pc[d] /\ cur'[d] = cur[d]
    <3>1. /\ \E s : pc' = [pc EXCEPT ![c] = s]
          /\ \E u : cur' = [cur EXCEPT ![c] = u]
      <4>1. cur = [cur EXCEPT ![c] = cur[c]]
        BY DEF TypeOK, ConnTypeOK
      <4>2. QED
        BY <1>5, <4>1 DEF HandleUpdateJobStatus, HandleRequestJob, HangUp,
                          UnregisterRunner
    <3>2. QED
      BY <1>4, <3>1 DEF TypeOK, ConnTypeOK
  <2>3. \A d \in Runners : AnswerStep(d)
    BY <2>1, <2>2, TaskGoesOn DEF Answering, Updating
  <2>4. \A d \in Runners : ChannelStep(d)
    BY <1>5, RangeOfEmpty
       DEF HandleUpdateJobStatus, HandleRequestJob, HangUp, UnregisterRunner,
           ChannelStep, TypeOK, ConnTypeOK
  <2>5. QED
    BY <1>3, <2>1, <2>3, <2>4, Undisturbed DEF DeliveryStep
<1>6. CASE UpdateCheck(c) \/ StampJob(c)
  <2>1. UNCHANGED <<down, rx>> /\ Updating(c)
    BY <1>6 DEF UpdateCheck, StampJob, Updating
  <2>2. /\ \A d \in Runners \ {c} : pc'[d] = pc[d] /\ cur'[d] = cur[d]
        /\ cur[c].status = "running" =>
             cur'[c] = cur[c] /\ pc'[c] \in {"stamp", "reply"}
    <3>1. \/ AfterUpdate(c)
          \/ pc' = [pc EXCEPT ![c] = "stamp"] /\ cur' = cur
      BY <1>6 DEF UpdateCheck, StampJob
    <3>2. CASE AfterUpdate(c)
      BY <1>4, <3>2 DEF AfterUpdate, TypeOK, ConnTypeOK
    <3>3. CASE pc' = [pc EXCEPT ![c] = "stamp"] /\ cur' = cur
      BY <1>4, <3>3
    <3>4. QED
      BY <3>1, <3>2, <3>3
  <2>3. \A d \in Runners : AnswerStep(d)
    BY <2>2, TaskGoesOn DEF Answering, Updating
  <2>4. QED
    BY <1>3, <2>1, <2>3, Undisturbed DEF DeliveryStep
<1>7. CASE ReplyJobClaimed(c)
  <2> DEFINE m == Msg("JobClaimed", cur[c].job)
  <2>1. cur[c].job \in Jobs
    BY <1>7 DEF ReplyJobClaimed, Updating, TypeOK, ConnTypeOK
  <2>2. m \in ServerMsg /\ ~IsControl(m)
    BY <2>1, MsgTyping DEF IsControl, Msg
  <2>3. SendDown(c, m) /\ UNCHANGED <<rx, sock>>
    BY <1>7 DEF ReplyJobClaimed
  <2>4. sock'[c] = "open" => m \in Range(down'[c])
    <3>1. down \in [Runners -> Seq(ServerMsg)]
      BY DEF TypeOK, WireTypeOK
    <3>2. sock[c] = "open" => down'[c] = Append(down[c], m)
      BY <2>3, <3>1 DEF SendDown
    <3>3. Range(Append(down[c], m)) = Range(down[c]) \cup {m}
      BY <2>2, <3>1, RangeOfAppend
    <3>4. QED
      BY <2>3, <3>2, <3>3
  <2>5. \A d \in Runners \ {c} : pc'[d] = pc[d] /\ cur'[d] = cur[d]
    BY <1>7 DEF ReplyJobClaimed
  <2>6. \A d \in Runners : AnswerStep(d)
    BY <2>4, <2>5, TaskGoesOn DEF Answering
  <2> HIDE DEF m
  <2>7. QED
    BY <1>3, <2>2, <2>3, <2>6, SendDelivers, Undisturbed DEF DeliveryStep
<1>8. CASE ForwardToRunner(c)
  <2> DEFINE m == Head(rx[c])
  <2>1. /\ pc[c] = "idle" /\ rx[c] # <<>> /\ rx[c] \in Seq(Notices)
        /\ SendDown(c, m) /\ rx' = [rx EXCEPT ![c] = Tail(rx[c])]
    BY <1>8 DEF ForwardToRunner, TypeOK, ConnTypeOK
  <2>2. m \in Range(rx[c]) /\ Range(Tail(rx[c])) \subseteq Range(rx[c])
    BY <2>1, RangeOfTail
  <2>3. m \in ServerMsg
    BY <2>1, HeadTailProperties DEF ServerMsg
  <2>4. \A d \in Runners : ChannelStep(d)
    BY <2>1, <2>2 DEF ChannelStep, TypeOK, ConnTypeOK
  <2>5. \A d \in Runners \ {c} : pc'[d] = pc[d] /\ cur'[d] = cur[d]
    BY <1>8 DEF ForwardToRunner
  <2>6. \A d \in Runners : AnswerStep(d)
    BY <2>1, <2>5, TaskGoesOn DEF Answering, Updating
  <2> HIDE DEF m
  <2>7. QED
    BY <1>3, <2>1, <2>2, <2>3, <2>4, <2>6, SendDelivers DEF DeliveryStep
<1>9. CASE CheckAndSendJob(c)
  <2>1. UNCHANGED down \/ \E j \in Jobs : SendDown(c, Msg("NewJobAvailable", j))
    BY <1>9 DEF CheckAndSendJob, Candidates
  <2>2. \A j \in Jobs : /\ Msg("NewJobAvailable", j) \in ServerMsg
                        /\ ~IsControl(Msg("NewJobAvailable", j))
    BY MsgTyping DEF IsControl, Msg
  <2>3. /\ \A p \in Procs : QueueStep(p)
        /\ \A d \in Runners : SentStep(d)
    BY <2>1, <2>2, SendDelivers, Undisturbed
  <2>4. /\ pc[c] = "poll" /\ UNCHANGED rx
        /\ \A d \in Runners \ {c} : pc'[d] = pc[d] /\ cur'[d] = cur[d]
    BY <1>9 DEF CheckAndSendJob
  <2>5. \A d \in Runners : AnswerStep(d)
    BY <2>4, TaskGoesOn DEF Answering, Updating
  <2>6. QED
    BY <1>3, <2>3, <2>4, <2>5, Undisturbed DEF DeliveryStep
<1>10. CASE CutConnection(c)
  <2>1. UNCHANGED <<pc, cur, rx, down>>
    BY <1>10 DEF CutConnection
  <2>2. QED
    BY <1>3, <2>1, TasksWait, Undisturbed DEF DeliveryStep
<1>11. QED
  BY <1>5, <1>6, <1>7, <1>8, <1>9, <1>10
     DEF ConnectionStep, ReadSocket, ContinueTask

LEMMA ConnectDelivers ==
  ASSUME TypeOK, LedgerInv, NEW p \in Procs, Connect(p)
  PROVE  DeliveryStep
<1> USE DEF dbVars, webVars, connVars, wireVars, clientVars
<1>1. PICK c \in Runners :
        /\ pc[c] = "unused"
        /\ link' = [link EXCEPT ![p] = c]
        /\ owner' = [owner EXCEPT ![c] = p]
        /\ pc' = [pc EXCEPT ![c] = "poll"]
        /\ sock' = [sock EXCEPT ![c] = "open"]
  BY DEF Connect
<1>2. UNCHANGED <<jobs, cur, rx, down, local>>
  BY DEF Connect
<1>3. \A j \in Jobs : jobs'[j].runner # c
  BY <1>1, <1>2 DEF LedgerInv, LinksInv, RowsInv, Runners, None
<1>4. ASSUME NEW q \in Procs PROVE LinkKept(q)
  <2>1. CASE q = p
    BY <1>1, <1>3, <2>1 DEF LinkKept, TypeOK, ClientTypeOK
  <2>2. CASE q # p /\ link[q] # None
    <3>1. link[q] # c
      BY <1>1, <2>2, NoProcAssumption DEF LedgerInv, LinksInv
    <3>2. QED
      BY <1>1, <2>2, <3>1 DEF LinkKept, TypeOK, ClientTypeOK, WireTypeOK
  <2>3. CASE q # p /\ link[q] = None
    BY <1>1, <2>3 DEF LinkKept, TypeOK, ClientTypeOK
  <2>4. QED
    BY <2>1, <2>2, <2>3
<1>5. AnswerStep(c)
  BY <1>3 DEF AnswerStep
<1>6. ASSUME NEW d \in Runners \ {c} PROVE AnswerStep(d)
  BY <1>1, <1>2 DEF AnswerStep, Answering, Updating
<1>7. QED
  BY <1>2, <1>4, <1>5, <1>6, Undisturbed DEF DeliveryStep

LEMMA ClientsDeliver ==
  ASSUME TypeOK, LedgerInv, SameRunners, NEW p \in Procs,
         ClientStep(p) \/ CrashRunner(p)
  PROVE  DeliveryStep
<1> USE DEF dbVars, webVars, connVars, wireVars, clientVars
<1>1. CASE Connect(p)
  BY <1>1, ConnectDelivers
<1>2. ASSUME ~Connect(p) PROVE UNCHANGED <<pc, cur, rx>>
  BY <1>2 DEF ClientStep, Reconnect, ReadMessage, LoseConnection,
              ReadNewJobAvailable, ReadJobClaimed, ReadJobTimedOut,
              ReadJobCancelled, PanicOnClaim, FinishJob, ReleaseVm, ReportJob,
              Drain, ExitGracefully, CrashRunner
<1>3. ASSUME ~Connect(p),
             \A q \in Procs : LinkKept(q) /\ KnowledgeKept(q) /\ QueueStep(q),
             \A c \in Runners : SentStep(c)
      PROVE  DeliveryStep
  BY <1>2, <1>3, TasksWait, Undisturbed DEF DeliveryStep
<1>4. CASE LoseConnection(p) /\ ~Connect(p)
  <2>1. /\ link' = [link EXCEPT ![p] = None]
        /\ down' = [down EXCEPT ![link[p]] = <<>>]
        /\ UNCHANGED <<sock, local>>
        /\ down \in [Runners -> Seq(ServerMsg)]
    BY <1>4 DEF LoseConnection, TypeOK, WireTypeOK
  <2>2. \A c \in Runners : SentStep(c)
    BY <2>1, RangeOfEmpty DEF SentStep
  <2>3. LinkKept(p) /\ KnowledgeKept(p) /\ QueueStep(p)
    BY <2>1 DEF LinkKept, KnowledgeKept, QueueStep, TypeOK, ClientTypeOK
  <2>4. ASSUME NEW q \in Procs, q # p
        PROVE  LinkKept(q) /\ KnowledgeKept(q) /\ QueueStep(q)
    <3>1. link'[q] = link[q]
      BY <2>1, <2>4 DEF TypeOK, ClientTypeOK
    <3>2. link[q] # None => down'[link[q]] = down[link[q]]
      BY <2>1, <2>4, OwnLink DEF TypeOK, ClientTypeOK
    <3>3. QED
      BY <2>1, <3>1, <3>2 DEF LinkKept, KnowledgeKept, QueueStep
  <2>5. QED
    BY <1>3, <1>4, <2>2, <2>3, <2>4
<1>5. CASE ReadNewJobAvailable(p) /\ ~Connect(p)
  <2>1. UNCHANGED <<link, sock, local>> /\ Reads(p, "NewJobAvailable")
    BY <1>5 DEF ReadNewJobAvailable
  <2>2. QED
    BY <1>3, <1>5, <2>1, ReadDelivers, Undisturbed
<1>6. CASE ReadJobClaimed(p) /\ ~Connect(p)
  <2> DEFINE j == Head(down[link[p]]).id
  <2>1. UNCHANGED <<link, sock>> /\ Reads(p, "JobClaimed")
    BY <1>6 DEF ReadJobClaimed
  <2>2. j \in Jobs
    BY <2>1, ReadsTyping
  <2>3. PICK status \in {"running", "failed"} :
          local' = [local EXCEPT ![p][j] = status]
    BY <1>6 DEF ReadJobClaimed
  <2> HIDE DEF j
  <2>4. local'[p][j] # "none" /\ \A q \in Procs : KnowledgeKept(q)
    BY <2>2, <2>3 DEF KnowledgeKept, TypeOK, ClientTypeOK
  <2>5. QED
    BY <1>3, <1>6, <2>1, <2>4, ReadDelivers, Undisturbed DEF j
<1>7. CASE (ReadJobTimedOut(p) \/ ReadJobCancelled(p)) /\ ~Connect(p)
  <2> DEFINE j == Head(down[link[p]]).id
  <2>1. PICK type \in {"JobTimedOut", "JobCancelled"} : Reads(p, type)
    BY <1>7 DEF ReadJobTimedOut, ReadJobCancelled
  <2>2. j \in Jobs
    BY <2>1, ReadsTyping
  <2>3. /\ UNCHANGED <<link, sock>>
        /\ \E status \in {"timed_out", "cancelled"} : Decide(p, j, status)
    BY <1>7 DEF ReadJobTimedOut, ReadJobCancelled
  <2> HIDE DEF j
  <2>4. \A q \in Procs : KnowledgeKept(q)
    BY <2>2, <2>3, DecideDelivers
  <2>5. QED
    BY <1>3, <1>7, <2>1, <2>3, <2>4, ReadDelivers, Undisturbed
<1>8. CASE (PanicOnClaim(p) \/ ExitGracefully(p) \/ CrashRunner(p)) /\ ~Connect(p)
  BY <1>3, <1>8, RestartDelivers DEF PanicOnClaim, ExitGracefully, CrashRunner
<1>9. ASSUME NEW j \in Jobs,
             FinishJob(p, j) \/ ReleaseVm(p, j) \/ ReportJob(p, j), ~Connect(p)
      PROVE  DeliveryStep
  <2>1. UNCHANGED <<link, sock, down>>
    BY <1>9 DEF FinishJob, ReleaseVm, ReportJob
  <2>2. CASE FinishJob(p, j)
    BY <2>2, <1>3, <1>9, <2>1, DecideDelivers, Undisturbed DEF FinishJob
  <2>3. CASE ReleaseVm(p, j)
    BY <2>3, <1>3, <1>9, <2>1, Undisturbed DEF ReleaseVm
  <2>4. CASE ReportJob(p, j)
    <3>1. \A q \in Procs : KnowledgeKept(q)
      BY <2>4 DEF ReportJob, KnowledgeKept, TypeOK, ClientTypeOK
    <3>2. QED
      BY <3>1, <1>3, <1>9, <2>1, Undisturbed
  <2>5. QED
    BY <1>9, <2>2, <2>3, <2>4
<1>10. CASE Drain(p) /\ ~Connect(p)
  BY <1>3, <1>10, Undisturbed DEF Drain
<1>11. QED
  BY <1>1, <1>4, <1>5, <1>6, <1>7, <1>8, <1>9, <1>10
     DEF ClientStep, Reconnect, ReadMessage

LEMMA BackendRestartDelivers ==
  ASSUME TypeOK, SameRunners, RestartBackend
  PROVE  DeliveryStep
<1> USE DEF dbVars, webVars, connVars, wireVars, clientVars
<1>1. /\ UNCHANGED <<link, local, down>>
      /\ \A c \in Runners : sock'[c] # "open" /\ rx'[c] = <<>>
  BY DEF RestartBackend
<1>2. \A p \in Procs : LinkKept(p)
  BY <1>1 DEF LinkKept, TypeOK, ClientTypeOK
<1>3. \A c \in Runners : AnswerStep(c) /\ ChannelStep(c)
  BY <1>1, RangeOfEmpty DEF AnswerStep, ChannelStep
<1>4. QED
  BY <1>1, <1>2, <1>3, Undisturbed DEF DeliveryStep

LEMMA NextDelivery ==
  ASSUME TypeOK, LedgerInv, [Next]_vars
  PROVE  DeliveryStep
<1>1. CASE \E c \in Runners : HandleClaimJob(c)
  BY <1>1, ClaimDelivers
<1>2. CASE \A c \in Runners : ~HandleClaimJob(c)
  <2>1. SameRunners
    BY <1>2, RunnersKept
  <2>2. CASE UNCHANGED vars
    BY <2>1, <2>2, Undisturbed, TasksWait
       DEF vars, dbVars, webVars, connVars, wireVars, clientVars, DeliveryStep
  <2>3. QED
    BY <1>2, <2>1, <2>2, HandlersDeliver, CheckerDelivers, TasksDeliver,
       ClientsDeliver, BackendRestartDelivers DEF Next
<1>3. QED
  BY <1>1, <1>2

(* What is in a connection's channel, and what a handler or the checker is *)
(* about to put there, is for the connection that the job's row names, and *)
(* comes after the JobClaimed that the claim put there.                    *)
THEOREM ControlInvariant == Spec => []ControlInv
<1>1. Init => ControlInv
  BY RangeOfEmpty DEF Init, ControlInv, Addressed, Told, Follows
<1>2. TypeOK /\ TypeOK' /\ LedgerInv /\ ControlInv /\ [Next]_vars => ControlInv'
  BY NextLedger, NextDelivery, AddressedStep, ToldStep, FollowsStep
     DEF ControlInv
<1>3. QED
  BY <1>1, <1>2, Typing, Ledger, PTL DEF Spec

(* The task of a connection answers a claim before it forwards anything    *)
(* from its channel, and cancel_job and the timeout checker put a message  *)
(* there only once the row names that connection: so a runner never reads  *)
(* JobCancelled or JobTimedOut before the JobClaimed they are about.       *)
THEOREM ClaimBeforeControl == Spec => []ControlFollowsClaim
<1>1. ControlInv => ControlFollowsClaim
  BY DEF ControlInv, Follows, IsControl, ControlFollowsClaim
<1>2. QED
  BY <1>1, ControlInvariant, PTL
==============================================================================
