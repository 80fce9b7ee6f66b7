---------------------------- MODULE WebhookProofs ---------------------------
(***************************************************************************)
(* Theorems about Webhook, for any installations, repositories and         *)
(* configurations, and any number of deliveries in flight at once.         *)
(***************************************************************************)
EXTENDS Webhook, TLAPS

-----------------------------------------------------------------------------
(* The state of GitHub and of the handlers, typed *)

Events ==
  [type : {"created"}, installation : Installations, repos : SUBSET Repos]
    \cup [type : {"deleted", "suspend", "unsuspend"}, installation : Installations]
    \cup [type : {"repositories"}, installation : Installations,
          added : SUBSET Repos, removed : SUBSET Repos]
    \cup [type : {"push", "synchronize", "fork"}, repo : Repos, rev : Nat]

(* Every VM that some configuration asks for. *)
Vms == UNION {Range(FinalCloud(cloud)) : cloud \in Clouds \cup {NoCloud}}

Causes == {None, "row", "github", "devenv_nix", "yaml", "fault"}

Handlers ==
  [event : Events, step : Steps, todo : SUBSET Repos, vms : Seq(Vms), cause : Causes,
   changes : Nat]

GitHubs ==
  [installation : Installations \cup {None}, suspended : BOOLEAN,
   selected : SUBSET Repos, used : SUBSET Installations,
   revs : Seq([repo : Repos, cloud : Clouds]), events : Nat, changes : Nat]

(* A step of the handler of d leaves every other delivery alone, and what  *)
(* happened at GitHub too.                                                 *)
Moves(d) ==
  /\ deliveries' \in Seq(Handlers) /\ Len(deliveries') = Len(deliveries)
  /\ \A e \in Deliveries : e # d => deliveries'[e] = deliveries[e]
  /\ deliveries'[d].event = deliveries[d].event
  /\ deliveries'[d].changes = deliveries[d].changes

Becomes(d, step, todo, vms, cause) ==
  /\ Moves(d)
  /\ deliveries'[d].step = step /\ deliveries'[d].todo = todo
  /\ deliveries'[d].vms = vms /\ deliveries'[d].cause = cause

Keeps(d, step) ==
  Becomes(d, step, deliveries[d].todo, deliveries[d].vms, deliveries[d].cause)

Fails(d, cause) == Becomes(d, "error", {}, <<>>, cause)

LEMMA Constants ==
  /\ MaxEvents \in Nat /\ MaxRevs \in Nat /\ MaxMishaps \in Nat
  /\ Clouds \subseteq Configs /\ None \notin Installations
<1>1. QED
  BY WebhookAssumption, NoInstallationAssumption

LEMMA Setting ==
  ASSUME deliveries \in Seq(Handlers), NEW d \in Deliveries, NEW h \in Handlers,
         Set(d, h), h.event = deliveries[d].event, h.changes = deliveries[d].changes
  PROVE  Moves(d) /\ deliveries'[d] = h
<1>1. QED
  BY DEF Set, Moves, Deliveries

(* The handler of d goes on with the next step. *)
LEMMA Going ==
  ASSUME deliveries \in Seq(Handlers), NEW d \in Deliveries, NEW s \in Steps, Goto(d, s)
  PROVE  Keeps(d, s)
<1> DEFINE h == [deliveries[d] EXCEPT !.step = s]
<1>1. deliveries[d] \in Handlers
  BY DEF Deliveries
<1>2. /\ h \in Handlers
      /\ h.event = deliveries[d].event /\ h.changes = deliveries[d].changes
      /\ h.step = s /\ h.todo = deliveries[d].todo /\ h.vms = deliveries[d].vms
      /\ h.cause = deliveries[d].cause
  BY <1>1, Zenon DEF Handlers
<1>3. Set(d, h)
  BY DEF Goto
<1> HIDE DEF h
<1>4. QED
  BY <1>2, <1>3, Setting DEF Becomes, Keeps

LEMMA Failing ==
  ASSUME deliveries \in Seq(Handlers), NEW d \in Deliveries, NEW c \in Causes, Fail(d, c)
  PROVE  Fails(d, c)
<1> DEFINE h == [deliveries[d] EXCEPT !.step = "error", !.cause = c, !.todo = {}, !.vms = <<>>]
<1>1. deliveries[d] \in Handlers
  BY DEF Deliveries
<1>2. "error" \in Steps /\ {} \in SUBSET Repos /\ <<>> \in Seq(Vms)
  BY DEF Steps
<1>3. /\ h \in Handlers
      /\ h.event = deliveries[d].event /\ h.changes = deliveries[d].changes
      /\ h.step = "error" /\ h.todo = {} /\ h.vms = <<>> /\ h.cause = c
  BY <1>1, <1>2, Zenon DEF Handlers
<1>4. Set(d, h)
  BY DEF Fail
<1> HIDE DEF h
<1>5. QED
  BY <1>3, <1>4, Setting DEF Becomes, Fails

(* The handler of d takes a repository off its list. *)
LEMMA Ticking ==
  ASSUME deliveries \in Seq(Handlers), NEW d \in Deliveries, NEW r,
         Set(d, [deliveries[d] EXCEPT !.todo = @ \ {r}])
  PROVE  Becomes(d, deliveries[d].step, deliveries[d].todo \ {r}, deliveries[d].vms,
                 deliveries[d].cause)
<1> DEFINE t == deliveries[d].todo \ {r}
           h == [deliveries[d] EXCEPT !.todo = t]
<1>1. deliveries[d] \in Handlers
  BY DEF Deliveries
<1>2. t \in SUBSET Repos
  BY <1>1 DEF Handlers
<1>3. Set(d, h)
  OBVIOUS
<1> HIDE DEF t
<1>4. /\ h \in Handlers
      /\ h.event = deliveries[d].event /\ h.changes = deliveries[d].changes
      /\ h.step = deliveries[d].step /\ h.todo = t /\ h.vms = deliveries[d].vms
      /\ h.cause = deliveries[d].cause
  BY <1>1, <1>2, Zenon DEF Handlers
<1> HIDE DEF h
<1>5. Becomes(d, deliveries[d].step, t, deliveries[d].vms, deliveries[d].cause)
  BY <1>3, <1>4, Setting DEF Becomes
<1>6. QED
  BY <1>5 DEF t

(* The handler of d has a list of repositories to work through. *)
LEMMA Listing ==
  ASSUME deliveries \in Seq(Handlers), NEW d \in Deliveries, NEW s \in Steps,
         NEW t \in SUBSET Repos,
         Set(d, [deliveries[d] EXCEPT !.step = s, !.todo = t])
  PROVE  Becomes(d, s, t, deliveries[d].vms, deliveries[d].cause)
<1> DEFINE h == [deliveries[d] EXCEPT !.step = s, !.todo = t]
<1>1. deliveries[d] \in Handlers
  BY DEF Deliveries
<1>2. /\ h \in Handlers
      /\ h.event = deliveries[d].event /\ h.changes = deliveries[d].changes
      /\ h.step = s /\ h.todo = t /\ h.vms = deliveries[d].vms
      /\ h.cause = deliveries[d].cause
  BY <1>1, Zenon DEF Handlers
<1>3. Set(d, h)
  OBVIOUS
<1> HIDE DEF h
<1>4. QED
  BY <1>2, <1>3, Setting DEF Becomes

(* The handler of d has the VMs it has to create jobs for. *)
LEMMA Assigning ==
  ASSUME deliveries \in Seq(Handlers), NEW d \in Deliveries, NEW s \in Steps,
         NEW v \in Seq(Vms),
         Set(d, [deliveries[d] EXCEPT !.step = s, !.vms = v])
  PROVE  Becomes(d, s, deliveries[d].todo, v, deliveries[d].cause)
<1> DEFINE h == [deliveries[d] EXCEPT !.step = s, !.vms = v]
<1>1. deliveries[d] \in Handlers
  BY DEF Deliveries
<1>2. /\ h \in Handlers
      /\ h.event = deliveries[d].event /\ h.changes = deliveries[d].changes
      /\ h.step = s /\ h.todo = deliveries[d].todo /\ h.vms = v
      /\ h.cause = deliveries[d].cause
  BY <1>1, Zenon DEF Handlers
<1>3. Set(d, h)
  OBVIOUS
<1> HIDE DEF h
<1>4. QED
  BY <1>2, <1>3, Setting DEF Becomes

-----------------------------------------------------------------------------
(* The rows of jobs *)

JobRows == [vm : Vms, check : BOOLEAN, row : BOOLEAN]

(* The newest job of d is marked, and nothing else.                        *)
Marks(d) ==
  /\ jobs' \in [1 .. MaxDeliveries -> Seq(JobRows)]
  /\ \A e \in 1 .. MaxDeliveries : e # d => jobs'[e] = jobs[e]
  /\ Len(jobs'[d]) = Len(jobs[d])
  /\ \A k \in 1 .. Len(jobs[d]) - 1 : jobs'[d][k] = jobs[d][k]
  /\ jobs'[d][Len(jobs[d])].vm = jobs[d][Len(jobs[d])].vm

LEMMA Checking ==
  ASSUME jobs \in [1 .. MaxDeliveries -> Seq(JobRows)], NEW d \in 1 .. MaxDeliveries,
         jobs[d] # <<>>, Advance(d, "check")
  PROVE  /\ Marks(d) /\ jobs'[d][Len(jobs[d])].check
         /\ jobs'[d][Len(jobs[d])].row = jobs[d][Len(jobs[d])].row
<1> DEFINE n == Len(jobs[d])
           row == [jobs[d][n] EXCEPT !.check = TRUE]
<1>1. n \in 1 .. Len(jobs[d]) /\ jobs[d][n] \in JobRows
  OBVIOUS
<1>2. /\ row \in JobRows /\ row.vm = jobs[d][n].vm /\ row.check
      /\ row.row = jobs[d][n].row
  BY <1>1, Zenon DEF JobRows
<1>3. jobs' = [jobs EXCEPT ![d] = [jobs[d] EXCEPT ![n] = row]]
  BY DEF Advance
<1> HIDE DEF row
<1>4. QED
  BY <1>1, <1>2, <1>3 DEF Marks

LEMMA Inserting ==
  ASSUME jobs \in [1 .. MaxDeliveries -> Seq(JobRows)], NEW d \in 1 .. MaxDeliveries,
         jobs[d] # <<>>, Advance(d, "row")
  PROVE  /\ Marks(d) /\ jobs'[d][Len(jobs[d])].row
         /\ jobs'[d][Len(jobs[d])].check = jobs[d][Len(jobs[d])].check
<1> DEFINE n == Len(jobs[d])
           row == [jobs[d][n] EXCEPT !.row = TRUE]
<1>1. n \in 1 .. Len(jobs[d]) /\ jobs[d][n] \in JobRows
  OBVIOUS
<1>2. /\ row \in JobRows /\ row.vm = jobs[d][n].vm /\ row.row
      /\ row.check = jobs[d][n].check
  BY <1>1, Zenon DEF JobRows
<1>3. jobs' = [jobs EXCEPT ![d] = [jobs[d] EXCEPT ![n] = row]]
  BY DEF Advance
<1> HIDE DEF row
<1>4. QED
  BY <1>1, <1>2, <1>3 DEF Marks

-----------------------------------------------------------------------------
(* What each step of a handler does *)

LEMMA EventFields ==
  ASSUME NEW e \in Events
  PROVE  /\ e.type \in AppEvents \cup {"push", "synchronize", "fork"}
         /\ e.type \in AppEvents => e.installation \in Installations
         /\ e.type = "created" => e.repos \in SUBSET Repos
         /\ e.type = "repositories" => e.added \in SUBSET Repos /\ e.removed \in SUBSET Repos
         /\ e.type \notin AppEvents => e.repo \in Repos /\ e.rev \in Nat
<1>1. QED
  BY DEF Events, AppEvents

(* The handler of d takes up the event: its first step, and the            *)
(* repositories it has to work through.                                    *)
FirstStep(type) ==
  CASE type = "created" -> "upsert_owner"
    [] type = "repositories" -> "add_repos"
    [] type \in {"deleted", "suspend", "unsuspend"} -> "disable"
    [] OTHER -> "find_owner"

FirstTodo(d) ==
  CASE deliveries[d].event.type = "created" -> deliveries[d].event.repos
    [] deliveries[d].event.type = "repositories" -> deliveries[d].event.added
    [] OTHER -> deliveries[d].todo

LEMMA Beginning ==
  ASSUME deliveries \in Seq(Handlers), NEW d \in Deliveries, Begin(d)
  PROVE  Becomes(d, FirstStep(deliveries[d].event.type), FirstTodo(d), deliveries[d].vms,
                 deliveries[d].cause)
<1> DEFINE event == deliveries[d].event
<1>1. /\ event \in Events /\ event.type \in AppEvents \cup {"push", "synchronize", "fork"}
      /\ {"upsert_owner", "add_repos", "disable", "find_owner"} \subseteq Steps
  <2>1. deliveries[d] \in Handlers
    BY DEF Deliveries
  <2>2. QED
    BY <2>1, EventFields DEF Handlers, Steps
<1>2. CASE event.type = "created"
  <2>1. Set(d, [deliveries[d] EXCEPT !.step = "upsert_owner", !.todo = event.repos])
    BY <1>2 DEF Begin
  <2>2. event.repos \in SUBSET Repos
    BY <1>1, <1>2, EventFields
  <2>3. Becomes(d, "upsert_owner", event.repos, deliveries[d].vms, deliveries[d].cause)
    BY <2>1, <2>2, <1>1, Listing
  <2>4. QED
    BY <2>3, <1>2 DEF FirstStep, FirstTodo
<1>3. CASE event.type = "repositories"
  <2>1. Set(d, [deliveries[d] EXCEPT !.step = "add_repos", !.todo = event.added])
    BY <1>3 DEF Begin
  <2>2. event.added \in SUBSET Repos
    BY <1>1, <1>3, EventFields
  <2>3. Becomes(d, "add_repos", event.added, deliveries[d].vms, deliveries[d].cause)
    BY <2>1, <2>2, <1>1, Listing
  <2>4. QED
    BY <2>3, <1>3 DEF FirstStep, FirstTodo
<1>4. CASE event.type \in {"deleted", "suspend", "unsuspend"}
  <2>1. Goto(d, "disable")
    BY <1>4 DEF Begin, Goto
  <2>2. Keeps(d, "disable")
    BY <2>1, <1>1, Going
  <2>3. QED
    BY <2>2, <1>4 DEF FirstStep, FirstTodo, Keeps
<1>5. CASE event.type \in {"push", "synchronize", "fork"}
  <2>1. Goto(d, "find_owner")
    BY <1>5 DEF Begin, Goto
  <2>2. Keeps(d, "find_owner")
    BY <2>1, <1>1, Going
  <2>3. QED
    BY <2>2, <1>5 DEF FirstStep, FirstTodo, Keeps
<1>6. QED
  BY <1>1, <1>2, <1>3, <1>4, <1>5 DEF AppEvents

Ticks(d, r) ==
  Becomes(d, deliveries[d].step, deliveries[d].todo \ {r}, deliveries[d].vms,
          deliveries[d].cause)

Enables(r) == repos' = [repos EXCEPT ![r] = "enabled"]

LEMMA StepNames ==
  /\ {"upsert_installation", "upsert_repos", "remove_repos", "find_installation",
      "create_commit", "fetch_devenv_yaml", "new_job", "check_run", "insert_job",
      "ok", "error"} \subseteq Steps
  /\ {"row", "github", "devenv_nix", "yaml", "fault"} \subseteq Causes
<1>1. QED
  BY DEF Steps, Causes

LEMMA UpsertingRepo ==
  ASSUME deliveries \in Seq(Handlers), NEW d \in Deliveries, UpsertRepo(d)
  PROVE  /\ At(d, "upsert_repos")
         /\ \/ deliveries[d].todo = {} /\ Keeps(d, "ok") /\ UNCHANGED repos
            \/ \E r \in deliveries[d].todo : Enables(r) /\ Ticks(d, r)
         /\ UNCHANGED <<owner, installations, commits, jobs, orderly, outside>>
<1>1. CASE deliveries[d].todo = {} /\ Goto(d, "ok") /\ UNCHANGED repos
  BY <1>1, Going, StepNames DEF UpsertRepo
<1>2. ASSUME NEW r \in deliveries[d].todo, Enables(r),
             Set(d, [deliveries[d] EXCEPT !.todo = @ \ {r}])
      PROVE  Ticks(d, r)
  BY <1>2, Ticking DEF Ticks
<1>3. QED
  BY <1>1, <1>2 DEF UpsertRepo, Enables

LEMMA AddingRepo ==
  ASSUME deliveries \in Seq(Handlers), NEW d \in Deliveries, AddRepo(d),
         deliveries[d].event.type = "repositories"
  PROVE  /\ At(d, "add_repos")
         /\ \/ /\ deliveries[d].todo = {} /\ UNCHANGED repos
               /\ Becomes(d, "remove_repos", deliveries[d].event.removed,
                          deliveries[d].vms, deliveries[d].cause)
            \/ \E r \in deliveries[d].todo : owner /\ Enables(r) /\ Ticks(d, r)
            \/ ~owner /\ Fails(d, "row") /\ UNCHANGED repos
         /\ UNCHANGED <<owner, installations, commits, jobs, orderly, outside>>
<1>1. deliveries[d].event.removed \in SUBSET Repos
  <2>1. deliveries[d] \in Handlers
    BY DEF Deliveries
  <2>2. QED
    BY <2>1, EventFields DEF Handlers
<1>2. CASE /\ deliveries[d].todo = {} /\ UNCHANGED repos
           /\ Set(d, [deliveries[d] EXCEPT !.step = "remove_repos",
                                           !.todo = deliveries[d].event.removed])
  BY <1>1, <1>2, Listing, StepNames DEF AddRepo
<1>3. ASSUME NEW r \in deliveries[d].todo, Enables(r),
             Set(d, [deliveries[d] EXCEPT !.todo = @ \ {r}])
      PROVE  Ticks(d, r)
  BY <1>3, Ticking DEF Ticks
<1>4. CASE ~owner /\ Fail(d, "row") /\ UNCHANGED repos
  BY <1>4, Failing, StepNames DEF AddRepo
<1>5. QED
  BY <1>2, <1>3, <1>4 DEF AddRepo, Enables

Disables(r) == repos' = [repos EXCEPT ![r] = IF @ = "absent" THEN @ ELSE "disabled"]

LEMMA RemovingRepo ==
  ASSUME deliveries \in Seq(Handlers), NEW d \in Deliveries, RemoveRepo(d)
  PROVE  /\ At(d, "remove_repos")
         /\ \/ deliveries[d].todo = {} /\ Keeps(d, "ok") /\ UNCHANGED repos
            \/ \E r \in deliveries[d].todo : Disables(r) /\ Ticks(d, r)
         /\ UNCHANGED <<owner, installations, commits, jobs, orderly, outside>>
<1>1. CASE deliveries[d].todo = {} /\ Goto(d, "ok") /\ UNCHANGED repos
  BY <1>1, Going, StepNames DEF RemoveRepo
<1>2. ASSUME NEW r \in deliveries[d].todo, Disables(r),
             Set(d, [deliveries[d] EXCEPT !.todo = @ \ {r}])
      PROVE  Ticks(d, r)
  BY <1>2, Ticking DEF Ticks
<1>3. QED
  BY <1>1, <1>2 DEF RemoveRepo, Disables

LEMMA FindingInstallation ==
  ASSUME deliveries \in Seq(Handlers), NEW d \in Deliveries, FindInstallation(d)
  PROVE  /\ At(d, "find_installation")
         /\ \/ Keeps(d, "create_commit") \/ Fails(d, "devenv_nix")
            \/ Enabled = {} /\ Fails(d, "row")
            \/ /\ \E i \in Enabled : ~Accepts(i, deliveries[d].event.repo)
               /\ Fails(d, "github")
         /\ UNCHANGED <<tableVars, orderly, outside>>
<1>1. QED
  BY Going, Failing, StepNames DEF FindInstallation

LEMMA CreatingCommit ==
  ASSUME deliveries \in Seq(Handlers), NEW d \in Deliveries, CreateCommit(d)
  PROVE  /\ At(d, "create_commit")
         /\ \/ /\ repos[deliveries[d].event.repo] # "absent"
               /\ commits' = commits \cup {d} /\ Keeps(d, "fetch_devenv_yaml")
            \/ /\ repos[deliveries[d].event.repo] = "absent"
               /\ Fails(d, "row") /\ UNCHANGED commits
         /\ UNCHANGED <<owner, installations, repos, jobs, orderly, outside>>
<1>1. QED
  BY Going, Failing, StepNames DEF CreateCommit

LEMMA FinalCloudTyped ==
  ASSUME NEW cloud \in Clouds \cup {NoCloud}
  PROVE  FinalCloud(cloud) \in Seq(Vms)
<1> DEFINE first == Simple("x86_64-linux")
           second == Simple("aarch64-darwin")
           listed == PlatformsOf(cloud)
           final == FinalCloud(cloud)
<1>1. listed = IF cloud.platforms = <<>> THEN <<first, second>> ELSE cloud.platforms[1]
  BY DEF PlatformsOf, UnwrapOr
<1> HIDE DEF first, second, listed
<1>2. DOMAIN listed = 1 .. Len(listed) /\ Len(listed) \in Nat
  <2>1. DOMAIN <<first, second>> = 1 .. 2 /\ Len(<<first, second>>) = 2
    OBVIOUS
  <2>2. CASE cloud \in Clouds /\ cloud.platforms # <<>>
    <3>1. cloud.platforms \in Options(Seq(PlatformConfigs))
      BY <2>2, Constants DEF Configs
    <3>2. cloud.platforms[1] \in Seq(PlatformConfigs)
      BY <2>2, <3>1 DEF Options
    <3>3. QED
      BY <3>2, <1>1, <2>2
  <2>3. CASE cloud.platforms = <<>>
    BY <1>1, <2>1, <2>3
  <2>4. NoCloud.platforms = <<>>
    BY DEF NoCloud
  <2>5. QED
    BY <2>2, <2>3, <2>4
<1>3. final = [k \in DOMAIN listed |-> Resolve(cloud, listed[k])]
  BY DEF FinalCloud, listed
<1>4. Range(final) \subseteq Vms
  BY DEF Vms
<1> HIDE DEF final
<1>5. \A k \in DOMAIN listed : final[k] \in Range(final)
  BY <1>3 DEF Range
<1>6. /\ final = [k \in 1 .. Len(listed) |-> Resolve(cloud, listed[k])]
      /\ Len(listed) \in Nat
      /\ \A k \in 1 .. Len(listed) : final[k] \in Vms
  BY <1>2, <1>3, <1>4, <1>5
<1>7. final \in Seq(Vms)
  BY <1>6
<1>8. QED
  BY <1>7 DEF final

-----------------------------------------------------------------------------
(* The inductive invariant: types and what the steps of a handler have     *)
(* done so far                                                             *)

PushSteps == {"find_owner", "find_installation", "create_commit", "fetch_devenv_yaml",
              "new_job", "check_run", "insert_job"}

(* The steps that the handler of an event of each type takes.              *)
StepsOf(type) ==
  {"sent", "ok", "error"} \cup
    CASE type = "created" -> {"upsert_owner", "upsert_installation", "upsert_repos"}
      [] type = "repositories" -> {"add_repos", "remove_repos"}
      [] type \in {"deleted", "suspend", "unsuspend"} -> {"disable"}
      [] OTHER -> PushSteps

IsHead(r, n) ==
  /\ n \in DOMAIN github.revs /\ github.revs[n].repo = r
  /\ \A m \in DOMAIN github.revs : github.revs[m].repo = r => m <= n

GithubOK ==
  /\ github \in GitHubs /\ Len(github.revs) <= MaxRevs /\ github.events <= MaxEvents
  /\ \A n \in DOMAIN github.revs : \E head \in DOMAIN github.revs :
       IsHead(github.revs[n].repo, head)

HandlersOK ==
  /\ deliveries \in Seq(Handlers) /\ Len(deliveries) <= github.events + mishaps
  /\ \A d \in Deliveries :
       /\ deliveries[d].step \in StepsOf(deliveries[d].event.type)
       /\ deliveries[d].changes <= github.changes
       /\ ~AboutApp(d) =>
            /\ deliveries[d].event.rev \in DOMAIN github.revs
            /\ github.revs[deliveries[d].event.rev].repo = deliveries[d].event.repo

TablesOK ==
  /\ owner \in BOOLEAN /\ orderly \in BOOLEAN /\ mishaps \in 0 .. MaxMishaps
  /\ installations \in [Installations -> RowStates] /\ repos \in [Repos -> RowStates]
  /\ (\E i \in Installations : installations[i] # "absent") => owner
  /\ (\E r \in Repos : repos[r] # "absent") => owner
  /\ \A d \in Deliveries : At(d, "upsert_installation") \/ At(d, "upsert_repos") => owner
  /\ commits \subseteq Deliveries
  /\ \A d \in commits : ~AboutApp(d) /\ repos[deliveries[d].event.repo] # "absent"
  /\ jobs \in [1 .. MaxDeliveries -> Seq(JobRows)]
  /\ \A d \in 1 .. MaxDeliveries : jobs[d] # <<>> => d \in commits

WebhookOK == GithubOK /\ HandlersOK /\ TablesOK

(* The rows are those of the first VMs of the list; the rest of the list   *)
(* is what is left after the first n.                                      *)
MadeFrom(rows, list) ==
  Len(rows) <= Len(list) /\ \A k \in 1 .. Len(rows) : rows[k].vm = list[k]

LeftOf(rest, list, n) ==
  /\ Len(rest) = Len(list) - n
  /\ \A k \in 1 .. Len(rest) : rest[k] = list[n + k]

(* create_job for one VM after another: while it is at work on the newest  *)
(* job the others are complete, and what the handler has left are the VMs  *)
(* that follow, of one configuration.                                      *)
Progress(d) ==
  LET rows == jobs[d]
      last == rows[Len(rows)] IN
  /\ \A k \in 1 .. Len(rows) - 1 : Complete(rows[k])
  /\ deliveries[d].step \in {"sent", "find_owner", "find_installation", "create_commit"} =>
       d \notin commits
  /\ At(d, "fetch_devenv_yaml") => rows = <<>>
  /\ At(d, "new_job") =>
       /\ \E cloud \in CloudsSeen(d) :
            /\ MadeFrom(rows, FinalCloud(cloud))
            /\ LeftOf(deliveries[d].vms, FinalCloud(cloud), Len(rows))
       /\ \A k \in 1 .. Len(rows) : Complete(rows[k])
  /\ At(d, "check_run") \/ At(d, "insert_job") =>
       /\ rows # <<>> /\ deliveries[d].vms # <<>>
       /\ \E cloud \in CloudsSeen(d) :
            /\ MadeFrom(rows, FinalCloud(cloud))
            /\ LeftOf(deliveries[d].vms, FinalCloud(cloud), Len(rows) - 1)
  /\ At(d, "insert_job") => last.check
  /\ At(d, "error") /\ rows # <<>> =>
       \E cloud \in CloudsSeen(d) : MadeFrom(rows, FinalCloud(cloud))
  /\ At(d, "ok") /\ d \in commits =>
       /\ \E cloud \in CloudsSeen(d) :
            MadeFrom(rows, FinalCloud(cloud)) /\ Len(rows) = Len(FinalCloud(cloud))
       /\ \A k \in 1 .. Len(rows) : Complete(rows[k])
  /\ deliveries[d].step \in {"fetch_devenv_yaml", "new_job", "check_run", "insert_job"} =>
       d \in commits

ProgressInv == \A d \in Deliveries : Progress(d)

LEMMA FetchingDevenvYaml ==
  ASSUME WebhookOK, NEW d \in Deliveries, ~AboutApp(d), FetchDevenvYaml(d)
  PROVE  /\ At(d, "fetch_devenv_yaml")
         /\ \/ Fails(d, "yaml")
            \/ \E cloud \in CloudsSeen(d) :
                 Becomes(d, "new_job", deliveries[d].todo, FinalCloud(cloud),
                         deliveries[d].cause)
         /\ mishaps' \in mishaps .. MaxMishaps
         /\ UNCHANGED <<tableVars, orderly, github>>
<1> DEFINE repo == deliveries[d].event.repo
           read(failed) == IF failed THEN NoCloud ELSE github.revs[BranchHead(repo)].cloud
<1> USE Constants
<1>1. deliveries \in Seq(Handlers) /\ mishaps \in 0 .. MaxMishaps
  BY DEF WebhookOK, HandlersOK, TablesOK
<1>2. /\ deliveries[d].event.rev \in DOMAIN github.revs
      /\ github.revs[deliveries[d].event.rev].repo = repo
  BY DEF WebhookOK, HandlersOK
<1>3. IsHead(repo, BranchHead(repo))
  <2>1. PICK n : IsHead(repo, n)
    BY <1>2 DEF WebhookOK, GithubOK
  <2>2. QED
    BY <2>1 DEF BranchHead, IsHead
<1>4. github.revs \in Seq([repo : Repos, cloud : Clouds])
  BY DEF WebhookOK, GithubOK, GitHubs
<1>5. github.revs[BranchHead(repo)].cloud \in CloudsSeen(d) \cap Clouds
  <2> DEFINE head == BranchHead(repo)
             rev == deliveries[d].event.rev
             later == {m \in rev .. Len(github.revs) : github.revs[m].repo = repo}
  <2> HIDE DEF head
  <2>1. head \in DOMAIN github.revs /\ github.revs[head].repo = repo /\ rev <= head
    BY <1>2, <1>3 DEF IsHead, head
  <2>2. /\ DOMAIN github.revs = 1 .. Len(github.revs) /\ Len(github.revs) \in Nat
        /\ github.revs[head].cloud \in Clouds
    <3> DEFINE revs == github.revs
               S == [repo : Repos, cloud : Clouds]
    <3>1. revs \in Seq(S) /\ head \in DOMAIN revs
      BY <2>1, <1>4
    <3> HIDE DEF revs
    <3>2. revs[head] \in S
      <4> HIDE DEF S
      <4>1. QED
        BY <3>1
    <3>3. DOMAIN revs = 1 .. Len(revs) /\ Len(revs) \in Nat
      BY <3>1
    <3>4. QED
      BY <3>2, <3>3 DEF revs
  <2>3. CloudsSeen(d) = {NoCloud} \cup {github.revs[n].cloud : n \in later}
    BY DEF CloudsSeen
  <2>4. head \in rev .. Len(github.revs)
    BY <2>1, <2>2, <1>2
  <2>5. head \in later
    BY <2>1, <2>4
  <2> HIDE DEF later
  <2>6. QED
    BY <2>2, <2>3, <2>5 DEF head
<1>6. ASSUME NEW failed \in BOOLEAN
      PROVE  read(failed) \in CloudsSeen(d) /\ FinalCloud(read(failed)) \in Seq(Vms)
  BY <1>5, FinalCloudTyped DEF CloudsSeen
<1>7. PICK failed \in BOOLEAN :
        /\ failed => mishaps < MaxMishaps
        /\ mishaps' = mishaps + (IF failed THEN 1 ELSE 0)
        /\ IF Parses(read(failed))
           THEN Set(d, [deliveries[d] EXCEPT !.step = "new_job",
                                             !.vms = FinalCloud(read(failed))])
           ELSE Fail(d, "yaml")
  BY DEF FetchDevenvYaml
<1>8. mishaps' \in mishaps .. MaxMishaps
  BY <1>1, <1>7
<1> HIDE DEF read
<1>9. CASE Parses(read(failed))
  <2>1. Becomes(d, "new_job", deliveries[d].todo, FinalCloud(read(failed)),
                deliveries[d].cause)
    BY <1>1, <1>6, <1>7, <1>9, Assigning, StepNames
  <2>2. QED
    BY <2>1, <1>6, <1>8 DEF FetchDevenvYaml
<1>10. CASE ~Parses(read(failed))
  <2>1. Fails(d, "yaml")
    BY <1>1, <1>7, <1>10, Failing, StepNames
  <2>2. QED
    BY <2>1, <1>8 DEF FetchDevenvYaml
<1>11. QED
  BY <1>9, <1>10

(* A job is added for the next VM. *)
Adds(d) ==
  /\ jobs' \in [1 .. MaxDeliveries -> Seq(JobRows)]
  /\ \A e \in 1 .. MaxDeliveries : e # d => jobs'[e] = jobs[e]
  /\ Len(jobs'[d]) = Len(jobs[d]) + 1
  /\ \A k \in 1 .. Len(jobs[d]) : jobs'[d][k] = jobs[d][k]
  /\ jobs'[d][Len(jobs[d]) + 1].vm = deliveries[d].vms[1]

LEMMA CreatingJob ==
  ASSUME deliveries \in Seq(Handlers), NEW d \in Deliveries, d \in 1 .. MaxDeliveries,
         jobs \in [1 .. MaxDeliveries -> Seq(JobRows)], NewJob(d)
  PROVE  /\ At(d, "new_job")
         /\ \/ deliveries[d].vms = <<>> /\ Keeps(d, "ok") /\ UNCHANGED jobs
            \/ deliveries[d].vms # <<>> /\ Keeps(d, "check_run") /\ Adds(d)
         /\ UNCHANGED <<owner, installations, repos, commits, orderly, outside>>
<1>1. CASE deliveries[d].vms = <<>>
  BY <1>1, Going, StepNames DEF NewJob
<1>2. CASE deliveries[d].vms # <<>>
  <2> DEFINE row == [vm |-> deliveries[d].vms[1], check |-> FALSE, row |-> FALSE]
  <2>1. deliveries[d] \in Handlers
    BY DEF Deliveries
  <2>2. deliveries[d].vms[1] \in Vms
    BY <2>1, <1>2 DEF Handlers
  <2>3. row \in JobRows /\ row.vm = deliveries[d].vms[1]
    BY <2>2 DEF JobRows
  <2>4. jobs' = [jobs EXCEPT ![d] = Append(jobs[d], row)]
    BY <1>2 DEF NewJob
  <2> HIDE DEF row
  <2>5. Adds(d)
    BY <2>3, <2>4 DEF Adds
  <2>6. Keeps(d, "check_run")
    BY <1>2, Going, StepNames DEF NewJob
  <2>7. QED
    BY <1>2, <2>5, <2>6 DEF NewJob
<1>3. QED
  BY <1>1, <1>2

LEMMA CreatingCheckRun ==
  ASSUME deliveries \in Seq(Handlers), NEW d \in Deliveries, d \in 1 .. MaxDeliveries,
         jobs \in [1 .. MaxDeliveries -> Seq(JobRows)], jobs[d] # <<>>, CreateCheckRun(d)
  PROVE  /\ At(d, "check_run")
         /\ \/ Enabled = {} /\ Fails(d, "row") /\ UNCHANGED jobs
            \/ /\ \E i \in Enabled : ~Accepts(i, deliveries[d].event.repo)
               /\ Fails(d, "github") /\ UNCHANGED jobs
            \/ /\ Keeps(d, "insert_job") /\ Marks(d)
               /\ jobs'[d][Len(jobs[d])].check
         /\ UNCHANGED <<owner, installations, repos, commits, orderly, outside>>
<1>1. QED
  BY Checking, Going, Failing, StepNames DEF CreateCheckRun

LEMMA InsertingJob ==
  ASSUME deliveries \in Seq(Handlers), NEW d \in Deliveries, d \in 1 .. MaxDeliveries,
         jobs \in [1 .. MaxDeliveries -> Seq(JobRows)], jobs[d] # <<>>, InsertJob(d),
         deliveries[d].vms # <<>>
  PROVE  /\ At(d, "insert_job")
         /\ Becomes(d, "new_job", deliveries[d].todo, Tail(deliveries[d].vms),
                    deliveries[d].cause)
         /\ Marks(d) /\ jobs'[d][Len(jobs[d])].row
         /\ jobs'[d][Len(jobs[d])].check = jobs[d][Len(jobs[d])].check
         /\ UNCHANGED <<owner, installations, repos, commits, orderly, outside>>
<1>1. Tail(deliveries[d].vms) \in Seq(Vms)
  <2>1. deliveries[d] \in Handlers
    BY DEF Deliveries
  <2>2. QED
    BY <2>1 DEF Handlers
<1>2. Set(d, [deliveries[d] EXCEPT !.step = "new_job", !.vms = Tail(deliveries[d].vms)])
  BY DEF InsertJob
<1>3. Becomes(d, "new_job", deliveries[d].todo, Tail(deliveries[d].vms),
              deliveries[d].cause)
  BY <1>1, <1>2, Assigning, StepNames
<1>4. QED
  BY <1>3, Inserting DEF InsertJob

-----------------------------------------------------------------------------
(* GitHub sends deliveries *)

Fresh(delivery, event, changes) ==
  /\ delivery.event = event /\ delivery.step = "sent" /\ delivery.todo = {}
  /\ delivery.vms = <<>> /\ delivery.cause = None /\ delivery.changes = changes

Sends(events) ==
  /\ deliveries' \in Seq(Handlers)
  /\ Len(deliveries') = Len(deliveries) + Len(events)
  /\ \A d \in Deliveries : deliveries'[d] = deliveries[d]
  /\ \A k \in 1 .. Len(events) :
       Fresh(deliveries'[Len(deliveries) + k], events[k], github.changes)
  /\ github'.events = github.events + Len(events) /\ github'.events <= MaxEvents
  /\ github' \in GitHubs
  /\ UNCHANGED <<tableVars, orderly, mishaps>>

LEMMA Sending ==
  ASSUME deliveries \in Seq(Handlers), github \in GitHubs, NEW changed \in GitHubs,
         NEW events \in Seq(Events), changed.events = github.events,
         Emit(events, changed)
  PROVE  /\ Sends(events)
         /\ github'.installation = changed.installation
         /\ github'.suspended = changed.suspended
         /\ github'.selected = changed.selected
         /\ github'.revs = changed.revs /\ github'.changes = changed.changes
<1> DEFINE n == github.events + Len(events)
           gh == [changed EXCEPT !.events = n]
           sent == [k \in 1 .. Len(events) |-> Delivery(events[k])]
<1>1. /\ n \in Nat /\ n <= MaxEvents /\ github' = gh
      /\ deliveries' = deliveries \o sent
      /\ UNCHANGED <<tableVars, orderly, mishaps>>
  <2>1. github.events \in Nat
    BY DEF GitHubs
  <2>2. QED
    BY <2>1 DEF Emit
<1>2. /\ gh \in GitHubs /\ gh.events = n
      /\ gh.installation = changed.installation /\ gh.suspended = changed.suspended
      /\ gh.selected = changed.selected
      /\ gh.revs = changed.revs /\ gh.changes = changed.changes
  <2>1. n \in Nat
    BY <1>1
  <2> HIDE DEF n
  <2>2. QED
    BY <2>1, Zenon DEF GitHubs
<1>3. ASSUME NEW k \in 1 .. Len(events)
      PROVE  sent[k] \in Handlers /\ Fresh(sent[k], events[k], github.changes)
  <2>1. github.changes \in Nat
    BY DEF GitHubs
  <2>2. events[k] \in Events /\ "sent" \in Steps /\ None \in Causes
    BY DEF Steps, Causes
  <2>3. sent[k] = Delivery(events[k])
    OBVIOUS
  <2> HIDE DEF sent
  <2>4. QED
    BY <2>1, <2>2, <2>3 DEF Delivery, Handlers, Fresh
<1>4. sent \in Seq(Handlers) /\ Len(sent) = Len(events)
  <2> HIDE DEF sent
  <2>1. sent = [k \in 1 .. Len(events) |-> sent[k]]
    BY DEF sent
  <2>2. QED
    BY <1>3, <2>1
<1> HIDE DEF sent, gh
<1>5. /\ deliveries' \in Seq(Handlers)
      /\ Len(deliveries') = Len(deliveries) + Len(events)
      /\ \A d \in Deliveries : deliveries'[d] = deliveries[d]
      /\ \A k \in 1 .. Len(events) : deliveries'[Len(deliveries) + k] = sent[k]
  <2>1. deliveries' \in Seq(Handlers) /\ Len(deliveries') = Len(deliveries) + Len(events)
    BY <1>1, <1>4
  <2>2. \A d \in Deliveries : deliveries'[d] = deliveries[d]
    BY <1>1, <1>4 DEF Deliveries
  <2>3. ASSUME NEW k \in 1 .. Len(events)
        PROVE  deliveries'[Len(deliveries) + k] = sent[k]
    BY <1>1, <1>4
  <2>4. QED
    BY <2>1, <2>2, <2>3
<1>6. QED
  BY <1>1, <1>2, <1>3, <1>5 DEF Sends

-----------------------------------------------------------------------------
(* Progress is kept when nothing happens to the delivery and its jobs      *)

LEMMA SeesMore ==
  ASSUME NEW d, deliveries'[d].event = deliveries[d].event,
         NEW S, github.revs \in Seq(S), github'.revs \in Seq(S),
         Len(github.revs) <= Len(github'.revs),
         deliveries[d].event.rev \in Nat \ {0},
         \A n \in 1 .. Len(github.revs) : github'.revs[n] = github.revs[n]
  PROVE  CloudsSeen(d) \subseteq CloudsSeen(d)'
<1> DEFINE r == deliveries[d].event.rev
           repo == deliveries[d].event.repo
           revs == github.revs
           more == github'.revs
           later == {m \in r .. Len(revs) : revs[m].repo = repo}
           later2 == {m \in r .. Len(more) : more[m].repo = repo}
<1>1. /\ CloudsSeen(d) = {NoCloud} \cup {revs[n].cloud : n \in later}
      /\ CloudsSeen(d)' = {NoCloud} \cup {more[n].cloud : n \in later2}
  BY DEF CloudsSeen
<1>2. /\ revs \in Seq(S) /\ more \in Seq(S) /\ Len(revs) <= Len(more) /\ r \in Nat \ {0}
      /\ \A n \in 1 .. Len(revs) : more[n] = revs[n]
  OBVIOUS
<1> HIDE DEF revs, more, r, repo
<1>3. \A n \in later : n \in later2 /\ more[n] = revs[n]
  BY <1>2
<1> HIDE DEF later, later2
<1>4. QED
  BY <1>1, <1>3

LEMMA ProgressKept ==
  ASSUME NEW d, Progress(d), deliveries'[d] = deliveries[d], jobs'[d] = jobs[d],
         d \in commits' <=> d \in commits, CloudsSeen(d) \subseteq CloudsSeen(d)'
  PROVE  Progress(d)'
<1> DEFINE rows == jobs[d]
<1>1. /\ deliveries'[d].step = deliveries[d].step /\ deliveries'[d].vms = deliveries[d].vms
      /\ jobs'[d] = rows
  OBVIOUS
<1>2. /\ \A k \in 1 .. Len(rows) - 1 : Complete(rows[k])
      /\ deliveries[d].step \in {"sent", "find_owner", "find_installation", "create_commit"} =>
           d \notin commits
      /\ At(d, "fetch_devenv_yaml") => rows = <<>>
      /\ deliveries[d].step \in {"fetch_devenv_yaml", "new_job", "check_run", "insert_job"} =>
           d \in commits
      /\ At(d, "insert_job") => rows[Len(rows)].check
  BY DEF Progress
<1>3. /\ At(d, "new_job") =>
           /\ \E cloud \in CloudsSeen(d)' :
                /\ MadeFrom(rows, FinalCloud(cloud))
                /\ LeftOf(deliveries[d].vms, FinalCloud(cloud), Len(rows))
           /\ \A k \in 1 .. Len(rows) : Complete(rows[k])
      /\ At(d, "check_run") \/ At(d, "insert_job") =>
           /\ rows # <<>> /\ deliveries[d].vms # <<>>
           /\ \E cloud \in CloudsSeen(d)' :
                /\ MadeFrom(rows, FinalCloud(cloud))
                /\ LeftOf(deliveries[d].vms, FinalCloud(cloud), Len(rows) - 1)
      /\ At(d, "error") /\ rows # <<>> =>
           \E cloud \in CloudsSeen(d)' : MadeFrom(rows, FinalCloud(cloud))
      /\ At(d, "ok") /\ d \in commits =>
           /\ \E cloud \in CloudsSeen(d)' :
                MadeFrom(rows, FinalCloud(cloud)) /\ Len(rows) = Len(FinalCloud(cloud))
           /\ \A k \in 1 .. Len(rows) : Complete(rows[k])
  BY DEF Progress
<1> HIDE DEF rows
<1>4. QED
  BY <1>1, <1>2, <1>3 DEF Progress, At

(* While the handler of another delivery takes a step.                     *)
LEMMA OthersProgress ==
  ASSUME WebhookOK, ProgressInv, NEW d \in Deliveries, Moves(d), github' = github,
         \A e \in 1 .. MaxDeliveries : e # d => jobs'[e] = jobs[e],
         commits' = commits \/ commits' = commits \cup {d},
         Len(deliveries) <= MaxDeliveries,
         Progress(d)'
  PROVE  ProgressInv'
<1>1. /\ Deliveries' = Deliveries /\ Deliveries = 1 .. Len(deliveries)
      /\ Len(deliveries) \in Nat /\ MaxDeliveries \in Nat
  BY Constants DEF MaxDeliveries, Moves, Deliveries, WebhookOK, HandlersOK
<1>2. ASSUME NEW e \in Deliveries, e # d  PROVE Progress(e)'
  <2>1. deliveries'[e] = deliveries[e] /\ jobs'[e] = jobs[e] /\ Progress(e)
    BY <1>1, <1>2 DEF Moves, ProgressInv
  <2>2. CloudsSeen(e)' = CloudsSeen(e)
    BY <2>1 DEF CloudsSeen
  <2>3. QED
    BY <2>1, <2>2, <1>2, ProgressKept
<1>3. QED
  BY <1>1, <1>2 DEF ProgressInv

-----------------------------------------------------------------------------
(* What each event does on GitHub *)

SameRevs == github'.revs = github.revs

LEMMA Installing ==
  ASSUME deliveries \in Seq(Handlers), github \in GitHubs, Install
  PROVE  \E i \in Installations, selected \in SUBSET Repos :
           LET event == [type |-> "created", installation |-> i, repos |-> selected] IN
           /\ event \in Events /\ Sends(<<event>>) /\ SameRevs
           /\ github.installation = None
           /\ github'.installation = i /\ ~github'.suspended
           /\ github'.selected = selected /\ github'.changes = github.changes
<1>1. PICK i \in Installations \ github.used, selected \in SUBSET Repos :
        /\ github.installation = None
        /\ Emit(<<[type |-> "created", installation |-> i, repos |-> selected]>>,
                [github EXCEPT !.installation = i, !.suspended = FALSE,
                               !.selected = selected, !.used = @ \cup {i}])
  BY DEF Install
<1> DEFINE event == [type |-> "created", installation |-> i, repos |-> selected]
           u == github.used \cup {i}
           changed == [github EXCEPT !.installation = i, !.suspended = FALSE,
                                     !.selected = selected, !.used = u]
<1>2. event \in Events /\ <<event>> \in Seq(Events)
  BY DEF Events
<1>3. i \in Installations \cup {None} /\ FALSE \in BOOLEAN /\ u \in SUBSET Installations
  BY DEF GitHubs
<1>4. Emit(<<event>>, changed)
  BY <1>1
<1> HIDE DEF u
<1>5. /\ changed \in GitHubs /\ changed.installation = i /\ changed.suspended = FALSE
      /\ changed.selected = selected /\ changed.revs = github.revs
      /\ changed.events = github.events /\ changed.changes = github.changes
  BY <1>3, Zenon DEF GitHubs
<1> HIDE DEF changed, event
<1>6. /\ Sends(<<event>>) /\ github'.installation = i /\ github'.suspended = FALSE
      /\ github'.selected = selected /\ github'.revs = github.revs
      /\ github'.changes = github.changes
  BY <1>2, <1>4, <1>5, Sending
<1>7. QED
  BY <1>1, <1>2, <1>6 DEF SameRevs, event

LEMMA Uninstalling ==
  ASSUME deliveries \in Seq(Handlers), github \in GitHubs, Uninstall
  PROVE  LET event == [type |-> "deleted", installation |-> github.installation] IN
         /\ event \in Events /\ Sends(<<event>>) /\ SameRevs
         /\ github.installation # None /\ github'.installation = None
         /\ github'.suspended = github.suspended
         /\ github'.selected = {} /\ github'.changes = github.changes + 1
<1> DEFINE event == [type |-> "deleted", installation |-> github.installation]
           n == github.changes + 1
           changed == [github EXCEPT !.installation = None, !.selected = {}, !.changes = n]
<1>1. github.installation # None /\ Emit(<<event>>, changed)
  BY DEF Uninstall
<1>2. event \in Events /\ <<event>> \in Seq(Events)
  BY <1>1 DEF Events, GitHubs
<1>3. None \in Installations \cup {None} /\ {} \in SUBSET Repos /\ n \in Nat
  BY DEF GitHubs
<1> HIDE DEF n
<1>4. /\ changed \in GitHubs /\ changed.installation = None
      /\ changed.suspended = github.suspended
      /\ changed.selected = {} /\ changed.revs = github.revs
      /\ changed.events = github.events /\ changed.changes = n
  BY <1>3, Zenon DEF GitHubs
<1> HIDE DEF changed, event
<1>5. /\ Sends(<<event>>) /\ github'.installation = None
      /\ github'.suspended = github.suspended
      /\ github'.selected = {} /\ github'.revs = github.revs /\ github'.changes = n
  BY <1>1, <1>2, <1>4, Sending
<1>6. QED
  BY <1>1, <1>2, <1>5 DEF SameRevs, event, n

LEMMA Suspending ==
  ASSUME deliveries \in Seq(Handlers), github \in GitHubs, Suspend
  PROVE  LET event == [type |-> IF github.suspended THEN "unsuspend" ELSE "suspend",
                       installation |-> github.installation] IN
         /\ event \in Events /\ Sends(<<event>>) /\ SameRevs
         /\ github.installation # None /\ github'.installation = github.installation
         /\ github'.suspended = ~github.suspended
         /\ github'.selected = github.selected /\ github'.changes = github.changes + 1
<1> DEFINE type == IF github.suspended THEN "unsuspend" ELSE "suspend"
           event == [type |-> type, installation |-> github.installation]
           n == github.changes + 1
           off == ~github.suspended
           changed == [github EXCEPT !.suspended = off, !.changes = n]
<1>1. github.installation # None /\ Emit(<<event>>, changed)
  BY DEF Suspend
<1>2. event \in Events /\ <<event>> \in Seq(Events)
  <2>1. type \in {"suspend", "unsuspend"}
    OBVIOUS
  <2> HIDE DEF type
  <2>2. QED
    BY <1>1, <2>1 DEF Events, GitHubs
<1>3. off \in BOOLEAN /\ n \in Nat
  BY DEF GitHubs
<1> HIDE DEF n, off
<1>4. /\ changed \in GitHubs /\ changed.installation = github.installation
      /\ changed.suspended = off
      /\ changed.selected = github.selected /\ changed.revs = github.revs
      /\ changed.events = github.events /\ changed.changes = n
  BY <1>3, Zenon DEF GitHubs
<1> HIDE DEF changed, event
<1>5. /\ Sends(<<event>>) /\ github'.installation = github.installation
      /\ github'.suspended = off
      /\ github'.selected = github.selected /\ github'.revs = github.revs
      /\ github'.changes = n
  BY <1>1, <1>2, <1>4, Sending
<1>6. QED
  BY <1>1, <1>2, <1>5 DEF SameRevs, event, n, off

LEMMA Selecting ==
  ASSUME deliveries \in Seq(Handlers), github \in GitHubs, NEW r \in Repos, SelectRepo(r)
  PROVE  LET event == [type |-> "repositories", installation |-> github.installation,
                       added |-> {r} \ github.selected,
                       removed |-> {r} \cap github.selected] IN
         /\ event \in Events /\ Sends(<<event>>) /\ SameRevs
         /\ github.installation # None /\ github'.installation = github.installation
         /\ github'.suspended = github.suspended
         /\ github'.selected = (github.selected \ {r}) \cup ({r} \ github.selected)
         /\ github'.changes =
              github.changes + (IF r \in github.selected THEN 1 ELSE 0)
<1> DEFINE event == [type |-> "repositories", installation |-> github.installation,
                     added |-> {r} \ github.selected,
                     removed |-> {r} \cap github.selected]
           n == github.changes + (IF r \in github.selected THEN 1 ELSE 0)
           s == (github.selected \ {r}) \cup ({r} \ github.selected)
           changed == [github EXCEPT !.selected = s, !.changes = n]
<1>1. github.installation # None /\ Emit(<<event>>, changed)
  BY DEF SelectRepo
<1>2. event \in Events /\ <<event>> \in Seq(Events)
  BY <1>1 DEF Events, GitHubs
<1>3. s \in SUBSET Repos /\ n \in Nat
  BY DEF GitHubs
<1> HIDE DEF n, s
<1>4. /\ changed \in GitHubs /\ changed.installation = github.installation
      /\ changed.suspended = github.suspended
      /\ changed.selected = s /\ changed.revs = github.revs
      /\ changed.events = github.events /\ changed.changes = n
  BY <1>3, Zenon DEF GitHubs
<1> HIDE DEF changed, event
<1>5. /\ Sends(<<event>>) /\ github'.installation = github.installation
      /\ github'.suspended = github.suspended
      /\ github'.selected = s /\ github'.revs = github.revs /\ github'.changes = n
  BY <1>1, <1>2, <1>4, Sending
<1>6. QED
  BY <1>1, <1>2, <1>5 DEF SameRevs, event, n, s

LEMMA Pushing ==
  ASSUME deliveries \in Seq(Handlers), github \in GitHubs, NEW r \in Repos, Push(r)
  PROVE  \E cloud \in Clouds, events \in Seq(Events) :
           LET rev == Len(github.revs) + 1 IN
           /\ Sends(events) /\ Len(events) \in {1, 2} /\ rev <= MaxRevs
           /\ \A k \in 1 .. Len(events) :
                /\ events[k].type \notin AppEvents
                /\ events[k].repo = r /\ events[k].rev = rev
           /\ github'.revs = Append(github.revs, [repo |-> r, cloud |-> cloud])
           /\ github.installation # None /\ ~github.suspended /\ r \in github.selected
           /\ github'.installation = github.installation
           /\ github'.suspended = github.suspended
           /\ github'.selected = github.selected /\ github'.changes = github.changes
<1> DEFINE rev == Len(github.revs) + 1
           event(type) == [type |-> type, repo |-> r, rev |-> rev]
           row(cloud) == [repo |-> r, cloud |-> cloud]
           more(cloud) == Append(github.revs, row(cloud))
           changed(cloud) == [github EXCEPT !.revs = more(cloud)]
           one == <<event("push")>>
           two == <<event("push"), event("synchronize")>>
<1>1. PICK cloud \in Clouds :
        /\ github.installation # None /\ ~github.suspended /\ r \in github.selected
        /\ rev \in Revs
        /\ Emit(one, changed(cloud)) \/ Emit(two, changed(cloud))
  BY DEF Push
<1>2. rev \in Nat /\ rev <= MaxRevs /\ more(cloud) \in Seq([repo : Repos, cloud : Clouds])
  <2>1. github.revs \in Seq([repo : Repos, cloud : Clouds])
    BY DEF GitHubs
  <2>2. row(cloud) \in [repo : Repos, cloud : Clouds]
    OBVIOUS
  <2> HIDE DEF row
  <2>3. QED
    BY <2>1, <2>2, <1>1, Constants DEF Revs
<1>3. \A type \in {"push", "synchronize"} :
        /\ event(type) \in Events /\ event(type).type = type
        /\ event(type).repo = r /\ event(type).rev = rev
  BY <1>2 DEF Events
<1>4. {"push", "synchronize"} \cap AppEvents = {}
  BY DEF AppEvents
<1> HIDE DEF event
<1>5. ASSUME NEW events \in {one, two}
      PROVE  /\ events \in Seq(Events) /\ Len(events) \in {1, 2}
             /\ \A k \in 1 .. Len(events) :
                  /\ events[k].type \notin AppEvents
                  /\ events[k].repo = r /\ events[k].rev = rev
  <2> DEFINE good(e) == e \in Events /\ e.type \notin AppEvents /\ e.repo = r /\ e.rev = rev
  <2>1. good(event("push")) /\ good(event("synchronize"))
    BY <1>3, <1>4
  <2>2. /\ Len(one) = 1 /\ one[1] = event("push")
        /\ Len(two) = 2 /\ two[1] = event("push") /\ two[2] = event("synchronize")
    OBVIOUS
  <2>3. one \in Seq(Events) /\ two \in Seq(Events)
    BY <2>1
  <2> HIDE DEF one, two
  <2>4. \A k \in 1 .. Len(events) : good(events[k])
    BY <2>1, <2>2
  <2>5. QED
    BY <2>2, <2>3, <2>4
<1>6. /\ changed(cloud) \in GitHubs /\ changed(cloud).revs = more(cloud)
      /\ changed(cloud).installation = github.installation
      /\ changed(cloud).suspended = github.suspended
      /\ changed(cloud).selected = github.selected
      /\ changed(cloud).events = github.events /\ changed(cloud).changes = github.changes
  <2> HIDE DEF more
  <2>1. QED
    BY <1>2, Zenon DEF GitHubs
<1> HIDE DEF changed, one, two
<1>7. PICK events \in {one, two} : Emit(events, changed(cloud))
  BY <1>1
<1>8. /\ Sends(events) /\ github'.revs = more(cloud)
      /\ github'.installation = github.installation
      /\ github'.suspended = github.suspended
      /\ github'.selected = github.selected /\ github'.changes = github.changes
  BY <1>5, <1>6, <1>7, Sending
<1>9. QED
  BY <1>1, <1>2, <1>5, <1>8

LEMMA PushingToFork ==
  ASSUME deliveries \in Seq(Handlers), github \in GitHubs, NEW r \in Repos, PushToFork(r)
  PROVE  \E rev \in DOMAIN github.revs :
           LET event == [type |-> "fork", repo |-> r, rev |-> rev] IN
           /\ event \in Events /\ Sends(<<event>>) /\ SameRevs
           /\ github.revs[rev].repo = r
           /\ github.installation # None /\ ~github.suspended /\ r \in github.selected
           /\ github'.installation = github.installation
           /\ github'.suspended = github.suspended
           /\ github'.selected = github.selected /\ github'.changes = github.changes
<1> DEFINE event(rev) == [type |-> "fork", repo |-> r, rev |-> rev]
<1>1. PICK rev \in DOMAIN github.revs :
        /\ github.installation # None /\ ~github.suspended /\ r \in github.selected
        /\ github.revs[rev].repo = r /\ Emit(<<event(rev)>>, github)
  BY DEF PushToFork
<1>2. rev \in Nat
  <2>1. github.revs \in Seq([repo : Repos, cloud : Clouds])
    BY DEF GitHubs
  <2>2. QED
    BY <2>1
<1>3. event(rev) \in Events
  BY <1>2 DEF Events
<1> HIDE DEF event
<1>4. <<event(rev)>> \in Seq(Events)
  BY <1>3
<1>5. /\ Sends(<<event(rev)>>) /\ github'.installation = github.installation
      /\ github'.suspended = github.suspended
      /\ github'.selected = github.selected /\ github'.revs = github.revs
      /\ github'.changes = github.changes
  BY <1>1, <1>4, Sending
<1>6. QED
  BY <1>1, <1>3, <1>5 DEF SameRevs, event

-----------------------------------------------------------------------------
(* The invariant is kept by GitHub *)

LEMMA Sizes ==
  ASSUME WebhookOK
  PROVE  /\ Len(deliveries) \in Nat /\ Deliveries = 1 .. Len(deliveries)
         /\ MaxDeliveries \in Nat /\ Len(deliveries) <= MaxDeliveries
         /\ Deliveries \subseteq 1 .. MaxDeliveries
         /\ mishaps \in Nat /\ github.events \in Nat /\ github.changes \in Nat
<1>1. deliveries \in Seq(Handlers) /\ Len(deliveries) <= github.events + mishaps
  BY DEF WebhookOK, HandlersOK
<1>2. mishaps \in 0 .. MaxMishaps
  BY DEF WebhookOK, TablesOK
<1>3. github.events \in Nat /\ github.changes \in Nat /\ github.events <= MaxEvents
  BY DEF WebhookOK, GithubOK, GitHubs
<1>4. QED
  BY <1>1, <1>2, <1>3, Constants DEF Deliveries, MaxDeliveries

(* A delivery that nobody has handled yet has no row.                      *)
LEMMA NothingYet ==
  ASSUME NEW d, WebhookOK, WebhookOK', d \in Deliveries', d \notin Deliveries,
         deliveries'[d].step = "sent", UNCHANGED tableVars
  PROVE  Progress(d)'
<1>1. d \in 1 .. MaxDeliveries
  <2>1. deliveries' \in Seq(Handlers) /\ Len(deliveries') <= github'.events + mishaps'
    BY DEF WebhookOK, HandlersOK
  <2>2. mishaps' \in 0 .. MaxMishaps
    BY DEF WebhookOK, TablesOK
  <2>3. github'.events \in Nat /\ github'.events <= MaxEvents
    BY DEF WebhookOK, GithubOK, GitHubs
  <2>4. QED
    BY <2>1, <2>2, <2>3, Constants DEF Deliveries, MaxDeliveries
<1>2. d \notin commits
  BY DEF WebhookOK, TablesOK
<1>3. jobs[d] = <<>>
  BY <1>1, <1>2 DEF WebhookOK, TablesOK
<1>4. jobs'[d] = <<>> /\ d \notin commits'
  BY <1>2, <1>3 DEF tableVars
<1>5. QED
  BY <1>4 DEF Progress, At

(* An event about the app gets no commit and no jobs.                      *)
LEMMA AppProgress ==
  ASSUME WebhookOK', NEW d \in Deliveries', AboutApp(d)'
  PROVE  Progress(d)'
<1>1. d \notin commits'
  BY DEF WebhookOK, TablesOK
<1>2. d \in 1 .. MaxDeliveries
  <2>1. deliveries' \in Seq(Handlers) /\ Len(deliveries') <= github'.events + mishaps'
    BY DEF WebhookOK, HandlersOK
  <2>2. mishaps' \in 0 .. MaxMishaps
    BY DEF WebhookOK, TablesOK
  <2>3. github'.events \in Nat /\ github'.events <= MaxEvents
    BY DEF WebhookOK, GithubOK, GitHubs
  <2>4. QED
    BY <2>1, <2>2, <2>3, Constants DEF Deliveries, MaxDeliveries
<1>3. jobs'[d] = <<>>
  BY <1>1, <1>2 DEF WebhookOK, TablesOK
<1>4. /\ deliveries'[d].event.type \in AppEvents
      /\ deliveries'[d].step \in StepsOf(deliveries'[d].event.type)
  BY DEF WebhookOK, HandlersOK, AboutApp
<1>5. deliveries'[d].step \notin {"fetch_devenv_yaml", "new_job", "check_run", "insert_job"}
  BY <1>4 DEF StepsOf, AppEvents
<1>6. QED
  BY <1>1, <1>3, <1>5 DEF Progress, At

MoreRevs ==
  \/ SameRevs
  \/ \E row \in [repo : Repos, cloud : Clouds] :
       github'.revs = Append(github.revs, row) /\ Len(github.revs) + 1 <= MaxRevs

LEMMA RevsKept ==
  ASSUME GithubOK, MoreRevs, github' \in GitHubs, github'.events <= MaxEvents
  PROVE  /\ GithubOK'
         /\ Len(github.revs) <= Len(github'.revs)
         /\ \A n \in 1 .. Len(github.revs) : github'.revs[n] = github.revs[n]
<1> DEFINE S == [repo : Repos, cloud : Clouds]
           revs == github.revs
           more == github'.revs
<1>1. revs \in Seq(S) /\ more \in Seq(S) /\ Len(revs) <= MaxRevs
  BY DEF GithubOK, GitHubs
<1>2. CASE SameRevs
  BY <1>1, <1>2 DEF SameRevs, GithubOK, IsHead
<1>3. ASSUME NEW row \in S, more = Append(revs, row), Len(revs) + 1 <= MaxRevs
      PROVE  /\ GithubOK' /\ Len(revs) <= Len(more)
             /\ \A n \in 1 .. Len(revs) : more[n] = revs[n]
  <2>1. \A n \in DOMAIN revs : \E head \in DOMAIN revs :
          /\ revs[head].repo = revs[n].repo
          /\ \A m \in DOMAIN revs : revs[m].repo = revs[n].repo => m <= head
    BY DEF GithubOK, IsHead
  <2> HIDE DEF S, revs, more
  <2>2. /\ Len(more) = Len(revs) + 1 /\ more[Len(more)] = row
        /\ \A n \in 1 .. Len(revs) : more[n] = revs[n]
        /\ DOMAIN more = 1 .. Len(more) /\ DOMAIN revs = 1 .. Len(revs) /\ Len(revs) \in Nat
    BY <1>1, <1>3
  <2>3. ASSUME NEW n \in DOMAIN more
        PROVE  \E head \in DOMAIN more :
                 /\ more[head].repo = more[n].repo
                 /\ \A m \in DOMAIN more : more[m].repo = more[n].repo => m <= head
    <3>1. CASE more[n].repo = row.repo
      <4>1. Len(more) \in DOMAIN more /\ \A m \in DOMAIN more : m <= Len(more)
        BY <2>2
      <4>2. more[Len(more)].repo = more[n].repo
        BY <3>1, <2>2
      <4>3. QED
        BY <4>1, <4>2
    <3>2. CASE more[n].repo # row.repo
      <4>1. n \in DOMAIN revs /\ more[n] = revs[n]
        BY <3>2, <2>2
      <4>2. PICK head \in DOMAIN revs :
              /\ revs[head].repo = revs[n].repo
              /\ \A m \in DOMAIN revs : revs[m].repo = revs[n].repo => m <= head
        BY <4>1, <2>1
      <4>3. ASSUME NEW m \in DOMAIN more, more[m].repo = more[n].repo
            PROVE  m \in DOMAIN revs /\ revs[m].repo = revs[n].repo
        <5>1. m # Len(more)
          BY <3>2, <2>2, <4>3
        <5>2. m \in DOMAIN revs
          BY <5>1, <2>2
        <5>3. QED
          BY <5>2, <2>2, <4>1, <4>3
      <4>4. head \in DOMAIN more /\ more[head] = revs[head]
        BY <2>2
      <4>5. QED
        BY <4>1, <4>2, <4>3, <4>4
    <3>3. QED
      BY <3>1, <3>2
  <2>4. Len(more) <= MaxRevs
    BY <2>2, <1>3
  <2>5. GithubOK'
    BY <2>3, <2>4 DEF GithubOK, IsHead, more
  <2>6. QED
    BY <2>2, <2>5
<1>4. QED
  BY <1>2, <1>3 DEF MoreRevs, SameRevs

LEMMA SendKeeps ==
  ASSUME WebhookOK, ProgressInv, NEW events \in Seq(Events), Sends(events), MoreRevs,
         github'.changes >= github.changes,
         \A k \in 1 .. Len(events) : events[k].type \notin AppEvents =>
           /\ events[k].rev \in DOMAIN github'.revs
           /\ github'.revs[events[k].rev].repo = events[k].repo
  PROVE  WebhookOK' /\ ProgressInv'
<1>1. /\ GithubOK' /\ Len(github.revs) <= Len(github'.revs)
      /\ \A n \in 1 .. Len(github.revs) : github'.revs[n] = github.revs[n]
  BY RevsKept DEF WebhookOK, Sends
<1> DEFINE S == [repo : Repos, cloud : Clouds]
<1>2. github.revs \in Seq(S) /\ github'.revs \in Seq(S)
  BY DEF WebhookOK, GithubOK, GitHubs, Sends
<1> HIDE DEF S
<1>3. DOMAIN github.revs \subseteq DOMAIN github'.revs /\ DOMAIN github.revs = 1 .. Len(github.revs)
  BY <1>1, <1>2
<1>4. ASSUME NEW d \in Deliveries'
      PROVE  \/ d \in Deliveries /\ deliveries'[d] = deliveries[d]
             \/ /\ d \notin Deliveries
                /\ \E k \in 1 .. Len(events) :
                     Fresh(deliveries'[d], events[k], github.changes)
  <2>1. /\ d \in 1 .. Len(deliveries) + Len(events) /\ Len(deliveries) \in Nat
        /\ Len(events) \in Nat /\ Deliveries = 1 .. Len(deliveries)
    BY Sizes DEF Sends, Deliveries
  <2>2. CASE d \in 1 .. Len(deliveries)
    BY <2>1, <2>2 DEF Sends
  <2>3. CASE d \notin 1 .. Len(deliveries)
    <3>1. d - Len(deliveries) \in 1 .. Len(events)
          /\ Len(deliveries) + (d - Len(deliveries)) = d
      BY <2>1, <2>3
    <3>2. QED
      BY <2>1, <2>3, <3>1 DEF Sends
  <2>4. QED
    BY <2>2, <2>3
<1>5. Deliveries \subseteq Deliveries'
  BY Sizes DEF Sends, Deliveries
<1>6. HandlersOK'
  <2>1. deliveries' \in Seq(Handlers) /\ Len(deliveries') <= github'.events + mishaps'
    BY Sizes DEF Sends, WebhookOK, HandlersOK
  <2>2. ASSUME NEW d \in Deliveries'
        PROVE  /\ deliveries'[d].step \in StepsOf(deliveries'[d].event.type)
               /\ deliveries'[d].changes <= github'.changes
               /\ deliveries'[d].event.type \notin AppEvents =>
                    /\ deliveries'[d].event.rev \in DOMAIN github'.revs
                    /\ github'.revs[deliveries'[d].event.rev].repo = deliveries'[d].event.repo
    <3>1. github.changes \in Nat /\ github'.changes \in Nat
      BY DEF WebhookOK, GithubOK, GitHubs, Sends
    <3>2. CASE d \in Deliveries /\ deliveries'[d] = deliveries[d]
      <4>1. /\ deliveries[d].step \in StepsOf(deliveries[d].event.type)
            /\ deliveries[d].changes <= github.changes
            /\ deliveries[d].event.type \notin AppEvents =>
                 /\ deliveries[d].event.rev \in DOMAIN github.revs
                 /\ github.revs[deliveries[d].event.rev].repo = deliveries[d].event.repo
        BY <3>2 DEF WebhookOK, HandlersOK, AboutApp
      <4>2. deliveries[d].changes \in Nat
        <5>1. deliveries[d] \in Handlers
          BY <3>2 DEF WebhookOK, HandlersOK, Deliveries
        <5>2. QED
          BY <5>1 DEF Handlers
      <4>3. QED
        BY <4>1, <4>2, <3>1, <3>2, <1>1, <1>3, SMTT(30)
    <3>3. CASE \E k \in 1 .. Len(events) : Fresh(deliveries'[d], events[k], github.changes)
      BY <3>1, <3>3 DEF Fresh, StepsOf
    <3>4. QED
      BY <3>2, <3>3, <1>4
  <2>3. QED
    BY <2>1, <2>2 DEF HandlersOK, AboutApp
<1>7. TablesOK'
  <2>1. ASSUME NEW d \in Deliveries', At(d, "upsert_installation")' \/ At(d, "upsert_repos")'
        PROVE  owner
    BY <2>1, <1>4 DEF At, Fresh, WebhookOK, TablesOK
  <2>2. ASSUME NEW d \in commits
        PROVE  /\ d \in Deliveries'
               /\ deliveries'[d].event.type \notin AppEvents
               /\ repos[deliveries'[d].event.repo] # "absent"
    <3>1. d \in Deliveries
      BY DEF WebhookOK, TablesOK
    <3>2. deliveries'[d] = deliveries[d]
      BY <3>1 DEF Sends
    <3>3. QED
      BY <3>1, <3>2, <1>5 DEF WebhookOK, TablesOK, AboutApp
  <2>3. QED
    BY <2>1, <2>2 DEF WebhookOK, TablesOK, Sends, tableVars, AboutApp
<1>8. WebhookOK'
  BY <1>1, <1>6, <1>7 DEF WebhookOK
<1>9. ASSUME NEW d \in Deliveries'  PROVE Progress(d)'
  <2>1. CASE d \in Deliveries /\ deliveries'[d] = deliveries[d]
    <3>1. CASE AboutApp(d)
      BY <3>1, <2>1, <1>8, AppProgress DEF AboutApp
    <3>2. CASE ~AboutApp(d)
      <4>1. deliveries[d].event.rev \in 1 .. Len(github.revs)
        BY <2>1, <3>2, <1>3 DEF WebhookOK, HandlersOK
      <4>2. CloudsSeen(d) \subseteq CloudsSeen(d)'
        <5>1. deliveries[d].event.rev \in Nat \ {0}
          BY <4>1, <1>2
        <5>2. deliveries'[d].event = deliveries[d].event
          BY <2>1
        <5>3. QED
          BY <5>1, <5>2, <1>1, <1>2, SeesMore
      <4>3. jobs' = jobs /\ commits' = commits /\ Progress(d)
        BY <2>1 DEF Sends, tableVars, ProgressInv
      <4>4. QED
        BY <2>1, <4>2, <4>3, ProgressKept
    <3>3. QED
      BY <3>1, <3>2
  <2>2. CASE d \notin Deliveries
    <3>1. deliveries'[d].step = "sent"
      BY <2>2, <1>4 DEF Fresh
    <3>2. QED
      BY <2>2, <3>1, <1>8, NothingYet DEF Sends
  <2>3. QED
    BY <2>1, <2>2, <1>4
<1>10. QED
  BY <1>8, <1>9 DEF ProgressInv

LEMMA GithubStep ==
  ASSUME WebhookOK, ProgressInv,
         \/ Install \/ Uninstall \/ Suspend
         \/ \E r \in Repos : SelectRepo(r) \/ Push(r) \/ PushToFork(r)
  PROVE  WebhookOK' /\ ProgressInv'
<1>1. deliveries \in Seq(Handlers) /\ github \in GitHubs
  BY DEF WebhookOK, HandlersOK, GithubOK
<1>2. github.changes \in Nat
  BY <1>1 DEF GitHubs
(* An event about the app. *)
<1>3. ASSUME NEW event \in Events, event.type \in AppEvents, Sends(<<event>>), SameRevs,
             github'.changes >= github.changes
      PROVE  WebhookOK' /\ ProgressInv'
  <2>1. /\ <<event>> \in Seq(Events) /\ Len(<<event>>) = 1
        /\ \A k \in 1 .. 1 : (<<event>>)[k] = event
    OBVIOUS
  <2>2. \A k \in 1 .. Len(<<event>>) : (<<event>>)[k].type \in AppEvents
    BY <2>1, <1>3
  <2>3. MoreRevs
    BY <1>3 DEF MoreRevs
  <2>4. QED
    BY <2>1, <2>2, <2>3, <1>3, SendKeeps
<1>4. CASE Install
  <2>1. PICK i \in Installations, selected \in SUBSET Repos :
          LET event == [type |-> "created", installation |-> i, repos |-> selected] IN
          event \in Events /\ Sends(<<event>>) /\ SameRevs /\ github'.changes = github.changes
    BY <1>1, <1>4, Installing
  <2> DEFINE event == [type |-> "created", installation |-> i, repos |-> selected]
  <2>2. event.type \in AppEvents
    BY DEF AppEvents
  <2>3. event \in Events /\ Sends(<<event>>) /\ SameRevs /\ github'.changes >= github.changes
    BY <2>1, <1>2
  <2> HIDE DEF event
  <2>4. QED
    BY <2>2, <2>3, <1>3
<1>5. CASE Uninstall
  <2> DEFINE event == [type |-> "deleted", installation |-> github.installation]
  <2>1. event \in Events /\ Sends(<<event>>) /\ SameRevs /\ github'.changes >= github.changes
    BY <1>1, <1>2, <1>5, Uninstalling
  <2>2. event.type \in AppEvents
    BY DEF AppEvents
  <2> HIDE DEF event
  <2>3. QED
    BY <2>1, <2>2, <1>3
<1>6. CASE Suspend
  <2> DEFINE event == [type |-> IF github.suspended THEN "unsuspend" ELSE "suspend",
                       installation |-> github.installation]
  <2>1. event \in Events /\ Sends(<<event>>) /\ SameRevs /\ github'.changes >= github.changes
    BY <1>1, <1>2, <1>6, Suspending
  <2>2. event.type \in AppEvents
    BY DEF AppEvents
  <2> HIDE DEF event
  <2>3. QED
    BY <2>1, <2>2, <1>3
<1>7. ASSUME NEW r \in Repos, SelectRepo(r)
      PROVE  WebhookOK' /\ ProgressInv'
  <2> DEFINE event == [type |-> "repositories", installation |-> github.installation,
                       added |-> {r} \ github.selected,
                       removed |-> {r} \cap github.selected]
  <2>1. event \in Events /\ Sends(<<event>>) /\ SameRevs /\ github'.changes >= github.changes
    <3>1. /\ event \in Events /\ Sends(<<event>>) /\ SameRevs
          /\ github'.changes = github.changes + (IF r \in github.selected THEN 1 ELSE 0)
      BY <1>1, <1>7, Selecting
    <3>2. github'.changes >= github.changes
      BY <3>1, <1>2
    <3>3. QED
      BY <3>1, <3>2
  <2>2. event.type \in AppEvents
    BY DEF AppEvents
  <2> HIDE DEF event
  <2>3. QED
    BY <2>1, <2>2, <1>3
<1>8. ASSUME NEW r \in Repos, Push(r)
      PROVE  WebhookOK' /\ ProgressInv'
  <2> DEFINE rev == Len(github.revs) + 1
             row(cloud) == [repo |-> r, cloud |-> cloud]
  <2>1. PICK cloud \in Clouds, events \in Seq(Events) :
          /\ Sends(events) /\ rev <= MaxRevs
          /\ \A k \in 1 .. Len(events) :
               events[k].type \notin AppEvents /\ events[k].repo = r /\ events[k].rev = rev
          /\ github'.revs = Append(github.revs, row(cloud))
          /\ github'.changes = github.changes
    BY <1>1, <1>8, Pushing
  <2>2. row(cloud) \in [repo : Repos, cloud : Clouds] /\ row(cloud).repo = r
    OBVIOUS
  <2>3. github.revs \in Seq([repo : Repos, cloud : Clouds])
    BY <1>1 DEF GitHubs
  <2> HIDE DEF row
  <2>4. MoreRevs
    BY <2>1, <2>2 DEF MoreRevs
  <2>5. rev \in DOMAIN github'.revs /\ github'.revs[rev].repo = r
    BY <2>1, <2>2, <2>3
  <2>6. QED
    BY <2>1, <2>4, <2>5, <1>2, SendKeeps
<1>9. ASSUME NEW r \in Repos, PushToFork(r)
      PROVE  WebhookOK' /\ ProgressInv'
  <2>1. PICK rev \in DOMAIN github.revs :
          LET event == [type |-> "fork", repo |-> r, rev |-> rev] IN
          /\ event \in Events /\ Sends(<<event>>) /\ SameRevs
          /\ github.revs[rev].repo = r /\ github'.changes = github.changes
    BY <1>1, <1>9, PushingToFork
  <2> DEFINE event == [type |-> "fork", repo |-> r, rev |-> rev]
  <2>2. /\ event.type \notin AppEvents /\ event.repo = r /\ event.rev = rev
        /\ event \in Events /\ Sends(<<event>>)
    BY <2>1 DEF AppEvents
  <2> HIDE DEF event
  <2>3. /\ <<event>> \in Seq(Events) /\ Len(<<event>>) = 1
        /\ \A k \in 1 .. 1 : (<<event>>)[k] = event
    BY <2>2
  <2>4. MoreRevs
    BY <2>1 DEF MoreRevs
  <2>5. rev \in DOMAIN github'.revs /\ github'.revs[rev].repo = r
    BY <2>1 DEF SameRevs
  <2>6. \A k \in 1 .. Len(<<event>>) :
          /\ (<<event>>)[k].type \notin AppEvents
          /\ (<<event>>)[k].repo = r /\ (<<event>>)[k].rev = rev
    BY <2>2, <2>3
  <2>7. \A k \in 1 .. Len(<<event>>) : (<<event>>)[k].type \notin AppEvents =>
          /\ (<<event>>)[k].rev \in DOMAIN github'.revs
          /\ github'.revs[(<<event>>)[k].rev].repo = (<<event>>)[k].repo
    BY <2>5, <2>6
  <2>8. github'.changes >= github.changes /\ <<event>> \in Seq(Events) /\ Sends(<<event>>)
    BY <2>1, <2>2, <2>3, <1>2
  <2> DEFINE events == <<event>>
  <2> HIDE DEF events
  <2>9. /\ events \in Seq(Events) /\ Sends(events) /\ github'.changes >= github.changes
        /\ \A k \in 1 .. Len(events) : events[k].type \notin AppEvents =>
             /\ events[k].rev \in DOMAIN github'.revs
             /\ github'.revs[events[k].rev].repo = events[k].repo
    BY <2>7, <2>8 DEF events
  <2>10. QED
    BY <2>4, <2>9, SendKeeps
<1>10. QED
  BY <1>4, <1>5, <1>6, <1>7, <1>8, <1>9

-----------------------------------------------------------------------------
(* A delivery is repeated                                                  *)

LEMMA Redelivering ==
  ASSUME WebhookOK, NEW d \in Deliveries, Redeliver(d)
  PROVE  /\ deliveries' \in Seq(Handlers) /\ Len(deliveries') = Len(deliveries) + 1
         /\ \A e \in Deliveries : deliveries'[e] = deliveries[e]
         /\ Fresh(deliveries'[Len(deliveries) + 1], deliveries[d].event,
                  deliveries[d].changes)
         /\ mishaps' = mishaps + 1 /\ mishaps' <= MaxMishaps
         /\ orderly' = (orderly /\ ~AboutApp(d))
         /\ UNCHANGED <<github, tableVars>>
<1> DEFINE old == deliveries[d]
           first == Delivery(old.event)
           again == [first EXCEPT !.changes = old.changes]
<1>1. deliveries \in Seq(Handlers) /\ old \in Handlers
  BY DEF WebhookOK, HandlersOK, Deliveries
<1>2. /\ first \in Handlers
      /\ first.event = old.event /\ first.step = "sent" /\ first.todo = {}
      /\ first.vms = <<>> /\ first.cause = None
  <2>1. old.event \in Events /\ github.changes \in Nat
    BY <1>1, Sizes DEF Handlers
  <2>2. "sent" \in Steps /\ None \in Causes
    BY DEF Steps, Causes
  <2> HIDE DEF old
  <2>3. QED
    BY <2>1, <2>2 DEF Delivery, Handlers
<1>3. old.changes \in Nat
  BY <1>1 DEF Handlers
<1>4. deliveries' = Append(deliveries, again)
  BY DEF Redeliver
<1> HIDE DEF first, old
<1>5. /\ again \in Handlers /\ again.changes = old.changes
      /\ again.event = first.event /\ again.step = first.step /\ again.todo = first.todo
      /\ again.vms = first.vms /\ again.cause = first.cause
  BY <1>2, <1>3, Zenon DEF Handlers
<1> HIDE DEF again
<1>6. /\ deliveries' \in Seq(Handlers) /\ Len(deliveries') = Len(deliveries) + 1
      /\ \A e \in Deliveries : deliveries'[e] = deliveries[e]
      /\ deliveries'[Len(deliveries) + 1] = again
  BY <1>1, <1>4, <1>5 DEF Deliveries
<1>7. Fresh(again, old.event, old.changes)
  BY <1>2, <1>5 DEF Fresh
<1>8. mishaps' = mishaps + 1 /\ mishaps' <= MaxMishaps
  BY Sizes, Constants DEF Redeliver
<1>9. QED
  BY <1>6, <1>7, <1>8 DEF Redeliver, old

LEMMA RedeliverStep ==
  ASSUME WebhookOK, ProgressInv, NEW d \in Deliveries, Redeliver(d)
  PROVE  WebhookOK' /\ ProgressInv'
<1> DEFINE new == Len(deliveries) + 1
<1>1. /\ deliveries' \in Seq(Handlers) /\ Len(deliveries') = Len(deliveries) + 1
      /\ \A e \in Deliveries : deliveries'[e] = deliveries[e]
      /\ Fresh(deliveries'[new], deliveries[d].event, deliveries[d].changes)
      /\ mishaps' = mishaps + 1 /\ mishaps' <= MaxMishaps /\ orderly' \in BOOLEAN
      /\ UNCHANGED <<github, tableVars>>
  BY Redelivering
<1>2. /\ Deliveries = 1 .. Len(deliveries) /\ Len(deliveries) \in Nat
      /\ Deliveries' = 1 .. new /\ mishaps \in Nat /\ github.events \in Nat
  BY <1>1, Sizes DEF Deliveries
<1>3. ASSUME NEW e \in Deliveries'
      PROVE  \E o \in Deliveries :
               /\ deliveries'[e].event = deliveries[o].event
               /\ deliveries'[e].changes = deliveries[o].changes
               /\ \/ e = o /\ deliveries'[e] = deliveries[e]
                  \/ e = new /\ deliveries'[e].step = "sent"
  <2>1. CASE e = new
    BY <1>1, <2>1 DEF Fresh
  <2>2. CASE e \in Deliveries
    BY <1>1, <2>2
  <2>3. QED
    BY <1>2, <2>1, <2>2
<1>4. HandlersOK'
  <2>1. ASSUME NEW e \in Deliveries'
        PROVE  /\ deliveries'[e].step \in StepsOf(deliveries'[e].event.type)
               /\ deliveries'[e].changes <= github'.changes
               /\ deliveries'[e].event.type \notin AppEvents =>
                    /\ deliveries'[e].event.rev \in DOMAIN github'.revs
                    /\ github'.revs[deliveries'[e].event.rev].repo = deliveries'[e].event.repo
    <3>1. "sent" \in StepsOf(deliveries'[e].event.type)
      BY DEF StepsOf
    <3>2. QED
      BY <1>1, <1>3, <3>1 DEF WebhookOK, HandlersOK, AboutApp
  <2>2. Len(deliveries') <= github'.events + mishaps'
    BY <1>1, <1>2 DEF WebhookOK, HandlersOK
  <2>3. QED
    BY <2>1, <2>2, <1>1 DEF HandlersOK, AboutApp
<1>5. TablesOK'
  <2>1. ASSUME NEW e \in Deliveries', At(e, "upsert_installation")' \/ At(e, "upsert_repos")'
        PROVE  owner
    BY <2>1, <1>3 DEF At, WebhookOK, TablesOK
  <2>2. ASSUME NEW e \in commits
        PROVE  /\ e \in Deliveries'
               /\ deliveries'[e].event.type \notin AppEvents
               /\ repos[deliveries'[e].event.repo] # "absent"
    BY <1>1, <1>2 DEF WebhookOK, TablesOK, AboutApp
  <2>3. mishaps' \in 0 .. MaxMishaps
    BY <1>1, <1>2, Constants
  <2>4. QED
    BY <2>1, <2>2, <2>3, <1>1 DEF WebhookOK, TablesOK, tableVars, AboutApp
<1>6. WebhookOK'
  <2>1. GithubOK'
    BY <1>1 DEF WebhookOK, GithubOK, IsHead
  <2>2. QED
    BY <2>1, <1>4, <1>5 DEF WebhookOK
<1>7. ASSUME NEW e \in Deliveries'  PROVE Progress(e)'
  <2>1. CASE e \in Deliveries
    <3>1. CloudsSeen(e)' = CloudsSeen(e)
      BY <1>1, <2>1 DEF CloudsSeen
    <3>2. deliveries'[e] = deliveries[e] /\ jobs' = jobs /\ commits' = commits /\ Progress(e)
      BY <1>1, <2>1 DEF tableVars, ProgressInv
    <3>3. QED
      BY <3>1, <3>2, ProgressKept
  <2>2. CASE e = new
    <3>1. deliveries'[e].step = "sent" /\ e \notin Deliveries
      BY <1>1, <1>2, <2>2 DEF Fresh
    <3>2. QED
      BY <3>1, <1>1, <1>6, NothingYet
  <2>3. QED
    BY <2>1, <2>2, <1>2
<1>8. QED
  BY <1>6, <1>7 DEF ProgressInv

-----------------------------------------------------------------------------
(* The invariant is kept by the handlers *)

LEMMA EventAt ==
  ASSUME WebhookOK, NEW d \in Deliveries
  PROVE  /\ deliveries[d] \in Handlers /\ deliveries[d].event \in Events
         /\ \/ At(d, "upsert_owner") \/ At(d, "upsert_installation") \/ At(d, "upsert_repos")
            => deliveries[d].event.type = "created"
         /\ At(d, "add_repos") \/ At(d, "remove_repos") =>
              deliveries[d].event.type = "repositories"
         /\ At(d, "disable") =>
              deliveries[d].event.type \in {"deleted", "suspend", "unsuspend"}
         /\ deliveries[d].step \in PushSteps => deliveries[d].event.type \notin AppEvents
<1>1. deliveries[d] \in Handlers /\ deliveries[d].event \in Events
  <2>1. deliveries[d] \in Handlers
    BY DEF WebhookOK, HandlersOK, Deliveries
  <2>2. QED
    BY <2>1 DEF Handlers
<1>2. /\ deliveries[d].step \in StepsOf(deliveries[d].event.type)
      /\ deliveries[d].event.type \in AppEvents \cup {"push", "synchronize", "fork"}
  BY <1>1, EventFields DEF WebhookOK, HandlersOK
<1>3. QED
  BY <1>1, <1>2 DEF StepsOf, AppEvents, PushSteps, At

LEMMA HandlersKept ==
  ASSUME WebhookOK, NEW d \in Deliveries, Moves(d),
         deliveries'[d].step \in StepsOf(deliveries[d].event.type),
         github' = github, mishaps' \in Nat, mishaps' >= mishaps
  PROVE  GithubOK' /\ HandlersOK'
<1>1. GithubOK'
  BY DEF WebhookOK, GithubOK, IsHead
<1>2. Deliveries' = Deliveries
  BY DEF Moves, Deliveries, WebhookOK, HandlersOK
<1>3. Len(deliveries') <= github'.events + mishaps'
  BY Sizes DEF Moves, WebhookOK, HandlersOK
<1>4. ASSUME NEW e \in Deliveries
      PROVE  /\ deliveries'[e].event = deliveries[e].event
             /\ deliveries'[e].changes = deliveries[e].changes
             /\ deliveries'[e].step \in StepsOf(deliveries[e].event.type)
  BY DEF Moves, WebhookOK, HandlersOK
<1>5. QED
  BY <1>1, <1>2, <1>3, <1>4 DEF Moves, WebhookOK, HandlersOK, AboutApp

LEMMA TablesKept ==
  ASSUME WebhookOK, NEW d \in Deliveries, Moves(d),
         owner' \in BOOLEAN, owner => owner', orderly' \in BOOLEAN,
         mishaps' \in 0 .. MaxMishaps,
         installations' \in [Installations -> RowStates], repos' \in [Repos -> RowStates],
         \A i \in Installations :
           installations'[i] # "absent" => installations[i] # "absent" \/ owner',
         \A r \in Repos : repos'[r] # "absent" => repos[r] # "absent" \/ owner',
         \A r \in Repos : repos[r] # "absent" => repos'[r] # "absent",
         deliveries'[d].step \in {"upsert_installation", "upsert_repos"} => owner',
         \/ commits' = commits
         \/ /\ commits' = commits \cup {d} /\ ~AboutApp(d)
            /\ repos'[deliveries[d].event.repo] # "absent",
         jobs' \in [1 .. MaxDeliveries -> Seq(JobRows)],
         \A e \in 1 .. MaxDeliveries : e # d => jobs'[e] = jobs[e],
         jobs'[d] # <<>> => d \in commits'
  PROVE  TablesOK'
<1>1. Deliveries' = Deliveries
  BY DEF Moves, Deliveries, WebhookOK, HandlersOK
<1>2. \A e \in Deliveries : deliveries'[e].event = deliveries[e].event
  BY DEF Moves
<1>3. (\E i \in Installations : installations'[i] # "absent") => owner'
  BY DEF WebhookOK, TablesOK
<1>4. (\E r \in Repos : repos'[r] # "absent") => owner'
  BY DEF WebhookOK, TablesOK
<1>5. ASSUME NEW e \in Deliveries', At(e, "upsert_installation")' \/ At(e, "upsert_repos")'
      PROVE  owner'
  <2>1. deliveries'[e].step \in {"upsert_installation", "upsert_repos"}
    BY <1>5 DEF At
  <2>2. CASE e = d
    BY <2>1, <2>2
  <2>3. CASE e # d
    BY <2>1, <2>3, <1>1 DEF Moves, At, WebhookOK, TablesOK
  <2>4. QED
    BY <2>2, <2>3
<1>6. ASSUME NEW e \in commits'
      PROVE  /\ e \in Deliveries' /\ deliveries'[e].event.type \notin AppEvents
             /\ repos'[deliveries'[e].event.repo] # "absent"
  <2>1. CASE e \in commits
    <3>1. /\ e \in Deliveries /\ deliveries[e].event.type \notin AppEvents
          /\ repos[deliveries[e].event.repo] # "absent"
      BY <2>1 DEF WebhookOK, TablesOK, AboutApp
    <3>2. deliveries[e].event.repo \in Repos
      BY <3>1, EventAt, EventFields
    <3>3. QED
      BY <3>1, <3>2, <1>1, <1>2
  <2>2. CASE e \notin commits
    BY <2>2, <1>1, <1>2 DEF AboutApp
  <2>3. QED
    BY <2>1, <2>2
<1>7. \A e \in 1 .. MaxDeliveries : jobs'[e] # <<>> => e \in commits'
  BY DEF WebhookOK, TablesOK
<1>8. QED
  BY <1>3, <1>4, <1>5, <1>6, <1>7 DEF TablesOK, AboutApp

(* The steps about the app: none of them touches commits or jobs.          *)
AppStep(d) ==
  \/ UpsertOwner(d) \/ UpsertInstallation(d) \/ UpsertRepo(d)
  \/ DisableInstallation(d) \/ AddRepo(d) \/ RemoveRepo(d)

LEMMA AppTypes ==
  ASSUME WebhookOK, NEW d \in Deliveries, AppStep(d)
  PROVE  deliveries[d].event.type \in AppEvents
<1>1. QED
  BY EventAt DEF AppStep, UpsertOwner, UpsertInstallation, UpsertRepo,
                 DisableInstallation, AddRepo, RemoveRepo, AppEvents

(* A row of a repository is enabled or disabled, and never goes away.      *)
LEMMA RepoRows ==
  ASSUME WebhookOK, NEW r \in Repos, Enables(r) \/ Disables(r)
  PROVE  /\ repos' \in [Repos -> RowStates]
         /\ \A s \in Repos : repos[s] # "absent" => repos'[s] # "absent"
         /\ \A s \in Repos : s # r => repos'[s] = repos[s]
         /\ Enables(r) => repos'[r] = "enabled"
         /\ Disables(r) => (repos'[r] # "absent" => repos[r] # "absent")
<1>1. repos \in [Repos -> RowStates]
  BY DEF WebhookOK, TablesOK
<1>2. QED
  BY <1>1 DEF Enables, Disables, RowStates

LEMMA AppStepKeeps ==
  ASSUME WebhookOK, ProgressInv, NEW d \in Deliveries, AppStep(d)
  PROVE  WebhookOK' /\ ProgressInv' /\ Moves(d)
<1>1. /\ deliveries \in Seq(Handlers) /\ mishaps \in 0 .. MaxMishaps /\ mishaps \in Nat
      /\ owner \in BOOLEAN /\ orderly \in BOOLEAN
      /\ installations \in [Installations -> RowStates] /\ repos \in [Repos -> RowStates]
      /\ jobs \in [1 .. MaxDeliveries -> Seq(JobRows)] /\ d \in 1 .. MaxDeliveries
      /\ jobs[d] # <<>> => d \in commits
  BY Sizes DEF WebhookOK, HandlersOK, TablesOK
<1> DEFINE type == deliveries[d].event.type
<1>2. /\ type \in AppEvents
      /\ deliveries[d].event.installation \in Installations
      /\ deliveries[d].todo \subseteq Repos
  <2>1. type \in AppEvents
    BY AppTypes
  <2>2. deliveries[d].event.installation \in Installations
    BY <2>1, EventAt, EventFields
  <2>3. deliveries[d] \in Handlers
    BY EventAt
  <2>4. QED
    BY <2>1, <2>2, <2>3 DEF Handlers
(* The rest of the invariant follows from what becomes of the tables.      *)
<1>3. ASSUME Moves(d), deliveries'[d].step \in StepsOf(type),
             deliveries'[d].step \in {"upsert_installation", "upsert_repos"} => owner',
             owner' \in BOOLEAN, owner => owner',
             installations' \in [Installations -> RowStates],
             repos' \in [Repos -> RowStates],
             \A i \in Installations :
               installations'[i] # "absent" => installations[i] # "absent" \/ owner',
             \A r \in Repos : repos'[r] # "absent" => repos[r] # "absent" \/ owner',
             \A r \in Repos : repos[r] # "absent" => repos'[r] # "absent",
             UNCHANGED <<commits, jobs, orderly, outside>>
      PROVE  WebhookOK' /\ ProgressInv' /\ Moves(d)
  <2>1. github' = github /\ mishaps' = mishaps /\ commits' = commits /\ jobs' = jobs
        /\ orderly' = orderly
    BY <1>3 DEF outside
  <2>2. GithubOK' /\ HandlersOK'
    BY <1>1, <1>3, <2>1, HandlersKept
  <2>3. TablesOK'
    BY <1>1, <1>3, <2>1, TablesKept
  <2>4. WebhookOK'
    BY <2>2, <2>3 DEF WebhookOK
  <2>5. d \in Deliveries' /\ AboutApp(d)'
    BY <1>2, <1>3 DEF Moves, Deliveries, AboutApp
  <2>6. Progress(d)'
    BY <2>4, <2>5, AppProgress
  <2>7. QED
    BY <1>3, <2>1, <2>4, <2>6, Sizes, OthersProgress
<1>4. CASE UpsertOwner(d)
  <2>1. Keeps(d, "upsert_installation")
    BY <1>1, <1>4, Going, StepNames DEF UpsertOwner
  <2>2. type = "created"
    BY <1>4, EventAt DEF UpsertOwner
  <2>3. "upsert_installation" \in StepsOf("created")
    BY DEF StepsOf
  <2>4. QED
    BY <1>1, <1>3, <1>4, <2>1, <2>2, <2>3 DEF UpsertOwner, Keeps, Becomes
<1>5. CASE UpsertInstallation(d)
  <2>1. Keeps(d, "upsert_repos")
    BY <1>1, <1>5, Going, StepNames DEF UpsertInstallation
  <2>2. type = "created" /\ owner
    BY <1>5, EventAt DEF UpsertInstallation, WebhookOK, TablesOK
  <2>3. "upsert_repos" \in StepsOf("created")
    BY DEF StepsOf
  <2>4. /\ installations' \in [Installations -> RowStates] /\ owner' = owner /\ repos' = repos
        /\ UNCHANGED <<commits, jobs, orderly, outside>>
    BY <1>1, <1>2, <1>5 DEF UpsertInstallation, RowStates
  <2>5. QED
    BY <1>1, <1>3, <2>1, <2>2, <2>3, <2>4 DEF Keeps, Becomes
<1>6. CASE UpsertRepo(d)
  <2>1. /\ type = "created" /\ owner
        /\ UNCHANGED <<owner, installations, commits, jobs, orderly, outside>>
    BY <1>6, EventAt DEF UpsertRepo, WebhookOK, TablesOK
  <2>2. {"upsert_repos", "ok"} \subseteq StepsOf("created")
    BY DEF StepsOf
  <2>3. CASE Keeps(d, "ok") /\ UNCHANGED repos
    BY <1>1, <1>3, <2>1, <2>2, <2>3 DEF Keeps, Becomes
  <2>4. ASSUME NEW r \in deliveries[d].todo, Enables(r), Ticks(d, r)
        PROVE  WebhookOK' /\ ProgressInv' /\ Moves(d)
    <3>1. deliveries'[d].step = "upsert_repos" /\ Moves(d)
      BY <1>6, <2>4 DEF UpsertRepo, Ticks, Becomes, At
    <3>2. QED
      BY <1>1, <1>2, <1>3, <2>1, <2>2, <2>4, <3>1, RepoRows
  <2>5. QED
    BY <1>1, <1>6, <2>3, <2>4, UpsertingRepo
<1>7. CASE DisableInstallation(d)
  <2>1. Keeps(d, "ok")
    BY <1>1, <1>7, Going, StepNames DEF DisableInstallation
  <2>2. "ok" \in StepsOf(type)
    BY DEF StepsOf
  <2>3. /\ installations' \in [Installations -> RowStates] /\ owner' = owner /\ repos' = repos
        /\ \A i \in Installations : installations'[i] # "absent" => installations[i] # "absent"
        /\ UNCHANGED <<commits, jobs, orderly, outside>>
    BY <1>1, <1>2, <1>7 DEF DisableInstallation, RowStates
  <2>4. QED
    BY <1>1, <1>3, <2>1, <2>2, <2>3 DEF Keeps, Becomes
<1>8. CASE AddRepo(d)
  <2>1. /\ type = "repositories"
        /\ UNCHANGED <<owner, installations, commits, jobs, orderly, outside>>
    BY <1>8, EventAt DEF AddRepo
  <2>2. {"add_repos", "remove_repos", "error"} \subseteq StepsOf("repositories")
    BY DEF StepsOf
  <2>3. CASE /\ UNCHANGED repos
             /\ Becomes(d, "remove_repos", deliveries[d].event.removed,
                        deliveries[d].vms, deliveries[d].cause)
    BY <1>1, <1>3, <2>1, <2>2, <2>3 DEF Becomes
  <2>4. ASSUME NEW r \in deliveries[d].todo, owner, Enables(r), Ticks(d, r)
        PROVE  WebhookOK' /\ ProgressInv' /\ Moves(d)
    <3>1. deliveries'[d].step = "add_repos" /\ Moves(d)
      BY <1>8, <2>4 DEF AddRepo, Ticks, Becomes, At
    <3>2. QED
      BY <1>1, <1>2, <1>3, <2>1, <2>2, <2>4, <3>1, RepoRows
  <2>5. CASE Fails(d, "row") /\ UNCHANGED repos
    BY <1>1, <1>3, <2>1, <2>2, <2>5 DEF Fails, Becomes
  <2>6. QED
    BY <1>1, <1>8, <2>1, <2>3, <2>4, <2>5, AddingRepo
<1>9. CASE RemoveRepo(d)
  <2>1. /\ type = "repositories"
        /\ UNCHANGED <<owner, installations, commits, jobs, orderly, outside>>
    BY <1>9, EventAt DEF RemoveRepo
  <2>2. {"remove_repos", "ok"} \subseteq StepsOf("repositories")
    BY DEF StepsOf
  <2>3. CASE Keeps(d, "ok") /\ UNCHANGED repos
    BY <1>1, <1>3, <2>1, <2>2, <2>3 DEF Keeps, Becomes
  <2>4. ASSUME NEW r \in deliveries[d].todo, Disables(r), Ticks(d, r)
        PROVE  WebhookOK' /\ ProgressInv' /\ Moves(d)
    <3>1. deliveries'[d].step = "remove_repos" /\ Moves(d)
      BY <1>9, <2>4 DEF RemoveRepo, Ticks, Becomes, At
    <3>2. QED
      BY <1>1, <1>2, <1>3, <2>1, <2>2, <2>4, <3>1, RepoRows
  <2>5. QED
    BY <1>1, <1>9, <2>3, <2>4, RemovingRepo
<1>10. QED
  BY <1>4, <1>5, <1>6, <1>7, <1>8, <1>9 DEF AppStep

(* Steps that leave owner, installations and repositories alone.           *)
LEMMA RestKeeps ==
  ASSUME WebhookOK, ProgressInv, NEW d \in Deliveries, Moves(d),
         deliveries'[d].step \in StepsOf(deliveries[d].event.type),
         deliveries'[d].step \notin {"upsert_installation", "upsert_repos"},
         github' = github, mishaps' \in mishaps .. MaxMishaps, orderly' \in BOOLEAN,
         UNCHANGED <<owner, installations, repos>>,
         \/ commits' = commits
         \/ /\ commits' = commits \cup {d} /\ ~AboutApp(d)
            /\ repos[deliveries[d].event.repo] # "absent",
         jobs' \in [1 .. MaxDeliveries -> Seq(JobRows)],
         \A e \in 1 .. MaxDeliveries : e # d => jobs'[e] = jobs[e],
         jobs'[d] # <<>> => d \in commits',
         AboutApp(d) \/ Progress(d)'
  PROVE  WebhookOK' /\ ProgressInv'
<1>1. mishaps' \in 0 .. MaxMishaps /\ mishaps' \in Nat /\ mishaps' >= mishaps
  BY Sizes, Constants
<1>2. GithubOK' /\ HandlersOK'
  BY <1>1, HandlersKept
<1>3. TablesOK'
  BY <1>1, TablesKept DEF WebhookOK, TablesOK
<1>4. WebhookOK'
  BY <1>2, <1>3 DEF WebhookOK
<1>5. Progress(d)'
  <2>1. CASE AboutApp(d)
    <3>1. d \in Deliveries' /\ AboutApp(d)'
      BY <2>1 DEF Moves, Deliveries, AboutApp, WebhookOK, HandlersOK
    <3>2. QED
      BY <1>4, <3>1, AppProgress
  <2>2. QED
    BY <2>1
<1>6. QED
  BY <1>4, <1>5, Sizes, OthersProgress

LEMMA JobsTyped ==
  ASSUME WebhookOK, NEW d \in Deliveries
  PROVE  /\ jobs \in [1 .. MaxDeliveries -> Seq(JobRows)] /\ d \in 1 .. MaxDeliveries
         /\ jobs[d] # <<>> => d \in commits
         /\ deliveries \in Seq(Handlers) /\ orderly \in BOOLEAN
         /\ mishaps \in mishaps .. MaxMishaps
         /\ deliveries[d].vms \in Seq(Vms) /\ jobs[d] \in Seq(JobRows)
<1>1. /\ jobs \in [1 .. MaxDeliveries -> Seq(JobRows)] /\ d \in 1 .. MaxDeliveries
      /\ jobs[d] # <<>> => d \in commits
      /\ deliveries \in Seq(Handlers) /\ orderly \in BOOLEAN
      /\ mishaps \in mishaps .. MaxMishaps
  BY Sizes, Constants DEF WebhookOK, HandlersOK, TablesOK
<1>2. deliveries[d].vms \in Seq(Vms)
  <2>1. deliveries[d] \in Handlers
    BY EventAt
  <2>2. QED
    BY <2>1 DEF Handlers
<1>3. QED
  BY <1>1, <1>2

(* The handler of a push ends with an error: the jobs there are stay.      *)
LEMMA FailsProgress ==
  ASSUME WebhookOK, NEW d \in Deliveries, Progress(d),
         deliveries[d].step \in PushSteps, NEW c, Fails(d, c),
         jobs'[d] = jobs[d], d \in commits' <=> d \in commits, github' = github
  PROVE  Progress(d)'
<1>1. CloudsSeen(d)' = CloudsSeen(d)
  BY DEF Fails, Becomes, Moves, CloudsSeen
<1>2. deliveries'[d].step = "error"
  BY DEF Fails, Becomes
<1>3. jobs[d] # <<>> => deliveries[d].step \in {"new_job", "check_run", "insert_job"}
  BY JobsTyped DEF Progress, PushSteps, At
<1>4. jobs[d] # <<>> => \E cloud \in CloudsSeen(d) : MadeFrom(jobs[d], FinalCloud(cloud))
  BY <1>3 DEF Progress, At
<1>5. \A k \in 1 .. Len(jobs[d]) - 1 : Complete(jobs[d][k])
  BY DEF Progress
<1>6. QED
  BY <1>1, <1>2, <1>4, <1>5 DEF Progress, At, Complete, MadeFrom

LEMMA BeginKeeps ==
  ASSUME WebhookOK, ProgressInv, NEW d \in Deliveries, Begin(d)
  PROVE  WebhookOK' /\ ProgressInv'
<1> DEFINE type == deliveries[d].event.type
<1>1. Becomes(d, FirstStep(type), FirstTodo(d), deliveries[d].vms, deliveries[d].cause)
  BY JobsTyped, Beginning
<1>2. /\ At(d, "sent") /\ orderly' \in BOOLEAN /\ github' = github /\ mishaps' = mishaps
      /\ UNCHANGED <<owner, installations, repos>> /\ commits' = commits /\ jobs' = jobs
  BY JobsTyped DEF Begin, tableVars, outside
<1>3. type \in AppEvents \cup {"push", "synchronize", "fork"}
  BY EventAt, EventFields
<1>4. /\ FirstStep(type) \in StepsOf(type)
      /\ FirstStep(type) \notin {"upsert_installation", "upsert_repos"}
      /\ type \notin AppEvents => FirstStep(type) = "find_owner"
  BY <1>3 DEF FirstStep, StepsOf, AppEvents, PushSteps
<1>5. AboutApp(d) \/ Progress(d)'
  <2>1. CASE type \notin AppEvents
    <3>1. d \notin commits
      BY <1>2 DEF ProgressInv, Progress, At
    <3>2. jobs[d] = <<>>
      BY <3>1, JobsTyped
    <3>3. deliveries'[d].step = "find_owner"
      BY <1>1, <1>4, <2>1 DEF Becomes
    <3>4. QED
      BY <1>2, <3>1, <3>2, <3>3 DEF Progress, At
  <2>2. QED
    BY <2>1 DEF AboutApp
<1>6. QED
  BY <1>1, <1>2, <1>4, <1>5, JobsTyped, RestKeeps DEF Becomes

LEMMA Interrupting ==
  ASSUME WebhookOK, NEW d \in Deliveries, Interrupt(d)
  PROVE  /\ deliveries[d].step \notin {"sent", "ok", "error"}
         /\ mishaps' \in mishaps .. MaxMishaps /\ Fails(d, "fault")
         /\ UNCHANGED <<tableVars, orderly, github>>
<1>1. mishaps' \in mishaps .. MaxMishaps
  BY Sizes, Constants DEF Interrupt
<1>2. Fails(d, "fault")
  BY JobsTyped, Failing, StepNames DEF Interrupt
<1>3. QED
  BY <1>1, <1>2 DEF Interrupt, Answered

LEMMA InterruptKeeps ==
  ASSUME WebhookOK, ProgressInv, NEW d \in Deliveries, Interrupt(d)
  PROVE  WebhookOK' /\ ProgressInv'
<1>1. /\ deliveries[d].step \notin {"sent", "ok", "error"}
      /\ mishaps' \in mishaps .. MaxMishaps /\ Fails(d, "fault")
      /\ github' = github /\ orderly' = orderly
      /\ UNCHANGED <<owner, installations, repos>> /\ commits' = commits /\ jobs' = jobs
  BY Interrupting DEF tableVars
<1>2. AboutApp(d) \/ Progress(d)'
  <2>1. CASE ~AboutApp(d)
    <3>1. /\ deliveries[d].step \in StepsOf(deliveries[d].event.type)
          /\ deliveries[d].event.type \in {"push", "synchronize", "fork"}
      BY <2>1, EventAt, EventFields DEF WebhookOK, HandlersOK, AboutApp
    <3>2. deliveries[d].step \in PushSteps
      BY <3>1, <1>1 DEF StepsOf
    <3>3. QED
      BY <1>1, <3>2, FailsProgress DEF ProgressInv
  <2>2. QED
    BY <2>1
<1>3. "error" \in StepsOf(deliveries[d].event.type)
  BY DEF StepsOf
<1>4. QED
  BY <1>1, <1>2, <1>3, JobsTyped, RestKeeps DEF Fails, Becomes

PushStep(d) ==
  \/ FindOwner(d) \/ FindInstallation(d) \/ CreateCommit(d) \/ FetchDevenvYaml(d)
  \/ NewJob(d) \/ CreateCheckRun(d) \/ InsertJob(d)

LEMMA PushTypes ==
  ASSUME WebhookOK, NEW d \in Deliveries, PushStep(d)
  PROVE  /\ deliveries[d].event.type \notin AppEvents /\ ~AboutApp(d)
         /\ deliveries[d].step \in PushSteps
         /\ PushSteps \cup {"ok", "error"} \subseteq StepsOf(deliveries[d].event.type)
<1>1. deliveries[d].step \in PushSteps
  BY DEF PushStep, FindOwner, FindInstallation, CreateCommit, FetchDevenvYaml,
         NewJob, CreateCheckRun, InsertJob, At, PushSteps
<1>2. deliveries[d].event.type \in {"push", "synchronize", "fork"}
  BY <1>1, EventAt, EventFields
<1>3. QED
  BY <1>1, <1>2, EventAt DEF AboutApp, StepsOf

LEMMA FindingOwner ==
  ASSUME deliveries \in Seq(Handlers), NEW d \in Deliveries, FindOwner(d)
  PROVE  /\ At(d, "find_owner")
         /\ \/ owner /\ Keeps(d, "find_installation")
            \/ ~(owner /\ deliveries[d].event.type # "fork") /\ Fails(d, "row")
         /\ UNCHANGED <<tableVars, orderly, outside>>
<1>1. QED
  BY Going, Failing, StepNames DEF FindOwner

(* How the handler of d goes on until it has read devenv.yaml.             *)
LEMMA LookupKeeps ==
  ASSUME WebhookOK, ProgressInv, NEW d \in Deliveries,
         FindOwner(d) \/ FindInstallation(d) \/ CreateCommit(d)
  PROVE  WebhookOK' /\ ProgressInv' /\ Moves(d)
<1>1. /\ PushSteps \cup {"ok", "error"} \subseteq StepsOf(deliveries[d].event.type)
      /\ deliveries[d].step \in PushSteps /\ ~AboutApp(d)
  BY PushTypes DEF PushStep
<1>2. /\ deliveries[d].step \in {"find_owner", "find_installation", "create_commit"}
      /\ jobs' = jobs /\ github' = github /\ mishaps' = mishaps /\ orderly' = orderly
      /\ UNCHANGED <<owner, installations, repos>>
  BY DEF FindOwner, FindInstallation, CreateCommit, At, tableVars, outside
<1>3. d \notin commits /\ jobs[d] = <<>> /\ Progress(d)
  BY <1>2, JobsTyped DEF ProgressInv, Progress
<1>4. CASE \E c \in Causes : Fails(d, c) /\ commits' = commits
  <2>1. Progress(d)'
    BY <1>1, <1>2, <1>3, <1>4, FailsProgress
  <2>2. Moves(d) /\ deliveries'[d].step = "error"
    BY <1>4 DEF Fails, Becomes
  <2>3. QED
    BY <1>1, <1>2, <1>4, <2>1, <2>2, JobsTyped, RestKeeps
<1>5. ASSUME NEW s \in {"find_installation", "create_commit"},
             Keeps(d, s), commits' = commits
      PROVE  WebhookOK' /\ ProgressInv' /\ Moves(d)
  <2>1. Moves(d) /\ deliveries'[d].step = s /\ jobs'[d] = <<>> /\ d \notin commits'
    BY <1>2, <1>3, <1>5 DEF Keeps, Becomes
  <2>2. Progress(d)'
    BY <2>1 DEF Progress, At
  <2>3. s \in PushSteps
    BY DEF PushSteps
  <2>4. s \in StepsOf(deliveries[d].event.type)
    BY <1>1, <2>3
  <2>5. s \notin {"upsert_installation", "upsert_repos"}
    OBVIOUS
  <2>6. QED
    BY <1>2, <1>3, <1>5, <2>1, <2>2, <2>4, <2>5, JobsTyped, RestKeeps
<1>6. CASE /\ commits' = commits \cup {d} /\ Keeps(d, "fetch_devenv_yaml")
           /\ repos[deliveries[d].event.repo] # "absent"
  <2>1. /\ Moves(d) /\ deliveries'[d].step = "fetch_devenv_yaml" /\ jobs'[d] = <<>>
        /\ d \in commits'
    BY <1>2, <1>3, <1>6 DEF Keeps, Becomes
  <2>2. Progress(d)'
    BY <2>1 DEF Progress, At
  <2>3. "fetch_devenv_yaml" \in PushSteps
    BY DEF PushSteps
  <2>4. deliveries'[d].step \in StepsOf(deliveries[d].event.type)
    BY <1>1, <2>1, <2>3
  <2>5. QED
    BY <1>1, <1>2, <1>3, <1>6, <2>1, <2>2, <2>4, JobsTyped, RestKeeps
<1>7. {"row", "github", "devenv_nix"} \subseteq Causes
  BY DEF Causes
<1>8. QED
  BY <1>4, <1>5, <1>6, <1>7, JobsTyped, FindingOwner, FindingInstallation, CreatingCommit
     DEF tableVars

LEMMA FetchKeeps ==
  ASSUME WebhookOK, ProgressInv, NEW d \in Deliveries, FetchDevenvYaml(d)
  PROVE  WebhookOK' /\ ProgressInv' /\ Moves(d)
<1>1. /\ PushSteps \cup {"ok", "error"} \subseteq StepsOf(deliveries[d].event.type)
      /\ deliveries[d].step \in PushSteps /\ ~AboutApp(d)
  BY PushTypes DEF PushStep
<1>2. /\ At(d, "fetch_devenv_yaml") /\ jobs' = jobs /\ github' = github
      /\ mishaps' \in mishaps .. MaxMishaps /\ orderly' = orderly /\ commits' = commits
      /\ UNCHANGED <<owner, installations, repos>>
  BY <1>1, FetchingDevenvYaml DEF tableVars
<1>3. d \in commits /\ jobs[d] = <<>> /\ Progress(d)
  BY <1>2 DEF ProgressInv, Progress, At
<1>4. CASE Fails(d, "yaml")
  <2>1. Progress(d)'
    BY <1>1, <1>2, <1>3, <1>4, FailsProgress
  <2>2. Moves(d) /\ deliveries'[d].step = "error"
    BY <1>4 DEF Fails, Becomes
  <2>3. QED
    BY <1>1, <1>2, <1>3, <2>1, <2>2, JobsTyped, RestKeeps
<1>5. ASSUME NEW cloud \in CloudsSeen(d),
             Becomes(d, "new_job", deliveries[d].todo, FinalCloud(cloud),
                     deliveries[d].cause)
      PROVE  WebhookOK' /\ ProgressInv' /\ Moves(d)
  <2>1. /\ Moves(d) /\ deliveries'[d].step = "new_job" /\ jobs'[d] = <<>> /\ d \in commits'
        /\ deliveries'[d].vms = FinalCloud(cloud)
    BY <1>2, <1>3, <1>5 DEF Becomes
  <2>2. CloudsSeen(d)' = CloudsSeen(d)
    BY <1>2, <2>1 DEF Moves, CloudsSeen
  <2>3. FinalCloud(cloud) \in Seq(Vms)
    <3>1. deliveries'[d] \in Handlers
      BY <2>1, JobsTyped DEF Moves, Deliveries
    <3>2. deliveries'[d].vms \in Seq(Vms)
      BY <3>1 DEF Handlers
    <3>3. QED
      BY <2>1, <3>2
  <2>4. MadeFrom(<<>>, FinalCloud(cloud)) /\ LeftOf(FinalCloud(cloud), FinalCloud(cloud), 0)
    BY <2>3 DEF MadeFrom, LeftOf
  <2>5. Progress(d)'
    <3>1. Len(<<>>) = 0
      OBVIOUS
    <3>2. QED
      BY <2>1, <2>2, <2>4, <3>1 DEF Progress, At
  <2>6. "new_job" \in PushSteps
    BY DEF PushSteps
  <2>7. QED
    BY <1>1, <1>2, <1>3, <2>1, <2>5, <2>6, JobsTyped, RestKeeps
<1>6. QED
  BY <1>1, <1>4, <1>5, FetchingDevenvYaml

LEMMA SeenTyped ==
  ASSUME WebhookOK, NEW d \in Deliveries, ~AboutApp(d), NEW cloud \in CloudsSeen(d)
  PROVE  FinalCloud(cloud) \in Seq(Vms)
<1> DEFINE revs == github.revs
           S == [repo : Repos, cloud : Clouds]
           r == deliveries[d].event.rev
           later == {m \in r .. Len(revs) : revs[m].repo = deliveries[d].event.repo}
<1>1. revs \in Seq(S) /\ r \in DOMAIN revs
  BY DEF WebhookOK, HandlersOK, GithubOK, GitHubs
<1>2. CloudsSeen(d) = {NoCloud} \cup {revs[n].cloud : n \in later}
  BY DEF CloudsSeen
<1>3. \A x \in S : x.cloud \in Clouds
  OBVIOUS
<1> HIDE DEF revs, r, S
<1>4. ASSUME NEW n \in later  PROVE revs[n] \in S
  BY <1>1
<1> HIDE DEF later
<1>5. cloud \in Clouds \cup {NoCloud}
  BY <1>2, <1>3, <1>4
<1>6. QED
  BY <1>5, FinalCloudTyped

LEMMA NewJobKeeps ==
  ASSUME WebhookOK, ProgressInv, NEW d \in Deliveries, NewJob(d)
  PROVE  WebhookOK' /\ ProgressInv' /\ Moves(d)
<1> DEFINE rows == jobs[d]
           vms == deliveries[d].vms
<1>1. /\ PushSteps \cup {"ok", "error"} \subseteq StepsOf(deliveries[d].event.type)
      /\ ~AboutApp(d) /\ {"check_run", "insert_job", "new_job"} \subseteq PushSteps
  BY PushTypes DEF PushStep, PushSteps
<1>2. /\ At(d, "new_job") /\ orderly' = orderly /\ commits' = commits
      /\ github' = github /\ mishaps' = mishaps
      /\ UNCHANGED <<owner, installations, repos>>
  BY DEF NewJob, outside
<1>3. /\ d \in commits /\ \A k \in 1 .. Len(rows) : Complete(rows[k])
      /\ rows \in Seq(JobRows) /\ vms \in Seq(Vms)
  BY <1>2, JobsTyped DEF ProgressInv, Progress, At
<1>4. PICK cloud \in CloudsSeen(d) :
        MadeFrom(rows, FinalCloud(cloud)) /\ LeftOf(vms, FinalCloud(cloud), Len(rows))
  BY <1>2 DEF ProgressInv, Progress
<1> DEFINE list == FinalCloud(cloud)
<1>5. list \in Seq(Vms)
  BY <1>1, SeenTyped
<1>6. Moves(d) => CloudsSeen(d)' = CloudsSeen(d)
  BY <1>2 DEF Moves, CloudsSeen
<1>7. CASE vms = <<>> /\ Keeps(d, "ok") /\ jobs' = jobs
  <2>1. Moves(d) /\ deliveries'[d].step = "ok" /\ jobs'[d] = rows
    BY <1>7 DEF Keeps, Becomes
  <2> HIDE DEF rows, vms, list
  <2>2. Len(rows) = Len(list)
    BY <1>3, <1>4, <1>5, <1>7 DEF LeftOf, list
  <2>3. /\ \E c \in CloudsSeen(d) :
              MadeFrom(rows, FinalCloud(c)) /\ Len(rows) = Len(FinalCloud(c))
        /\ \A k \in 1 .. Len(rows) - 1 : Complete(rows[k])
    BY <1>3, <1>4, <2>2 DEF list
  <2>4. Progress(d)'
    BY <2>1, <2>3, <1>2, <1>3, <1>6 DEF Progress, At, Complete, MadeFrom
  <2>5. QED
    BY <1>1, <1>2, <1>3, <1>7, <2>1, <2>4, JobsTyped, RestKeeps
<1>8. CASE vms # <<>> /\ Keeps(d, "check_run") /\ Adds(d)
  <2> DEFINE more == jobs'[d]
  <2>1. /\ Moves(d) /\ deliveries'[d].step = "check_run" /\ deliveries'[d].vms = vms
        /\ Len(more) = Len(rows) + 1 /\ \A k \in 1 .. Len(rows) : more[k] = rows[k]
        /\ more[Len(rows) + 1].vm = vms[1]
        /\ jobs' \in [1 .. MaxDeliveries -> Seq(JobRows)]
        /\ \A e \in 1 .. MaxDeliveries : e # d => jobs'[e] = jobs[e]
    BY <1>8 DEF Keeps, Becomes, Adds
  <2> HIDE DEF rows, vms, list, more
  <2>2. MadeFrom(more, list) /\ LeftOf(vms, list, Len(more) - 1)
    <3>1. /\ Len(rows) \in Nat /\ Len(vms) \in Nat /\ Len(vms) >= 1 /\ Len(list) \in Nat
          /\ Len(vms) = Len(list) - Len(rows)
          /\ \A k \in 1 .. Len(vms) : vms[k] = list[Len(rows) + k]
          /\ \A k \in 1 .. Len(rows) : rows[k].vm = list[k]
      BY <1>3, <1>4, <1>5, <1>8 DEF MadeFrom, LeftOf, list
    <3>2. more[Len(rows) + 1].vm = list[Len(rows) + 1]
      BY <2>1, <3>1
    <3>3. QED
      BY <2>1, <3>1, <3>2 DEF MadeFrom, LeftOf
  <2>3. /\ more # <<>> /\ \A k \in 1 .. Len(more) - 1 : Complete(more[k])
    BY <2>1, <1>3
  <2>4. Progress(d)'
    BY <2>1, <2>2, <2>3, <1>2, <1>3, <1>6, <1>8 DEF Progress, At, Complete,
       MadeFrom, LeftOf,
       more, list
  <2>5. QED
    BY <1>1, <1>2, <1>3, <2>1, <2>4, JobsTyped, RestKeeps
<1>9. QED
  BY <1>7, <1>8, JobsTyped, CreatingJob

LEMMA CheckRunKeeps ==
  ASSUME WebhookOK, ProgressInv, NEW d \in Deliveries, CreateCheckRun(d)
  PROVE  WebhookOK' /\ ProgressInv' /\ Moves(d)
<1> DEFINE rows == jobs[d]
           vms == deliveries[d].vms
<1>1. /\ PushSteps \cup {"ok", "error"} \subseteq StepsOf(deliveries[d].event.type)
      /\ deliveries[d].step \in PushSteps
      /\ ~AboutApp(d) /\ {"check_run", "insert_job", "new_job"} \subseteq PushSteps
  BY PushTypes DEF PushStep, PushSteps
<1>2. /\ At(d, "check_run") /\ orderly' = orderly /\ commits' = commits
      /\ github' = github /\ mishaps' = mishaps
      /\ UNCHANGED <<owner, installations, repos>>
  BY DEF CreateCheckRun, outside
<1>3. /\ d \in commits /\ \A k \in 1 .. Len(rows) - 1 : Complete(rows[k])
      /\ rows \in Seq(JobRows) /\ vms # <<>> /\ rows # <<>>
  BY <1>2, JobsTyped DEF ProgressInv, Progress, At
<1>4. PICK cloud \in CloudsSeen(d) :
        MadeFrom(rows, FinalCloud(cloud)) /\ LeftOf(vms, FinalCloud(cloud), Len(rows) - 1)
  BY <1>2 DEF ProgressInv, Progress
<1>5. Moves(d) => CloudsSeen(d)' = CloudsSeen(d)
  BY <1>2 DEF Moves, CloudsSeen
<1>6. CASE \E c \in Causes : Fails(d, c) /\ jobs' = jobs
  <2>1. Progress(d)'
    BY <1>1, <1>2, <1>6, FailsProgress DEF ProgressInv
  <2>2. Moves(d) /\ deliveries'[d].step = "error"
    BY <1>6 DEF Fails, Becomes
  <2>3. QED
    BY <1>1, <1>2, <1>3, <1>6, <2>1, <2>2, JobsTyped, RestKeeps
<1>7. CASE Keeps(d, "insert_job") /\ Marks(d) /\ jobs'[d][Len(rows)].check
  <2> DEFINE more == jobs'[d]
             list == FinalCloud(cloud)
  <2>1. /\ Moves(d) /\ deliveries'[d].step = "insert_job" /\ deliveries'[d].vms = vms
        /\ Len(more) = Len(rows) /\ \A k \in 1 .. Len(rows) - 1 : more[k] = rows[k]
        /\ more[Len(rows)].vm = rows[Len(rows)].vm /\ more[Len(rows)].check
        /\ jobs' \in [1 .. MaxDeliveries -> Seq(JobRows)]
        /\ \A e \in 1 .. MaxDeliveries : e # d => jobs'[e] = jobs[e]
    BY <1>7 DEF Keeps, Becomes, Marks
  <2> HIDE DEF rows, vms, list, more
  <2>2. Len(rows) \in Nat /\ Len(rows) >= 1
    BY <1>3
  <2>3. MadeFrom(more, list) /\ LeftOf(vms, list, Len(more) - 1)
    <3>1. \A k \in 1 .. Len(rows) : more[k].vm = rows[k].vm
      BY <2>1, <2>2
    <3>2. QED
      BY <1>4, <2>1, <3>1 DEF MadeFrom, LeftOf, list
  <2>4. more # <<>> /\ \A k \in 1 .. Len(more) - 1 : Complete(more[k])
    BY <2>1, <2>2, <1>3
  <2>5. Progress(d)'
    BY <2>1, <2>3, <2>4, <1>2, <1>3, <1>5 DEF Progress, At, Complete, MadeFrom, LeftOf,
       more, list
  <2>6. QED
    BY <1>1, <1>2, <1>3, <2>1, <2>5, JobsTyped, RestKeeps
<1>8. {"row", "github"} \subseteq Causes
  BY DEF Causes
<1>9. QED
  BY <1>3, <1>6, <1>7, <1>8, JobsTyped, CreatingCheckRun

LEMMA InsertKeeps ==
  ASSUME WebhookOK, ProgressInv, NEW d \in Deliveries, InsertJob(d)
  PROVE  WebhookOK' /\ ProgressInv' /\ Moves(d)
<1> DEFINE rows == jobs[d]
           vms == deliveries[d].vms
           more == jobs'[d]
<1>1. /\ PushSteps \cup {"ok", "error"} \subseteq StepsOf(deliveries[d].event.type)
      /\ ~AboutApp(d) /\ {"check_run", "insert_job", "new_job"} \subseteq PushSteps
  BY PushTypes DEF PushStep, PushSteps
<1>2. /\ At(d, "insert_job") /\ orderly' = orderly /\ commits' = commits
      /\ github' = github /\ mishaps' = mishaps
      /\ UNCHANGED <<owner, installations, repos>>
  BY DEF InsertJob, outside
<1>3. /\ d \in commits /\ \A k \in 1 .. Len(rows) - 1 : Complete(rows[k])
      /\ rows \in Seq(JobRows) /\ vms \in Seq(Vms) /\ vms # <<>> /\ rows # <<>>
      /\ rows[Len(rows)].check
  BY <1>2, JobsTyped DEF ProgressInv, Progress, At
<1>4. PICK cloud \in CloudsSeen(d) :
        MadeFrom(rows, FinalCloud(cloud)) /\ LeftOf(vms, FinalCloud(cloud), Len(rows) - 1)
  BY <1>2 DEF ProgressInv, Progress
<1> DEFINE list == FinalCloud(cloud)
<1>5. list \in Seq(Vms)
  BY <1>1, SeenTyped
<1>6. /\ Becomes(d, "new_job", deliveries[d].todo, Tail(vms), deliveries[d].cause)
      /\ Marks(d) /\ more[Len(rows)].row
      /\ more[Len(rows)].check = rows[Len(rows)].check
  BY <1>3, JobsTyped, InsertingJob
<1>7. /\ Moves(d) /\ deliveries'[d].step = "new_job" /\ deliveries'[d].vms = Tail(vms)
      /\ Len(more) = Len(rows) /\ \A k \in 1 .. Len(rows) - 1 : more[k] = rows[k]
      /\ more[Len(rows)].vm = rows[Len(rows)].vm
      /\ jobs' \in [1 .. MaxDeliveries -> Seq(JobRows)]
      /\ \A e \in 1 .. MaxDeliveries : e # d => jobs'[e] = jobs[e]
  BY <1>6 DEF Becomes, Marks
<1>8. CloudsSeen(d)' = CloudsSeen(d)
  BY <1>2, <1>7 DEF Moves, CloudsSeen
<1> HIDE DEF rows, vms, list, more
<1>9. Len(rows) \in Nat /\ Len(rows) >= 1
  BY <1>3
<1>10. \A k \in 1 .. Len(rows) : Complete(more[k]) /\ more[k].vm = rows[k].vm
  <2>1. Complete(more[Len(rows)])
    BY <1>3, <1>6 DEF Complete
  <2>2. QED
    BY <2>1, <1>3, <1>7, <1>9
<1>11. MadeFrom(more, list)
  BY <1>4, <1>7, <1>10 DEF MadeFrom, list
<1>12. LeftOf(Tail(vms), list, Len(more))
  <2>1. /\ Len(vms) \in Nat /\ Len(list) \in Nat /\ Len(vms) >= 1
        /\ Len(Tail(vms)) = Len(vms) - 1
        /\ \A k \in 1 .. Len(vms) - 1 : Tail(vms)[k] = vms[k + 1]
    BY <1>3, <1>5
  <2>2. /\ Len(vms) = Len(list) - (Len(rows) - 1)
        /\ \A k \in 1 .. Len(vms) : vms[k] = list[(Len(rows) - 1) + k]
    BY <1>4 DEF LeftOf, list
  <2>3. ASSUME NEW k \in 1 .. Len(vms) - 1
        PROVE  Tail(vms)[k] = list[Len(rows) + k]
    <3>1. k + 1 \in 1 .. Len(vms) /\ (Len(rows) - 1) + (k + 1) = Len(rows) + k
      BY <2>1, <1>9
    <3>2. QED
      BY <2>1, <2>2, <3>1
  <2>4. QED
    BY <2>1, <2>2, <2>3, <1>7, <1>9 DEF LeftOf
<1>13. Progress(d)'
  <2>1. /\ \A k \in 1 .. Len(more) : Complete(more[k])
        /\ \A k \in 1 .. Len(more) - 1 : Complete(more[k])
    BY <1>7, <1>9, <1>10
  <2>2. \E c \in CloudsSeen(d) :
          /\ MadeFrom(more, FinalCloud(c))
          /\ LeftOf(deliveries'[d].vms, FinalCloud(c), Len(more))
    BY <1>7, <1>11, <1>12 DEF list
  <2>3. deliveries'[d].step = "new_job" /\ d \in commits' /\ more = jobs'[d]
    BY <1>2, <1>3, <1>7 DEF more
  <2>4. QED
    BY <2>1, <2>2, <2>3, <1>8 DEF Progress, At, Complete, MadeFrom, LeftOf
<1>14. QED
  BY <1>1, <1>2, <1>3, <1>7, <1>13, JobsTyped, RestKeeps

-----------------------------------------------------------------------------
(* Types and jobs *)

LEMMA WebhookInit == Init => WebhookOK /\ ProgressInv
<1> SUFFICES ASSUME Init PROVE WebhookOK /\ ProgressInv
  OBVIOUS
<1> USE Constants DEF Init
<1>1. deliveries = <<>> /\ Deliveries = {} /\ Len(deliveries) = 0
  BY DEF Deliveries
<1>2. GithubOK
  <2>1. github \in GitHubs
    <3>1. <<>> \in Seq([repo : Repos, cloud : Clouds])
      OBVIOUS
    <3>2. QED
      BY <3>1 DEF GitHubs
  <2>2. github.revs = <<>> /\ github.events = 0
    OBVIOUS
  <2>3. Len(github.revs) = 0 /\ DOMAIN github.revs = {}
    BY <2>2
  <2>4. QED
    BY <2>1, <2>2, <2>3 DEF GithubOK
<1>3. HandlersOK
  <2>1. github.events = 0 /\ mishaps = 0
    OBVIOUS
  <2>2. QED
    BY <1>1, <2>1 DEF HandlersOK
<1>4. TablesOK
  <2>1. jobs \in [1 .. MaxDeliveries -> Seq(JobRows)]
    OBVIOUS
  <2>2. /\ installations \in [Installations -> RowStates] /\ repos \in [Repos -> RowStates]
        /\ \A i \in Installations : installations[i] = "absent"
        /\ \A r \in Repos : repos[r] = "absent"
    BY DEF RowStates
  <2>3. \A d \in 1 .. MaxDeliveries : jobs[d] = <<>>
    OBVIOUS
  <2>4. owner = FALSE /\ orderly = TRUE /\ mishaps = 0 /\ commits = {}
    OBVIOUS
  <2>5. mishaps \in 0 .. MaxMishaps
    BY <2>4
  <2>6. \A d \in Deliveries : At(d, "upsert_installation") \/ At(d, "upsert_repos") => owner
    BY <1>1
  <2>7. /\ commits \subseteq Deliveries
        /\ \A d \in commits : ~AboutApp(d) /\ repos[deliveries[d].event.repo] # "absent"
    BY <2>4
  <2>8. QED
    BY <2>1, <2>2, <2>3, <2>4, <2>5, <2>6, <2>7, Zenon DEF TablesOK
<1>5. QED
  BY <1>1, <1>2, <1>3, <1>4 DEF WebhookOK, ProgressInv

LEMMA WebhookStep == WebhookOK /\ ProgressInv /\ [Next]_vars => WebhookOK' /\ ProgressInv'
<1> SUFFICES ASSUME WebhookOK, ProgressInv, [Next]_vars
             PROVE  WebhookOK' /\ ProgressInv'
  OBVIOUS
<1>1. CASE \/ Install \/ Uninstall \/ Suspend
           \/ \E r \in Repos : SelectRepo(r) \/ Push(r) \/ PushToFork(r)
  BY <1>1, GithubStep
<1>2. ASSUME NEW d \in Deliveries, Redeliver(d)
      PROVE  WebhookOK' /\ ProgressInv'
  BY <1>2, RedeliverStep
<1>3. ASSUME NEW d \in Deliveries, Interrupt(d)
      PROVE  WebhookOK' /\ ProgressInv'
  BY <1>3, InterruptKeeps
<1>4. ASSUME NEW d \in Deliveries, Begin(d)
      PROVE  WebhookOK' /\ ProgressInv'
  BY <1>4, BeginKeeps
<1>5. ASSUME NEW d \in Deliveries, AppStep(d)
      PROVE  WebhookOK' /\ ProgressInv'
  BY <1>5, AppStepKeeps
<1>6. ASSUME NEW d \in Deliveries, PushStep(d)
      PROVE  WebhookOK' /\ ProgressInv'
  BY <1>6, LookupKeeps, FetchKeeps, NewJobKeeps, CheckRunKeeps, InsertKeeps DEF PushStep
<1>7. CASE UNCHANGED vars
  <2>1. WebhookOK' = WebhookOK
    BY <1>7 DEF vars, tableVars, WebhookOK, GithubOK, HandlersOK, TablesOK, IsHead,
       Deliveries, AboutApp, At
  <2>2. ASSUME NEW d \in Deliveries  PROVE Progress(d)'
    <3>1. /\ deliveries' = deliveries /\ jobs' = jobs /\ commits' = commits
          /\ github' = github
      BY <1>7 DEF vars, tableVars
    <3>2. CloudsSeen(d)' = CloudsSeen(d)
      BY <3>1 DEF CloudsSeen
    <3>3. QED
      BY <3>1, <3>2, ProgressKept DEF ProgressInv
  <2>3. Deliveries' = Deliveries
    BY <1>7 DEF vars, Deliveries
  <2>4. QED
    BY <2>1, <2>2, <2>3 DEF ProgressInv
<1>8. QED
  BY <1>1, <1>2, <1>3, <1>4, <1>5, <1>6, <1>7 DEF Next, Handle, AppStep, PushStep

(* The tables, the deliveries and how far each handler has come agree, at  *)
(* every statement of webhook and create_job.                              *)
THEOREM WebhookInvariant == Spec => [](WebhookOK /\ ProgressInv)
<1>1. QED
  BY WebhookInit, WebhookStep, PTL DEF Spec

(* The tables have their types and their foreign keys: no installation or  *)
(* repository without its owner, no commit without its repository, and no  *)
(* job without its commit, whichever handlers have failed on the way.      *)
THEOREM Typing == Spec => []TypeOK
<1>1. WebhookOK => TypeOK
  <2> SUFFICES ASSUME WebhookOK PROVE TypeOK
    OBVIOUS
  <2>1. /\ github.installation \in Installations \cup {None}
        /\ github.suspended \in BOOLEAN /\ github.selected \subseteq Repos
    BY DEF WebhookOK, GithubOK, GitHubs
  <2>2. ASSUME NEW d \in commits
        PROVE  /\ d \in Deliveries /\ deliveries[d].event.rev \in Revs
               /\ repos[deliveries[d].event.repo] # "absent"
    <3>1. /\ d \in Deliveries /\ ~AboutApp(d)
          /\ repos[deliveries[d].event.repo] # "absent"
      BY DEF WebhookOK, TablesOK
    <3>2. deliveries[d].event.rev \in DOMAIN github.revs
      BY <3>1 DEF WebhookOK, HandlersOK
    <3>3. DOMAIN github.revs \subseteq 1 .. MaxRevs
      <4>1. github.revs \in Seq([repo : Repos, cloud : Clouds]) /\ Len(github.revs) <= MaxRevs
        BY DEF WebhookOK, GithubOK, GitHubs
      <4>2. QED
        BY <4>1, Constants
    <3>4. QED
      BY <3>1, <3>2, <3>3 DEF Revs
  <2>3. \A d \in Deliveries : deliveries[d].step \in Steps
    BY EventAt DEF Handlers
  <2>4. QED
    BY <2>1, <2>2, <2>3 DEF WebhookOK, TablesOK, TypeOK
<1>2. QED
  BY <1>1, WebhookInvariant, PTL

(* The loop over create_job, cut off by failures, interruptions and access *)
(* taken away at any statement, leaves the jobs of the first VMs of one    *)
(* configuration, of which only the last can be unfinished; an answer of   *)
(* ok means that every VM has its job, its check run and its row.          *)
THEOREM JobsOfOneConfiguration == Spec => []CommitGetsItsJobs
<1>1. WebhookOK /\ ProgressInv => CommitGetsItsJobs
  <2> SUFFICES ASSUME WebhookOK, ProgressInv, NEW d \in commits
               PROVE  /\ \A k \in 1 .. Len(jobs[d]) - 1 : Complete(jobs[d][k])
                      /\ At(d, "error") /\ jobs[d] # <<>> =>
                           \E cloud \in CloudsSeen(d) :
                             IsPrefix(VmsMade(d), FinalCloud(cloud))
                      /\ At(d, "ok") =>
                           /\ \E cloud \in CloudsSeen(d) : VmsMade(d) = FinalCloud(cloud)
                           /\ \A k \in DOMAIN jobs[d] : Complete(jobs[d][k])
    BY DEF CommitGetsItsJobs
  <2> DEFINE rows == jobs[d]
             made == VmsMade(d)
  <2>1. d \in Deliveries /\ Progress(d) /\ ~AboutApp(d)
    BY DEF WebhookOK, TablesOK, ProgressInv
  <2>2. rows \in Seq(JobRows)
    BY <2>1, JobsTyped
  <2>3. made = [k \in DOMAIN rows |-> rows[k].vm]
    BY DEF VmsMade
  <2>4. ASSUME NEW cloud \in CloudsSeen(d), MadeFrom(rows, FinalCloud(cloud))
        PROVE  /\ IsPrefix(made, FinalCloud(cloud))
               /\ Len(rows) = Len(FinalCloud(cloud)) => made = FinalCloud(cloud)
    <3> DEFINE list == FinalCloud(cloud)
    <3>1. list \in Seq(Vms)
      BY <2>1, SeenTyped
    <3>2. Len(rows) <= Len(list) /\ \A k \in 1 .. Len(rows) : rows[k].vm = list[k]
      BY <2>4 DEF MadeFrom
    <3> HIDE DEF rows, made, list
    <3>3. made \in Seq(Vms) /\ Len(made) = Len(rows)
          /\ \A k \in 1 .. Len(rows) : made[k] = list[k]
      <4>1. DOMAIN rows = 1 .. Len(rows) /\ Len(rows) \in Nat
        BY <2>2
      <4>2. \A k \in 1 .. Len(rows) : made[k] = list[k] /\ list[k] \in Vms
        BY <2>3, <3>1, <3>2, <4>1
      <4>3. made = [k \in 1 .. Len(rows) |-> made[k]]
        BY <2>3, <4>1
      <4>4. QED
        BY <4>1, <4>2, <4>3
    <3>4. IsPrefix(made, list)
      BY <3>1, <3>2, <3>3 DEF IsPrefix
    <3>5. Len(rows) = Len(list) => made = list
      BY <3>1, <3>3
    <3>6. QED
      BY <3>4, <3>5 DEF list
  <2>5. DOMAIN rows = 1 .. Len(rows)
    BY <2>2
  <2>6. \A k \in 1 .. Len(rows) - 1 : Complete(rows[k])
    BY <2>1 DEF Progress
  <2>7. At(d, "error") /\ rows # <<>> =>
          \E cloud \in CloudsSeen(d) : MadeFrom(rows, FinalCloud(cloud))
    BY <2>1 DEF Progress
  <2>8. At(d, "ok") =>
          /\ \E cloud \in CloudsSeen(d) :
               MadeFrom(rows, FinalCloud(cloud)) /\ Len(rows) = Len(FinalCloud(cloud))
          /\ \A k \in 1 .. Len(rows) : Complete(rows[k])
    BY <2>1 DEF Progress
  <2> HIDE DEF rows, made
  <2>9. QED
    BY <2>4, <2>5, <2>6, <2>7, <2>8 DEF rows, made
<1>2. QED
  BY <1>1, WebhookInvariant, PTL

-----------------------------------------------------------------------------
(* The tables follow GitHub                                                *)

(* What the app may do on GitHub: what the events about the app change.    *)
AppStates ==
  [installation : Installations \cup {None}, suspended : BOOLEAN, selected : SUBSET Repos]

Current ==
  [installation |-> github.installation, suspended |-> github.suspended,
   selected |-> github.selected]

(* The event takes GitHub from a to b.                                     *)
After(a, event, b) ==
  \/ /\ event.type = "created" /\ a.installation = None
     /\ b.installation = event.installation /\ ~b.suspended /\ b.selected = event.repos
  \/ /\ event.type = "deleted" /\ a.installation = event.installation
     /\ b.installation = None
  \/ /\ event.type \in {"suspend", "unsuspend"} /\ a.installation = event.installation
     /\ b.installation = a.installation /\ b.selected = a.selected
     /\ b.suspended = (event.type = "suspend")
  \/ /\ event.type = "repositories"
     /\ b.installation = a.installation /\ b.suspended = a.suspended
     /\ b.selected = (a.selected \ event.removed) \cup event.added
     /\ event.added \cap event.removed = {}
  \/ event.type \notin AppEvents /\ b = a

(* h is what GitHub was after each delivery, delivery 0 being none.        *)
History(h) ==
  /\ h \in [0 .. Len(deliveries) -> AppStates]
  /\ h[0].installation = None /\ h[Len(deliveries)] = Current
  /\ \A d \in 0 .. Len(deliveries) : h[d].installation = None => h[d].selected = {}
  /\ \A d \in Deliveries : After(h[d - 1], deliveries[d].event, h[d])

(* Between two events about the app nothing changes.                       *)
Quiet(h) ==
  \A d, e \in 0 .. Len(deliveries) :
    d <= e /\ (\A n \in d + 1 .. e : ~AboutApp(n)) => h[d] = h[e]

Grants(a, repo) == a.installation # None /\ ~a.suspended /\ repo \in a.selected

(* Since a push the app has had the repository, unless its access was      *)
(* taken away.                                                             *)
Access(h) ==
  \A d \in Deliveries :
    ~AboutApp(d) /\ deliveries[d].changes = github.changes =>
      \A e \in d .. Len(deliveries) :
        /\ h[e].installation = github.installation
        /\ Grants(h[e], deliveries[d].event.repo)

(* k is the last delivery about the app whose handler has begun.           *)
Frontier(k) ==
  /\ k # 0 => k \in Deliveries /\ AboutApp(k) /\ ~At(k, "sent")
  /\ \A d \in Deliveries : d > k /\ AboutApp(d) => At(d, "sent")

InOrder ==
  \A d, e \in Deliveries :
    e < d /\ AboutApp(e) /\ ~At(d, "sent") => At(e, "ok")

EnabledRepos == {r \in Repos : repos[r] = "enabled"}
PresentRepos == {r \in Repos : repos[r] # "absent"}

(* The installations enabled are those that the state a of GitHub has.     *)
Shows(a) ==
  /\ \A i \in Installations :
       installations[i] = "enabled" <=> i = a.installation /\ ~a.suspended
  /\ a.installation # None => installations[a.installation] # "absent" /\ owner

Settled(a) == Shows(a) /\ a.selected \subseteq EnabledRepos

(* How far the tables have come from the state before an event to the      *)
(* state after it, while its handler is at the step, with todo to do.      *)
Halfway(step, event, todo, a, b) ==
  /\ a.selected \subseteq PresentRepos
  /\ step \in {"upsert_owner", "upsert_installation"} => Shows(a) /\ todo = event.repos
  /\ step = "upsert_installation" => owner
  /\ step = "upsert_repos" => Shows(b) /\ b.selected \ todo \subseteq EnabledRepos
  /\ step = "disable" => Settled(a)
  /\ step = "add_repos" =>
       Shows(a) /\ a.selected \cup (event.added \ todo) \subseteq EnabledRepos
  /\ step = "remove_repos" =>
       Shows(a) /\ b.selected \subseteq EnabledRepos /\ todo \subseteq event.removed
  /\ step = "ok" => Settled(b)
  /\ step = "error" => Shows(a) \/ Shows(b)

AtWork(d, a, b) ==
  Halfway(deliveries[d].step, deliveries[d].event, deliveries[d].todo, a, b)

Tables(k, h) == IF k = 0 THEN Settled(h[0]) ELSE AtWork(k, h[k - 1], h[k])

Mirrored(h, k) ==
  History(h) /\ Quiet(h) /\ Access(h) /\ Frontier(k) /\ Tables(k, h)

(* While the deliveries about the app are handled in order, GitHub has a   *)
(* history that they tell, and the tables are as far as the last one       *)
(* begun.                                                                  *)
MirrorInv ==
  orderly =>
    /\ InOrder
    /\ \E h \in [0 .. Len(deliveries) -> AppStates], k \in 0 .. Len(deliveries) :
         Mirrored(h, k)

LEMMA MirrorInit == Init => MirrorInv
<1> SUFFICES ASSUME Init PROVE MirrorInv
  OBVIOUS
<1> DEFINE h == [d \in 0 .. 0 |-> Current]
<1>1. /\ github.installation = None /\ github.suspended = FALSE /\ github.selected = {}
      /\ Len(deliveries) = 0 /\ Deliveries = {}
      /\ \A i \in Installations : installations[i] = "absent"
  BY DEF Init, Deliveries
<1>2. Current \in AppStates /\ Current.installation = None /\ Current.selected = {}
  BY <1>1 DEF Current, AppStates
<1>3. h \in [0 .. Len(deliveries) -> AppStates] /\ h[0] = Current
  BY <1>1, <1>2
<1> HIDE DEF h
<1>4. Shows(h[0])
  BY <1>1, <1>2, <1>3, Constants DEF Shows
<1>5. Mirrored(h, 0)
  BY <1>1, <1>2, <1>3, <1>4
     DEF Mirrored, History, Quiet, Access, Frontier, Tables, Settled
<1>6. InOrder
  BY <1>1 DEF InOrder
<1>7. QED
  BY <1>1, <1>3, <1>5, <1>6 DEF MirrorInv

(* A step of a handler is not seen at GitHub.                              *)
LEMMA HistoryKept ==
  ASSUME WebhookOK, NEW d \in Deliveries, Moves(d), github' = github, NEW h
  PROVE  /\ Deliveries' = Deliveries /\ Len(deliveries') = Len(deliveries)
         /\ \A e \in Deliveries : AboutApp(e)' <=> AboutApp(e)
         /\ History(h) => History(h)'
         /\ Quiet(h) => Quiet(h)'
         /\ Access(h) => Access(h)'
<1>1. /\ Deliveries' = Deliveries /\ Len(deliveries') = Len(deliveries)
      /\ \A e \in Deliveries :
           /\ deliveries'[e].event = deliveries[e].event
           /\ deliveries'[e].changes = deliveries[e].changes
  BY DEF Moves, Deliveries, WebhookOK, HandlersOK
<1>2. \A e \in Deliveries : AboutApp(e)' <=> AboutApp(e)
  BY <1>1 DEF AboutApp
<1>3. Len(deliveries) \in Nat /\ Deliveries = 1 .. Len(deliveries)
  BY DEF WebhookOK, HandlersOK, Deliveries
<1>4. Current' = Current
  BY DEF Current
<1>5. History(h) => History(h)'
  BY <1>1, <1>4 DEF History
<1>6. ASSUME Quiet(h)  PROVE Quiet(h)'
  <2> SUFFICES ASSUME NEW m \in 0 .. Len(deliveries), NEW e \in 0 .. Len(deliveries),
                      m <= e, \A n \in m + 1 .. e : ~AboutApp(n)'
               PROVE  h[m] = h[e]
    BY <1>1 DEF Quiet
  <2>1. \A n \in m + 1 .. e : n \in Deliveries
    BY <1>3
  <2>2. \A n \in m + 1 .. e : ~AboutApp(n)
    BY <1>2, <2>1
  <2>3. QED
    BY <1>6, <2>2 DEF Quiet
<1>7. Access(h) => Access(h)'
  BY <1>1, <1>2 DEF Access
<1>8. QED
  BY <1>1, <1>2, <1>5, <1>6, <1>7

(* GitHub changes, and sends deliveries that tell of it; or one about a    *)
(* revision is repeated.                                                   *)
LEMMA HistoryGrows ==
  ASSUME WebhookOK, MirrorInv, orderly, orderly', github' \in GitHubs,
         deliveries' \in Seq(Handlers), Len(deliveries') >= Len(deliveries),
         \A d \in Deliveries : deliveries'[d] = deliveries[d],
         \A d \in Len(deliveries) + 1 .. Len(deliveries') :
           /\ deliveries'[d].step = "sent"
           /\ d = Len(deliveries) + 1 => After(Current, deliveries'[d].event, Current')
           /\ d > Len(deliveries) + 1 => After(Current', deliveries'[d].event, Current')
           /\ ~AboutApp(d)' /\ deliveries'[d].changes = github'.changes =>
                Grants(Current', deliveries'[d].event.repo),
         Len(deliveries') = Len(deliveries) => Current' = Current,
         Current'.installation = None => Current'.selected = {},
         \/ github'.changes > github.changes
         \/ /\ github'.changes = github.changes
            /\ \A r \in Repos : Grants(Current, r) =>
                 Grants(Current', r) /\ github'.installation = github.installation,
         UNCHANGED tableVars
  PROVE  MirrorInv'
<1> DEFINE N == Len(deliveries)
           M == Len(deliveries')
<1>1. PICK h \in [0 .. N -> AppStates], k \in 0 .. N : Mirrored(h, k)
  BY DEF MirrorInv
<1>2. /\ N \in Nat /\ M \in Nat /\ N <= M
      /\ Deliveries = 1 .. N /\ Deliveries' = 1 .. M
      /\ \A d \in 1 .. N : deliveries'[d] = deliveries[d]
      /\ \A d \in 1 .. N : AboutApp(d)' <=> AboutApp(d)
  BY DEF WebhookOK, HandlersOK, Deliveries, AboutApp
<1>3. /\ Current \in AppStates /\ Current' \in AppStates
      /\ Current'.installation = github'.installation
      /\ Current.installation = github.installation
  BY DEF Current, AppStates, GitHubs, WebhookOK, GithubOK
<1>4. /\ h[0].installation = None /\ h[N] = Current
      /\ \A d \in 0 .. N : h[d].installation = None => h[d].selected = {}
      /\ \A d \in 1 .. N : After(h[d - 1], deliveries[d].event, h[d])
  BY <1>1, <1>2 DEF Mirrored, History
<1>5. PICK more \in [0 .. M -> AppStates] :
        /\ \A d \in 0 .. N : more[d] = h[d]
        /\ \A d \in N + 1 .. M : more[d] = Current'
        /\ more[M] = Current'
  <2> DEFINE g == [d \in 0 .. M |-> IF d <= N THEN h[d] ELSE Current']
  <2>1. g \in [0 .. M -> AppStates]
    BY <1>1, <1>2, <1>3
  <2>2. \A d \in 0 .. N : g[d] = h[d]
    BY <1>2
  <2>3. \A d \in N + 1 .. M : g[d] = Current'
    BY <1>2
  <2>4. g[M] = Current'
    BY <1>2, <1>4
  <2>5. QED
    BY <2>1, <2>2, <2>3, <2>4
<1>6. History(more)'
  <2>1. more[0].installation = None
    BY <1>2, <1>4, <1>5
  <2>2. \A d \in 0 .. M : more[d].installation = None => more[d].selected = {}
    BY <1>2, <1>4, <1>5
  <2>3. ASSUME NEW d \in 1 .. M
        PROVE  After(more[d - 1], deliveries'[d].event, more[d])
    <3>1. CASE d <= N
      <4>1. /\ more[d - 1] = h[d - 1] /\ more[d] = h[d] /\ deliveries'[d] = deliveries[d]
            /\ After(h[d - 1], deliveries[d].event, h[d])
        BY <3>1, <1>2, <1>4, <1>5
      <4>2. QED
        BY <4>1
    <3>2. CASE d = N + 1
      <4>1. more[d - 1] = Current /\ more[d] = Current'
        BY <3>2, <1>2, <1>4, <1>5
      <4>2. QED
        BY <3>2, <4>1, <1>2
    <3>3. CASE d > N + 1
      <4>1. more[d - 1] = Current' /\ more[d] = Current'
        <5>1. d - 1 \in N + 1 .. M /\ d \in N + 1 .. M
          BY <3>3, <1>2
        <5>2. QED
          BY <5>1, <1>5
      <4>2. QED
        BY <3>3, <4>1, <1>2
    <3>4. QED
      BY <3>1, <3>2, <3>3, <1>2
  <2>4. QED
    BY <2>1, <2>2, <2>3, <1>2, <1>5 DEF History
<1>7. Quiet(more)'
  <2> SUFFICES ASSUME NEW d \in 0 .. M, NEW e \in 0 .. M, d <= e,
                      \A n \in d + 1 .. e : ~AboutApp(n)'
               PROVE  more[d] = more[e]
    BY DEF Quiet
  <2>1. CASE e <= N
    <3>1. \A n \in d + 1 .. e : ~AboutApp(n)
      BY <2>1, <1>2
    <3>2. h[d] = h[e]
      BY <3>1, <2>1, <1>1, <1>2 DEF Mirrored, Quiet
    <3>3. QED
      BY <3>2, <2>1, <1>2, <1>5
  <2>2. CASE d > N
    BY <2>2, <1>2, <1>5
  <2>3. CASE d <= N /\ e > N
    <3>1. \A n \in d + 1 .. N : ~AboutApp(n)
      BY <2>3, <1>2
    <3>2. h[d] = Current
      <4>1. d \in 0 .. N /\ N \in 0 .. N /\ d <= N
        BY <2>3, <1>2
      <4>2. h[d] = h[N]
        BY <4>1, <3>1, <1>1 DEF Mirrored, Quiet
      <4>3. QED
        BY <4>2, <1>4
    <3>3. N + 1 \in N + 1 .. M /\ N + 1 \in d + 1 .. e
      BY <2>3, <1>2
    <3>4. Current' = Current
      <4>1. After(Current, deliveries'[N + 1].event, Current')
        BY <3>3, <1>2
      <4>2. deliveries'[N + 1].event.type \notin AppEvents
        BY <3>3 DEF AboutApp
      <4>3. QED
        BY <4>1, <4>2 DEF After, AppEvents
    <3>5. QED
      BY <3>2, <3>4, <2>3, <1>2, <1>5
  <2>4. QED
    BY <2>1, <2>2, <2>3, <1>2
<1>8. Access(more)'
  <2> SUFFICES ASSUME NEW d \in 1 .. M, ~AboutApp(d)',
                      deliveries'[d].changes = github'.changes, NEW e \in d .. M
               PROVE  /\ more[e].installation = github'.installation
                      /\ Grants(more[e], deliveries'[d].event.repo)
    BY <1>2 DEF Access
  <2>1. CASE d <= N
    <3>1. d \in Deliveries /\ ~AboutApp(d) /\ deliveries[d].changes = github'.changes
      BY <2>1, <1>2
    <3>2. deliveries[d].changes <= github.changes /\ deliveries[d].changes \in Nat
          /\ github.changes \in Nat
      BY <3>1, EventAt DEF WebhookOK, HandlersOK, GithubOK, GitHubs, Handlers
    <3>3. /\ github'.changes = github.changes
          /\ \A r \in Repos : Grants(Current, r) =>
               Grants(Current', r) /\ github'.installation = github.installation
      BY <3>1, <3>2
    <3>4. \A n \in d .. N : h[n].installation = github.installation
                            /\ Grants(h[n], deliveries[d].event.repo)
      BY <3>1, <3>3, <1>1 DEF Mirrored, Access
    <3>5. Grants(Current, deliveries[d].event.repo) /\ deliveries[d].event.repo \in Repos
      <4>1. Grants(Current, deliveries[d].event.repo)
        BY <3>4, <2>1, <1>2, <1>4
      <4>2. QED
        BY <3>1, <4>1, EventAt, EventFields DEF AboutApp
    <3>6. Grants(Current', deliveries[d].event.repo)
          /\ github'.installation = github.installation
      BY <3>3, <3>5
    <3>7. CASE e <= N
      BY <3>4, <3>6, <3>7, <2>1, <1>2, <1>5
    <3>8. CASE e > N
      BY <3>6, <3>8, <2>1, <1>2, <1>3, <1>5
    <3>9. QED
      BY <3>7, <3>8, <1>2
  <2>2. CASE d > N
    <3>1. Grants(Current', deliveries'[d].event.repo)
      BY <2>2, <1>2
    <3>2. more[e] = Current'
      BY <2>2, <1>2, <1>5
    <3>3. QED
      BY <3>1, <3>2, <1>3
  <2>3. QED
    BY <2>1, <2>2, <1>2
<1>9. Frontier(k)'
  <2>1. k # 0 => k \in Deliveries /\ AboutApp(k) /\ ~At(k, "sent")
    BY <1>1 DEF Mirrored, Frontier
  <2>2. k # 0 => k \in Deliveries' /\ AboutApp(k)' /\ ~At(k, "sent")'
    BY <2>1, <1>2 DEF At
  <2>3. ASSUME NEW d \in 1 .. M, d > k, AboutApp(d)'
        PROVE  At(d, "sent")'
    <3>1. CASE d <= N
      <4>1. At(d, "sent") /\ deliveries'[d] = deliveries[d]
        BY <2>3, <3>1, <1>1, <1>2 DEF Mirrored, Frontier
      <4>2. QED
        BY <4>1 DEF At
    <3>2. CASE d > N
      BY <3>2, <1>2 DEF At
    <3>3. QED
      BY <3>1, <3>2, <1>2
  <2>4. QED
    BY <2>2, <2>3, <1>2 DEF Frontier
<1>10. Tables(k, more)'
  <2>1. \A a : (Shows(a)' <=> Shows(a)) /\ (Settled(a)' <=> Settled(a))
    BY DEF tableVars, Shows, Settled, EnabledRepos
  <2>2. CASE k = 0
    BY <2>1, <2>2, <1>1, <1>2, <1>5 DEF Mirrored, Tables
  <2>3. CASE k # 0
    <3>1. /\ more[k - 1] = h[k - 1] /\ more[k] = h[k] /\ deliveries'[k] = deliveries[k]
      BY <2>3, <1>2, <1>5
    <3>2. AtWork(k, h[k - 1], h[k])
      BY <2>3, <1>1 DEF Mirrored, Tables
    <3>3. \A s, e, t, a, b : Halfway(s, e, t, a, b)' <=> Halfway(s, e, t, a, b)
      BY <2>1 DEF Halfway, tableVars, EnabledRepos, PresentRepos
    <3>4. QED
      BY <3>1, <3>2, <3>3, <2>3 DEF Tables, AtWork
  <2>4. QED
    BY <2>2, <2>3
<1>11. InOrder'
  <2> SUFFICES ASSUME NEW d \in 1 .. M, NEW e \in 1 .. M, e < d, AboutApp(e)',
                      ~At(d, "sent")'
               PROVE  At(e, "ok")'
    BY <1>2 DEF InOrder
  <2>1. d <= N
    BY <1>2 DEF At
  <2>2. d \in Deliveries /\ e \in Deliveries /\ deliveries'[d] = deliveries[d]
        /\ deliveries'[e] = deliveries[e] /\ AboutApp(e)
    BY <2>1, <1>2
  <2>3. ~At(d, "sent")
    BY <2>2 DEF At
  <2>4. At(e, "ok")
    BY <2>2, <2>3 DEF MirrorInv, InOrder
  <2>5. QED
    BY <2>2, <2>4 DEF At
<1>12. Mirrored(more, k)' /\ k \in 0 .. M
  BY <1>2, <1>6, <1>7, <1>8, <1>9, <1>10 DEF Mirrored
<1>13. QED
  BY <1>5, <1>11, <1>12 DEF MirrorInv

LEMMA AppEventMirrored ==
  ASSUME WebhookOK, MirrorInv, NEW event \in Events, event.type \in AppEvents,
         Sends(<<event>>), After(Current, event, Current'),
         github'.installation = None => github'.selected = {},
         \/ github'.changes > github.changes
         \/ /\ github'.changes = github.changes
            /\ \A r \in Repos : Grants(Current, r) =>
                 Grants(Current', r) /\ github'.installation = github.installation
  PROVE  MirrorInv'
<1>1. /\ orderly' = orderly /\ github' \in GitHubs /\ deliveries' \in Seq(Handlers)
      /\ Len(deliveries) \in Nat /\ Len(deliveries') = Len(deliveries) + 1
      /\ \A d \in Deliveries : deliveries'[d] = deliveries[d]
      /\ Fresh(deliveries'[Len(deliveries) + 1], event, github.changes)
      /\ UNCHANGED tableVars
  BY DEF Sends, WebhookOK, HandlersOK
<1>2. CASE ~orderly
  BY <1>1, <1>2 DEF MirrorInv
<1>3. CASE orderly
  <2>1. ASSUME NEW d \in Len(deliveries) + 1 .. Len(deliveries')
        PROVE  /\ deliveries'[d].step = "sent" /\ d = Len(deliveries) + 1
               /\ After(Current, deliveries'[d].event, Current') /\ AboutApp(d)'
    <3>1. d = Len(deliveries) + 1
      BY <1>1
    <3>2. Fresh(deliveries'[d], event, github.changes)
      BY <1>1, <3>1
    <3>3. deliveries'[d].event = event /\ deliveries'[d].step = "sent"
      BY <3>2 DEF Fresh
    <3>4. QED
      BY <3>1, <3>3 DEF AboutApp
  <2>2. Current'.installation = None => Current'.selected = {}
    BY DEF Current
  <2>3. /\ Len(deliveries') >= Len(deliveries) /\ Len(deliveries') # Len(deliveries)
        /\ \A d \in Len(deliveries) + 1 .. Len(deliveries') : ~(d > Len(deliveries) + 1)
    BY <1>1
  <2>4. QED
    BY <1>1, <1>3, <2>1, <2>2, <2>3, HistoryGrows
<1>4. QED
  BY <1>1, <1>2, <1>3 DEF WebhookOK, TablesOK

LEMMA GithubMirrored ==
  ASSUME WebhookOK, MirrorInv,
         \/ Install \/ Uninstall \/ Suspend
         \/ \E r \in Repos : SelectRepo(r) \/ Push(r) \/ PushToFork(r)
  PROVE  MirrorInv'
<1>1. /\ deliveries \in Seq(Handlers) /\ github \in GitHubs /\ github.changes \in Nat
      /\ github.selected \subseteq Repos /\ github.suspended \in BOOLEAN
  BY DEF WebhookOK, HandlersOK, GithubOK, GitHubs
<1>2. /\ Current.installation = github.installation
      /\ Current.suspended = github.suspended /\ Current.selected = github.selected
      /\ Current'.installation = github'.installation
      /\ Current'.suspended = github'.suspended /\ Current'.selected = github'.selected
  BY DEF Current
<1>3. CASE Install
  <2>1. PICK i \in Installations, selected \in SUBSET Repos :
          LET event == [type |-> "created", installation |-> i, repos |-> selected] IN
          /\ event \in Events /\ Sends(<<event>>)
          /\ github.installation = None
          /\ github'.installation = i /\ ~github'.suspended
          /\ github'.selected = selected /\ github'.changes = github.changes
    BY <1>1, <1>3, Installing
  <2> DEFINE event == [type |-> "created", installation |-> i, repos |-> selected]
  <2>2. event \in Events /\ event.type \in AppEvents /\ Sends(<<event>>)
    BY <2>1 DEF AppEvents
  <2>3. After(Current, event, Current')
    BY <2>1, <1>2 DEF After
  <2>4. i # None /\ \A r \in Repos : ~Grants(Current, r)
    BY <2>1, <1>2, Constants DEF Grants
  <2> HIDE DEF event
  <2>5. QED
    BY <2>1, <2>2, <2>3, <2>4, AppEventMirrored
<1>4. CASE Uninstall
  <2> DEFINE event == [type |-> "deleted", installation |-> github.installation]
  <2>1. /\ event \in Events /\ Sends(<<event>>)
        /\ github.installation # None /\ github'.installation = None
        /\ github'.selected = {} /\ github'.changes = github.changes + 1
    BY <1>1, <1>4, Uninstalling
  <2>2. event.type \in AppEvents
    BY DEF AppEvents
  <2>3. After(Current, event, Current')
    BY <2>1, <1>2 DEF After
  <2> HIDE DEF event
  <2>4. github'.changes > github.changes
    BY <2>1, <1>1
  <2>5. QED
    BY <2>1, <2>2, <2>3, <2>4, AppEventMirrored
<1>5. CASE Suspend
  <2> DEFINE type == IF github.suspended THEN "unsuspend" ELSE "suspend"
             event == [type |-> type, installation |-> github.installation]
  <2>1. /\ event \in Events /\ Sends(<<event>>)
        /\ github.installation # None /\ github'.installation = github.installation
        /\ github'.suspended = ~github.suspended
        /\ github'.selected = github.selected /\ github'.changes = github.changes + 1
    BY <1>1, <1>5, Suspending
  <2>2. /\ type \in {"suspend", "unsuspend"}
        /\ github'.suspended = (type = "suspend")
    BY <1>1, <2>1
  <2>3. event.type = type /\ event.installation = github.installation
    OBVIOUS
  <2> HIDE DEF event, type
  <2>4. event.type \in AppEvents
    BY <2>2, <2>3 DEF AppEvents
  <2>5. After(Current, event, Current')
    BY <2>1, <2>2, <2>3, <1>2 DEF After
  <2>6. github'.changes > github.changes
    BY <2>1, <1>1
  <2>7. QED
    BY <2>1, <2>4, <2>5, <2>6, AppEventMirrored DEF event
<1>6. ASSUME NEW r \in Repos, SelectRepo(r)
      PROVE  MirrorInv'
  <2> DEFINE event == [type |-> "repositories", installation |-> github.installation,
                       added |-> {r} \ github.selected,
                       removed |-> {r} \cap github.selected]
  <2>1. /\ event \in Events /\ Sends(<<event>>)
        /\ github.installation # None /\ github'.installation = github.installation
        /\ github'.suspended = github.suspended
        /\ github'.selected = (github.selected \ {r}) \cup ({r} \ github.selected)
        /\ github'.changes =
             github.changes + (IF r \in github.selected THEN 1 ELSE 0)
    BY <1>1, <1>6, Selecting
  <2>2. /\ event.type \in AppEvents /\ event.type = "repositories"
        /\ event.added = {r} \ github.selected /\ event.removed = {r} \cap github.selected
    BY DEF AppEvents
  <2> HIDE DEF event
  <2>3. After(Current, event, Current')
    <3>1. /\ github'.selected = (github.selected \ event.removed) \cup event.added
          /\ event.added \cap event.removed = {}
      BY <2>1, <2>2
    <3>2. QED
      BY <2>1, <2>2, <3>1, <1>2 DEF After
  <2>4. CASE r \in github.selected
    <3>1. github'.changes > github.changes
      BY <2>1, <2>4, <1>1
    <3>2. QED
      BY <2>1, <2>2, <2>3, <3>1, AppEventMirrored
  <2>5. CASE r \notin github.selected
    <3>1. github'.changes = github.changes /\ github.selected \subseteq github'.selected
      BY <2>1, <2>5, <1>1
    <3>2. \A s \in Repos : Grants(Current, s) => Grants(Current', s)
      BY <2>1, <3>1, <1>2 DEF Grants
    <3>3. QED
      BY <2>1, <2>2, <2>3, <3>1, <3>2, AppEventMirrored
  <2>6. QED
    BY <2>4, <2>5
<1>7. ASSUME NEW r \in Repos, Push(r) \/ PushToFork(r)
      PROVE  MirrorInv'
  <2>1. PICK events \in Seq(Events) :
           /\ Sends(events)
           /\ \A k \in 1 .. Len(events) :
                events[k].type \notin AppEvents /\ events[k].repo = r
           /\ github.installation # None /\ ~github.suspended /\ r \in github.selected
           /\ github'.installation = github.installation
           /\ github'.suspended = github.suspended
           /\ github'.selected = github.selected /\ github'.changes = github.changes
    <3>1. CASE Push(r)
      BY <1>1, <3>1, Pushing
    <3>2. CASE PushToFork(r)
      <4>1. PICK rev \in DOMAIN github.revs :
              LET event == [type |-> "fork", repo |-> r, rev |-> rev] IN
              /\ event \in Events /\ Sends(<<event>>)
              /\ github.installation # None /\ ~github.suspended /\ r \in github.selected
              /\ github'.installation = github.installation
              /\ github'.suspended = github.suspended
              /\ github'.selected = github.selected /\ github'.changes = github.changes
        BY <1>1, <3>2, PushingToFork
      <4> DEFINE event == [type |-> "fork", repo |-> r, rev |-> rev]
      <4>2. /\ event.type \notin AppEvents /\ event.repo = r
            /\ event \in Events /\ Sends(<<event>>)
        BY <4>1 DEF AppEvents
      <4> HIDE DEF event
      <4>3. /\ <<event>> \in Seq(Events) /\ Len(<<event>>) = 1
            /\ \A k \in 1 .. 1 : (<<event>>)[k] = event
        BY <4>2
      <4>4. \A k \in 1 .. Len(<<event>>) :
              (<<event>>)[k].type \notin AppEvents /\ (<<event>>)[k].repo = r
        BY <4>2, <4>3
      <4>5. QED
        BY <4>1, <4>2, <4>3, <4>4
    <3>3. QED
      BY <1>7, <3>1, <3>2
  <2>2. Current' = Current /\ Grants(Current, r)
    BY <2>1 DEF Current, Grants
  <2>3. /\ orderly' = orderly /\ github' \in GitHubs /\ deliveries' \in Seq(Handlers)
        /\ Len(deliveries) \in Nat /\ Len(events) \in Nat
        /\ Len(deliveries') = Len(deliveries) + Len(events)
        /\ \A d \in Deliveries : deliveries'[d] = deliveries[d]
        /\ UNCHANGED tableVars
    BY <2>1 DEF Sends, WebhookOK, HandlersOK
  <2>4. ASSUME NEW d \in Len(deliveries) + 1 .. Len(deliveries')
        PROVE  /\ deliveries'[d].step = "sent"
               /\ After(Current, deliveries'[d].event, Current)
               /\ Grants(Current, deliveries'[d].event.repo)
    <3>1. d - Len(deliveries) \in 1 .. Len(events)
      BY <2>3
    <3>2. Fresh(deliveries'[Len(deliveries) + (d - Len(deliveries))],
                events[d - Len(deliveries)], github.changes)
      BY <2>1, <3>1 DEF Sends
    <3>3. Len(deliveries) + (d - Len(deliveries)) = d
      BY <2>3
    <3>4. /\ deliveries'[d].step = "sent"
          /\ deliveries'[d].event = events[d - Len(deliveries)]
      BY <3>2, <3>3 DEF Fresh
    <3>5. deliveries'[d].event.type \notin AppEvents /\ deliveries'[d].event.repo = r
      BY <2>1, <3>1, <3>4
    <3>6. QED
      BY <2>2, <3>4, <3>5 DEF After
  <2>5. CASE ~orderly
    BY <2>3, <2>5 DEF MirrorInv
  <2>6. CASE orderly
    <3>1. /\ Len(deliveries') >= Len(deliveries)
          /\ Current'.installation = None => Current'.selected = {}
          /\ \A s \in Repos : Grants(Current, s) =>
               Grants(Current', s) /\ github'.installation = github.installation
      BY <2>1, <2>2, <2>3, <1>2
    <3>2. QED
      BY <2>1, <2>2, <2>3, <2>4, <2>6, <3>1, HistoryGrows
  <2>7. QED
    BY <2>5, <2>6, <2>3 DEF WebhookOK, TablesOK
<1>8. QED
  BY <1>3, <1>4, <1>5, <1>6, <1>7

LEMMA RedeliverMirrored ==
  ASSUME WebhookOK, MirrorInv, NEW d \in Deliveries, Redeliver(d)
  PROVE  MirrorInv'
<1> DEFINE new == Len(deliveries) + 1
<1>1. /\ deliveries' \in Seq(Handlers) /\ Len(deliveries') = new
      /\ Len(deliveries) \in Nat /\ Deliveries = 1 .. Len(deliveries)
      /\ \A e \in Deliveries : deliveries'[e] = deliveries[e]
      /\ Fresh(deliveries'[new], deliveries[d].event, deliveries[d].changes)
      /\ orderly' = (orderly /\ ~AboutApp(d)) /\ orderly \in BOOLEAN
      /\ github' = github /\ github \in GitHubs
      /\ UNCHANGED tableVars
  <2>1. /\ Len(deliveries) \in Nat /\ Deliveries = 1 .. Len(deliveries)
        /\ orderly \in BOOLEAN /\ github \in GitHubs
    BY DEF WebhookOK, HandlersOK, TablesOK, GithubOK, Deliveries
  <2>2. QED
    BY <2>1, Redelivering
<1>2. CASE ~orderly'
  BY <1>2 DEF MirrorInv
<1>3. CASE orderly'
  <2>1. orderly /\ ~AboutApp(d)
    BY <1>1, <1>3
  <2>2. Current' = Current
    BY <1>1 DEF Current
  <2>3. /\ deliveries'[new].event = deliveries[d].event
        /\ deliveries'[new].changes = deliveries[d].changes
        /\ deliveries'[new].step = "sent"
    BY <1>1 DEF Fresh
  <2>4. PICK h \in [0 .. Len(deliveries) -> AppStates], k \in 0 .. Len(deliveries) :
          Mirrored(h, k)
    BY <2>1 DEF MirrorInv
  <2>5. /\ h[Len(deliveries)] = Current
        /\ Current.installation = None => Current.selected = {}
    <3>1. /\ h[Len(deliveries)] = Current
          /\ \A e \in 0 .. Len(deliveries) : h[e].installation = None => h[e].selected = {}
      BY <2>4 DEF Mirrored, History
    <3>2. Len(deliveries) \in 0 .. Len(deliveries)
      BY <1>1
    <3>3. QED
      BY <3>1, <3>2
  <2>6. deliveries[d].changes = github.changes => Grants(Current, deliveries[d].event.repo)
    <3>1. Len(deliveries) \in d .. Len(deliveries)
      BY <1>1
    <3>2. QED
      BY <2>1, <2>4, <2>5, <3>1 DEF Mirrored, Access
  <2>7. After(Current, deliveries[d].event, Current)
    BY <2>1 DEF After, AboutApp
  <2>8. ASSUME NEW e \in Len(deliveries) + 1 .. Len(deliveries')
        PROVE  /\ deliveries'[e].step = "sent"
               /\ After(Current, deliveries'[e].event, Current)
               /\ deliveries'[e].changes = github'.changes =>
                    Grants(Current, deliveries'[e].event.repo)
    <3>1. e = new
      BY <1>1
    <3>2. QED
      BY <3>1, <2>3, <2>6, <2>7, <1>1
  <2>9. Len(deliveries') >= Len(deliveries) /\ github'.changes = github.changes
    BY <1>1
  <2>10. github'.installation = github.installation
    BY <1>1
  <2>11. QED
    BY <1>1, <1>3, <2>1, <2>2, <2>5, <2>8, <2>9, <2>10, HistoryGrows
<1>4. QED
  BY <1>2, <1>3

(* Handlers.  One that is about a revision leaves what the tables say of   *)
(* the app alone.                                                          *)
LEMMA PushMirrored ==
  ASSUME WebhookOK, MirrorInv, NEW d \in Deliveries, Moves(d), ~AboutApp(d),
         github' = github, UNCHANGED <<owner, installations, repos>>,
         orderly' => orderly,
         orderly' /\ At(d, "sent") =>
           \A e \in Deliveries : e < d /\ AboutApp(e) => At(e, "ok")
  PROVE  MirrorInv'
<1> SUFFICES ASSUME orderly' PROVE MirrorInv'
  BY DEF MirrorInv
<1>1. PICK h \in [0 .. Len(deliveries) -> AppStates], k \in 0 .. Len(deliveries) :
        Mirrored(h, k)
  BY DEF MirrorInv
<1>2. /\ Deliveries' = Deliveries /\ Len(deliveries') = Len(deliveries)
      /\ \A e \in Deliveries : AboutApp(e)' <=> AboutApp(e)
      /\ History(h)' /\ Quiet(h)' /\ Access(h)'
  BY <1>1, HistoryKept DEF Mirrored
<1>3. \A e \in Deliveries : e # d => deliveries'[e] = deliveries[e]
  BY DEF Moves
<1>4. \A e \in Deliveries : AboutApp(e) => deliveries'[e] = deliveries[e]
  BY <1>3
<1>5. Frontier(k)'
  BY <1>1, <1>2, <1>4 DEF Mirrored, Frontier, At
<1>6. Tables(k, h)'
  <2>1. \A s, e, t, a, b : Halfway(s, e, t, a, b)' <=> Halfway(s, e, t, a, b)
    BY DEF Halfway, Settled, Shows, EnabledRepos, PresentRepos
  <2>2. Settled(h[0])' <=> Settled(h[0])
    BY DEF Settled, Shows, EnabledRepos
  <2>3. k # 0 => deliveries'[k] = deliveries[k]
    BY <1>1, <1>4 DEF Mirrored, Frontier
  <2>4. QED
    BY <1>1, <2>1, <2>2, <2>3 DEF Mirrored, Tables, AtWork
<1>7. InOrder'
  <2> SUFFICES ASSUME NEW e \in Deliveries, NEW f \in Deliveries, e < f, AboutApp(e),
                      ~At(f, "sent")'
               PROVE  At(e, "ok")'
    BY <1>2 DEF InOrder
  <2>1. CASE f = d /\ At(d, "sent")
    BY <2>1, <1>4 DEF At
  <2>2. CASE ~(f = d /\ At(d, "sent"))
    <3>1. ~At(f, "sent")
      BY <2>2, <1>3 DEF At
    <3>2. At(e, "ok")
      BY <3>1 DEF MirrorInv, InOrder
    <3>3. QED
      BY <3>2, <1>4 DEF At
  <2>3. QED
    BY <2>1, <2>2
<1>8. QED
  BY <1>1, <1>2, <1>5, <1>6, <1>7 DEF MirrorInv, Mirrored

(* What an event about the app may have done to GitHub.                    *)
Legal(a, event, b) ==
  /\ After(a, event, b)
  /\ a.installation = None => a.selected = {}
  /\ b.installation = None => b.selected = {}

(* The handler of d gets further with the event.                           *)
Advances(d) ==
  \A a, b \in AppStates :
    Legal(a, deliveries[d].event, b) /\ AtWork(d, a, b) => AtWork(d, a, b)'

(* One that is about the app is the last that has begun.                   *)
LEMMA AppMirrored ==
  ASSUME WebhookOK, MirrorInv, NEW d \in Deliveries, Moves(d), AboutApp(d),
         ~At(d, "sent"), ~At(d, "ok"), ~At(d, "sent")',
         github' = github, orderly' = orderly, Advances(d)
  PROVE  MirrorInv'
<1> SUFFICES ASSUME orderly' PROVE MirrorInv'
  BY DEF MirrorInv
<1>1. PICK h \in [0 .. Len(deliveries) -> AppStates], k \in 0 .. Len(deliveries) :
        Mirrored(h, k)
  BY DEF MirrorInv
<1>2. /\ Deliveries' = Deliveries /\ Len(deliveries') = Len(deliveries)
      /\ \A e \in Deliveries : AboutApp(e)' <=> AboutApp(e)
      /\ History(h)' /\ Quiet(h)' /\ Access(h)'
  BY <1>1, HistoryKept DEF Mirrored
<1>3. \A e \in Deliveries : e # d => deliveries'[e] = deliveries[e]
  BY DEF Moves
<1>4. Len(deliveries) \in Nat /\ Deliveries = 1 .. Len(deliveries)
  BY DEF WebhookOK, HandlersOK, Deliveries
<1>5. k = d
  <2>1. ~(d > k)
    BY <1>1 DEF Mirrored, Frontier
  <2>2. k # 0
    BY <2>1, <1>4
  <2>3. k \in Deliveries /\ ~At(k, "sent")
    BY <2>2, <1>1 DEF Mirrored, Frontier
  <2>4. ~(d < k)
    BY <2>3 DEF MirrorInv, InOrder
  <2>5. QED
    BY <2>1, <2>4, <1>4
<1>6. Frontier(k)'
  <2>1. k # 0 /\ k \in Deliveries' /\ AboutApp(k)' /\ ~At(k, "sent")'
    BY <1>2, <1>4, <1>5
  <2>2. ASSUME NEW e \in Deliveries, e > k, AboutApp(e)
        PROVE  deliveries'[e].step = "sent"
    BY <2>2, <1>1, <1>3, <1>4, <1>5 DEF Mirrored, Frontier, At
  <2>3. QED
    BY <2>1, <2>2, <1>2 DEF Frontier, At
<1>7. Tables(k, h)'
  <2>1. AtWork(d, h[d - 1], h[d]) /\ d # 0
    BY <1>1, <1>4, <1>5 DEF Mirrored, Tables
  <2>2. /\ h[d - 1] \in AppStates /\ h[d] \in AppStates
        /\ Legal(h[d - 1], deliveries[d].event, h[d])
    BY <1>1, <1>4 DEF Mirrored, History, Legal
  <2>3. PICK a \in AppStates, b \in AppStates : a = h[d - 1] /\ b = h[d]
    BY <2>2
  <2>4. AtWork(d, a, b)'
    BY <2>1, <2>2, <2>3 DEF Advances
  <2>5. QED
    BY <2>1, <2>3, <2>4, <1>5 DEF Tables
<1>8. InOrder'
  <2> SUFFICES ASSUME NEW e \in Deliveries, NEW f \in Deliveries, e < f, AboutApp(e),
                      ~At(f, "sent")'
               PROVE  At(e, "ok")'
    BY <1>2 DEF InOrder
  <2>1. ~At(f, "sent")
    BY <1>3 DEF At
  <2>2. At(e, "ok")
    BY <2>1 DEF MirrorInv, InOrder
  <2>3. e # d
    BY <2>2
  <2>4. QED
    BY <2>2, <2>3, <1>3 DEF At
<1>9. QED
  BY <1>1, <1>2, <1>6, <1>7, <1>8 DEF MirrorInv, Mirrored

LEMMA OwnerAdvances ==
  ASSUME WebhookOK, NEW d \in Deliveries, UpsertOwner(d)
  PROVE  Advances(d)
<1> SUFFICES ASSUME NEW a \in AppStates, NEW b \in AppStates, AtWork(d, a, b)
             PROVE  AtWork(d, a, b)'
  BY DEF Advances
<1>1. Keeps(d, "upsert_installation")
  BY Going, StepNames DEF UpsertOwner, WebhookOK, HandlersOK
<1>2. /\ deliveries'[d].step = "upsert_installation"
      /\ deliveries'[d].todo = deliveries[d].todo
      /\ deliveries'[d].event = deliveries[d].event
  BY <1>1 DEF Keeps, Becomes, Moves
<1>3. deliveries[d].step = "upsert_owner" /\ owner' /\ UNCHANGED <<installations, repos>>
  BY DEF UpsertOwner, At
<1>4. /\ a.selected \subseteq PresentRepos /\ Shows(a)
      /\ deliveries[d].todo = deliveries[d].event.repos
  BY <1>3 DEF AtWork, Halfway
<1>5. a.selected \subseteq PresentRepos' /\ Shows(a)'
  BY <1>3, <1>4 DEF PresentRepos, Shows
<1>6. QED
  BY <1>2, <1>3, <1>4, <1>5 DEF AtWork, Halfway

LEMMA InstallationAdvances ==
  ASSUME WebhookOK, NEW d \in Deliveries, UpsertInstallation(d)
  PROVE  Advances(d)
<1> SUFFICES ASSUME NEW a \in AppStates, NEW b \in AppStates,
                    Legal(a, deliveries[d].event, b), AtWork(d, a, b)
             PROVE  AtWork(d, a, b)'
  BY DEF Advances
<1>1. Keeps(d, "upsert_repos")
  BY Going, StepNames DEF UpsertInstallation, WebhookOK, HandlersOK
<1>2. /\ deliveries'[d].step = "upsert_repos"
      /\ deliveries'[d].todo = deliveries[d].todo
      /\ deliveries'[d].event = deliveries[d].event
  BY <1>1 DEF Keeps, Becomes, Moves
<1>3. /\ deliveries[d].step = "upsert_installation" /\ UNCHANGED <<owner, repos>>
      /\ installations' =
           [installations EXCEPT ![deliveries[d].event.installation] = "enabled"]
      /\ deliveries[d].event.type = "created"
  BY EventAt DEF UpsertInstallation, At
<1>4. /\ a.selected \subseteq PresentRepos /\ Shows(a) /\ owner
      /\ deliveries[d].todo = deliveries[d].event.repos
  BY <1>3 DEF AtWork, Halfway
<1>5. /\ a.installation = None /\ b.installation = deliveries[d].event.installation
      /\ ~b.suspended /\ b.selected = deliveries[d].event.repos
      /\ b.installation \in Installations
  <2>1. deliveries[d].event.installation \in Installations
    BY <1>3, EventAt, EventFields DEF AppEvents
  <2>2. QED
    BY <2>1, <1>3 DEF Legal, After, AppEvents
<1>6. Shows(b)'
  <2>1. installations \in [Installations -> RowStates]
    BY DEF WebhookOK, TablesOK
  <2>2. \A i \in Installations : installations[i] # "enabled"
    BY <1>4, <1>5, Constants DEF Shows
  <2>3. QED
    BY <2>1, <2>2, <1>3, <1>4, <1>5 DEF Shows
<1>7. a.selected \subseteq PresentRepos'
  BY <1>3, <1>4 DEF PresentRepos
<1>8. QED
  BY <1>2, <1>4, <1>5, <1>6, <1>7 DEF AtWork, Halfway

(* A repository that becomes enabled.                                      *)
LEMMA Enabling ==
  ASSUME WebhookOK, NEW r \in Repos, Enables(r)
  PROVE  /\ EnabledRepos' = EnabledRepos \cup {r}
         /\ PresentRepos' = PresentRepos \cup {r}
<1>1. repos \in [Repos -> RowStates]
  BY DEF WebhookOK, TablesOK
<1>2. QED
  BY <1>1 DEF Enables, EnabledRepos, PresentRepos

LEMMA Disabling ==
  ASSUME WebhookOK, NEW r \in Repos, Disables(r)
  PROVE  /\ EnabledRepos \ {r} \subseteq EnabledRepos'
         /\ PresentRepos' = PresentRepos
<1>1. repos \in [Repos -> RowStates]
  BY DEF WebhookOK, TablesOK
<1>2. QED
  BY <1>1 DEF Disables, EnabledRepos, PresentRepos

LEMMA ReposAdvance ==
  ASSUME WebhookOK, NEW d \in Deliveries, UpsertRepo(d)
  PROVE  Advances(d)
<1> SUFFICES ASSUME NEW a \in AppStates, NEW b \in AppStates, AtWork(d, a, b)
             PROVE  AtWork(d, a, b)'
  BY DEF Advances
<1>1. /\ deliveries \in Seq(Handlers) /\ deliveries[d].step = "upsert_repos"
      /\ deliveries[d].todo \subseteq Repos /\ UNCHANGED <<owner, installations>>
  BY EventAt DEF UpsertRepo, At, WebhookOK, HandlersOK, Handlers
<1>2. /\ a.selected \subseteq PresentRepos /\ Shows(b)
      /\ b.selected \ deliveries[d].todo \subseteq EnabledRepos
  BY <1>1 DEF AtWork, Halfway
<1>3. Shows(b)'
  BY <1>1, <1>2 DEF Shows
<1>4. CASE deliveries[d].todo = {} /\ Keeps(d, "ok") /\ UNCHANGED repos
  <2>1. deliveries'[d].step = "ok"
    BY <1>4 DEF Keeps, Becomes
  <2>2. a.selected \subseteq PresentRepos' /\ b.selected \subseteq EnabledRepos'
    BY <1>2, <1>4 DEF PresentRepos, EnabledRepos
  <2>3. QED
    BY <2>1, <2>2, <1>3 DEF AtWork, Halfway, Settled
<1>5. ASSUME NEW r \in deliveries[d].todo, Enables(r), Ticks(d, r)
      PROVE  AtWork(d, a, b)'
  <2>1. /\ deliveries'[d].step = "upsert_repos"
        /\ deliveries'[d].todo = deliveries[d].todo \ {r}
    BY <1>1, <1>5 DEF Ticks, Becomes
  <2>2. /\ EnabledRepos' = EnabledRepos \cup {r} /\ PresentRepos' = PresentRepos \cup {r}
    BY <1>1, <1>5, Enabling
  <2>3. /\ a.selected \subseteq PresentRepos'
        /\ b.selected \ deliveries'[d].todo \subseteq EnabledRepos'
    BY <1>2, <2>1, <2>2
  <2>4. QED
    BY <2>1, <2>3, <1>3 DEF AtWork, Halfway
<1>6. QED
  BY <1>1, <1>4, <1>5, UpsertingRepo

LEMMA DisableAdvances ==
  ASSUME WebhookOK, NEW d \in Deliveries, DisableInstallation(d)
  PROVE  Advances(d)
<1> SUFFICES ASSUME NEW a \in AppStates, NEW b \in AppStates,
                    Legal(a, deliveries[d].event, b), AtWork(d, a, b)
             PROVE  AtWork(d, a, b)'
  BY DEF Advances
<1> DEFINE event == deliveries[d].event
<1>1. Keeps(d, "ok")
  BY Going, StepNames DEF DisableInstallation, WebhookOK, HandlersOK
<1>2. /\ deliveries'[d].step = "ok"
      /\ deliveries[d].step = "disable" /\ UNCHANGED <<owner, repos>>
      /\ event.type \in {"deleted", "suspend", "unsuspend"}
  BY <1>1, EventAt DEF DisableInstallation, At, Keeps, Becomes
<1>3. /\ a.selected \subseteq PresentRepos /\ Shows(a)
      /\ a.selected \subseteq EnabledRepos
  BY <1>2 DEF AtWork, Halfway, Settled
<1>4. event.installation \in Installations /\ a.installation = event.installation
  <2>1. event.installation \in Installations
    BY <1>2, EventAt, EventFields DEF AppEvents
  <2>2. QED
    BY <2>1, <1>2 DEF Legal, After, AppEvents
<1>5. /\ installations \in [Installations -> RowStates]
      /\ installations[event.installation] # "absent" /\ owner
      /\ \A i \in Installations : i # event.installation => installations[i] # "enabled"
  BY <1>3, <1>4, Constants DEF Shows, WebhookOK, TablesOK
<1>6. Shows(b)' /\ b.selected \subseteq a.selected
  <2>1. CASE event.type = "unsuspend"
    <3>1. installations' = [installations EXCEPT ![event.installation] = "enabled"]
      BY <2>1, <1>5 DEF DisableInstallation
    <3>2. b.installation = a.installation /\ b.selected = a.selected /\ ~b.suspended
      BY <2>1 DEF Legal, After, AppEvents
    <3>3. QED
      BY <3>1, <3>2, <1>2, <1>4, <1>5 DEF Shows
  <2>2. CASE event.type # "unsuspend"
    <3>1. installations' = [installations EXCEPT ![event.installation] = "disabled"]
      BY <2>2, <1>5 DEF DisableInstallation
    <3>2. \/ b.installation = None /\ b.selected = {}
          \/ b.installation = a.installation /\ b.selected = a.selected /\ b.suspended
      BY <2>2, <1>2 DEF Legal, After, AppEvents
    <3>3. QED
      BY <3>1, <3>2, <1>2, <1>4, <1>5, Constants DEF Shows
  <2>3. QED
    BY <2>1, <2>2
<1>7. a.selected \subseteq PresentRepos' /\ a.selected \subseteq EnabledRepos'
  BY <1>2, <1>3 DEF PresentRepos, EnabledRepos
<1>8. QED
  BY <1>2, <1>6, <1>7 DEF AtWork, Halfway, Settled

LEMMA AddAdvances ==
  ASSUME WebhookOK, NEW d \in Deliveries, AddRepo(d)
  PROVE  Advances(d)
<1> SUFFICES ASSUME NEW a \in AppStates, NEW b \in AppStates,
                    Legal(a, deliveries[d].event, b), AtWork(d, a, b)
             PROVE  AtWork(d, a, b)'
  BY DEF Advances
<1> DEFINE event == deliveries[d].event
<1>1. /\ deliveries \in Seq(Handlers) /\ deliveries[d].step = "add_repos"
      /\ deliveries[d].todo \subseteq Repos /\ UNCHANGED <<owner, installations>>
      /\ event.type = "repositories"
  BY EventAt DEF AddRepo, At, WebhookOK, HandlersOK, Handlers
<1>2. /\ a.selected \subseteq PresentRepos /\ Shows(a)
      /\ a.selected \cup (event.added \ deliveries[d].todo) \subseteq EnabledRepos
  BY <1>1 DEF AtWork, Halfway
<1>3. Shows(a)'
  BY <1>1, <1>2 DEF Shows
<1>4. CASE /\ deliveries[d].todo = {} /\ UNCHANGED repos
           /\ Becomes(d, "remove_repos", event.removed, deliveries[d].vms,
                      deliveries[d].cause)
  <2>1. /\ deliveries'[d].step = "remove_repos" /\ deliveries'[d].todo = event.removed
        /\ deliveries'[d].event = event
    BY <1>4 DEF Becomes, Moves
  <2>2. b.selected \subseteq a.selected \cup event.added
    BY <1>1 DEF Legal, After, AppEvents
  <2>3. a.selected \subseteq PresentRepos' /\ b.selected \subseteq EnabledRepos'
    BY <1>2, <1>4, <2>2 DEF PresentRepos, EnabledRepos
  <2>4. QED
    BY <2>1, <2>3, <1>3 DEF AtWork, Halfway
<1>5. ASSUME NEW r \in deliveries[d].todo, Enables(r), Ticks(d, r)
      PROVE  AtWork(d, a, b)'
  <2>1. /\ deliveries'[d].step = "add_repos" /\ deliveries'[d].event = event
        /\ deliveries'[d].todo = deliveries[d].todo \ {r}
    BY <1>1, <1>5 DEF Ticks, Becomes, Moves
  <2>2. /\ EnabledRepos' = EnabledRepos \cup {r} /\ PresentRepos' = PresentRepos \cup {r}
    BY <1>1, <1>5, Enabling
  <2>3. /\ a.selected \subseteq PresentRepos'
        /\ a.selected \cup (event.added \ deliveries'[d].todo) \subseteq EnabledRepos'
    BY <1>2, <2>1, <2>2
  <2>4. QED
    BY <2>1, <2>3, <1>3 DEF AtWork, Halfway
<1>6. CASE Fails(d, "row") /\ UNCHANGED repos
  <2>1. deliveries'[d].step = "error"
    BY <1>6 DEF Fails, Becomes
  <2>2. a.selected \subseteq PresentRepos'
    BY <1>2, <1>6 DEF PresentRepos
  <2>3. QED
    BY <2>1, <2>2, <1>3 DEF AtWork, Halfway
<1>7. QED
  BY <1>1, <1>4, <1>5, <1>6, AddingRepo

LEMMA RemoveAdvances ==
  ASSUME WebhookOK, NEW d \in Deliveries, RemoveRepo(d)
  PROVE  Advances(d)
<1> SUFFICES ASSUME NEW a \in AppStates, NEW b \in AppStates,
                    Legal(a, deliveries[d].event, b), AtWork(d, a, b)
             PROVE  AtWork(d, a, b)'
  BY DEF Advances
<1> DEFINE event == deliveries[d].event
<1>1. /\ deliveries \in Seq(Handlers) /\ deliveries[d].step = "remove_repos"
      /\ deliveries[d].todo \subseteq Repos /\ UNCHANGED <<owner, installations>>
      /\ event.type = "repositories"
  BY EventAt DEF RemoveRepo, At, WebhookOK, HandlersOK, Handlers
<1>2. /\ a.selected \subseteq PresentRepos /\ Shows(a)
      /\ b.selected \subseteq EnabledRepos /\ deliveries[d].todo \subseteq event.removed
  BY <1>1 DEF AtWork, Halfway
<1>3. Shows(a)'
  BY <1>1, <1>2 DEF Shows
<1>4. /\ b.installation = a.installation /\ b.suspended = a.suspended
      /\ b.selected \cap event.removed = {}
  BY <1>1 DEF Legal, After, AppEvents
<1>5. CASE deliveries[d].todo = {} /\ Keeps(d, "ok") /\ UNCHANGED repos
  <2>1. deliveries'[d].step = "ok"
    BY <1>5 DEF Keeps, Becomes
  <2>2. Shows(b)'
    BY <1>3, <1>4 DEF Shows
  <2>3. a.selected \subseteq PresentRepos' /\ b.selected \subseteq EnabledRepos'
    BY <1>2, <1>5 DEF PresentRepos, EnabledRepos
  <2>4. QED
    BY <2>1, <2>2, <2>3 DEF AtWork, Halfway, Settled
<1>6. ASSUME NEW r \in deliveries[d].todo, Disables(r), Ticks(d, r)
      PROVE  AtWork(d, a, b)'
  <2>1. /\ deliveries'[d].step = "remove_repos" /\ deliveries'[d].event = event
        /\ deliveries'[d].todo = deliveries[d].todo \ {r}
    BY <1>1, <1>6 DEF Ticks, Becomes, Moves
  <2>2. EnabledRepos \ {r} \subseteq EnabledRepos' /\ PresentRepos' = PresentRepos
    BY <1>1, <1>6, Disabling
  <2>3. /\ a.selected \subseteq PresentRepos' /\ b.selected \subseteq EnabledRepos'
        /\ deliveries'[d].todo \subseteq event.removed
    BY <1>2, <1>4, <2>1, <2>2
  <2>4. QED
    BY <2>1, <2>3, <1>3 DEF AtWork, Halfway
<1>7. QED
  BY <1>1, <1>5, <1>6, RemovingRepo

(* The steps of a handler that is about the app.                           *)
LEMMA AppStepMirrored ==
  ASSUME WebhookOK, ProgressInv, MirrorInv, NEW d \in Deliveries, AppStep(d)
  PROVE  MirrorInv'
<1>1. Moves(d) /\ AboutApp(d)
  BY AppStepKeeps, AppTypes DEF AboutApp
<1>2. Advances(d)
  BY OwnerAdvances, InstallationAdvances, ReposAdvance, DisableAdvances, AddAdvances,
     RemoveAdvances DEF AppStep
<1>3. /\ ~At(d, "sent") /\ ~At(d, "ok") /\ github' = github /\ orderly' = orderly
  BY DEF AppStep, UpsertOwner, UpsertInstallation, UpsertRepo, DisableInstallation,
         AddRepo, RemoveRepo, At, outside
<1>4. ~At(d, "sent")'
  <2>1. deliveries \in Seq(Handlers)
    BY DEF WebhookOK, HandlersOK
  <2>2. CASE UpsertOwner(d) \/ UpsertInstallation(d) \/ DisableInstallation(d)
    <3>1. \/ Keeps(d, "upsert_installation") \/ Keeps(d, "upsert_repos")
          \/ Keeps(d, "ok")
      BY <2>1, <2>2, Going, StepNames DEF UpsertOwner, UpsertInstallation,
                                          DisableInstallation
    <3>2. QED
      BY <3>1 DEF Keeps, Becomes, At
  <2>3. CASE UpsertRepo(d)
    BY <2>1, <2>3, <1>3, UpsertingRepo DEF Keeps, Ticks, Becomes, At
  <2>4. CASE AddRepo(d)
    <3>1. deliveries[d].event.type = "repositories"
      BY <2>4, EventAt DEF AddRepo
    <3>2. QED
      BY <2>1, <2>4, <3>1, <1>3, AddingRepo DEF Fails, Ticks, Becomes, At
  <2>5. CASE RemoveRepo(d)
    BY <2>1, <2>5, <1>3, RemovingRepo DEF Keeps, Ticks, Becomes, At
  <2>6. QED
    BY <2>2, <2>3, <2>4, <2>5 DEF AppStep
<1>5. QED
  BY <1>1, <1>2, <1>3, <1>4, AppMirrored

(* A handler that begins in order finds the tables settled.                *)
LEMMA BeginMirrored ==
  ASSUME WebhookOK, MirrorInv, NEW d \in Deliveries, Begin(d)
  PROVE  MirrorInv'
<1> DEFINE event == deliveries[d].event
<1> SUFFICES ASSUME orderly' PROVE MirrorInv'
  BY DEF MirrorInv
<1>1. /\ At(d, "sent") /\ github' = github /\ UNCHANGED <<owner, installations, repos>>
      /\ orderly /\ \A e \in 1 .. d - 1 : AboutApp(e) => At(e, "ok")
  BY DEF Begin, tableVars, outside
<1>2. Len(deliveries) \in Nat /\ Deliveries = 1 .. Len(deliveries)
  BY DEF WebhookOK, HandlersOK, Deliveries
<1>3. \A e \in Deliveries : e < d /\ AboutApp(e) => At(e, "ok")
  BY <1>1, <1>2
<1>4. Becomes(d, FirstStep(event.type), FirstTodo(d), deliveries[d].vms,
              deliveries[d].cause)
  BY JobsTyped, Beginning
<1>5. Moves(d)
  BY <1>4 DEF Becomes
<1>6. CASE ~AboutApp(d)
  BY <1>1, <1>3, <1>5, <1>6, PushMirrored
<1>7. CASE AboutApp(d)
  <2>1. PICK h \in [0 .. Len(deliveries) -> AppStates], k \in 0 .. Len(deliveries) :
          Mirrored(h, k)
    BY <1>1 DEF MirrorInv
  <2>2. /\ Deliveries' = Deliveries /\ Len(deliveries') = Len(deliveries)
        /\ \A e \in Deliveries : AboutApp(e)' <=> AboutApp(e)
        /\ History(h)' /\ Quiet(h)' /\ Access(h)'
    BY <1>1, <1>5, <2>1, HistoryKept DEF Mirrored
  <2>3. \A e \in Deliveries : e # d => deliveries'[e] = deliveries[e]
    BY <1>5 DEF Moves
  <2>4. k < d /\ Settled(h[k])
    <3>1. CASE k = 0
      BY <2>1, <3>1, <1>2 DEF Mirrored, Tables
    <3>2. CASE k # 0
      <4>1. k \in Deliveries /\ AboutApp(k) /\ ~At(k, "sent") /\ AtWork(k, h[k - 1], h[k])
        BY <2>1, <3>2 DEF Mirrored, Frontier, Tables
      <4>2. ~(d < k) /\ d # k
        BY <4>1, <1>1, <1>7 DEF MirrorInv, InOrder, At
      <4>3. k < d
        BY <4>1, <4>2, <1>2
      <4>4. At(k, "ok")
        BY <4>1, <4>3, <1>3
      <4>5. Settled(h[k])
        BY <4>1, <4>4 DEF AtWork, Halfway, At
      <4>6. QED
        BY <4>3, <4>5
    <3>3. QED
      BY <3>1, <3>2
  <2>5. PICK a \in AppStates, b \in AppStates : a = h[d - 1] /\ b = h[d]
    BY <2>1, <1>2
  <2>6. a = h[k]
    <3>1. k \in 0 .. Len(deliveries) /\ d - 1 \in 0 .. Len(deliveries) /\ k <= d - 1
      BY <2>1, <2>4, <1>2
    <3>2. ASSUME NEW n \in k + 1 .. d - 1  PROVE ~AboutApp(n)
      <4>1. n \in Deliveries /\ n > k /\ n < d
        BY <3>1, <1>2
      <4>2. AboutApp(n) => At(n, "sent") /\ At(n, "ok")
        BY <4>1, <2>1, <1>3 DEF Mirrored, Frontier
      <4>3. QED
        BY <4>2 DEF At
    <3>3. QED
      BY <3>1, <3>2, <2>1, <2>5 DEF Mirrored, Quiet
  <2>7. /\ Shows(a)' /\ a.selected \subseteq EnabledRepos' /\ a.selected \subseteq PresentRepos'
    <3>1. Shows(a) /\ a.selected \subseteq EnabledRepos
      BY <2>4, <2>6 DEF Settled
    <3>2. EnabledRepos \subseteq PresentRepos
      BY DEF EnabledRepos, PresentRepos
    <3>3. QED
      BY <1>1, <3>1, <3>2 DEF Shows, EnabledRepos, PresentRepos
  <2>8. /\ deliveries'[d].step = FirstStep(event.type) /\ deliveries'[d].todo = FirstTodo(d)
        /\ deliveries'[d].event = event
    BY <1>4 DEF Becomes, Moves
  <2>9. AtWork(d, a, b)'
    <3>1. CASE event.type = "created"
      <4>1. deliveries'[d].step = "upsert_owner" /\ deliveries'[d].todo = event.repos
        BY <2>8, <3>1 DEF FirstStep, FirstTodo
      <4>2. QED
        BY <4>1, <2>7, <2>8 DEF AtWork, Halfway
    <3>2. CASE event.type = "repositories"
      <4>1. deliveries'[d].step = "add_repos" /\ deliveries'[d].todo = event.added
        BY <2>8, <3>2 DEF FirstStep, FirstTodo
      <4>2. QED
        BY <4>1, <2>7, <2>8 DEF AtWork, Halfway
    <3>3. CASE event.type \in {"deleted", "suspend", "unsuspend"}
      <4>1. deliveries'[d].step = "disable"
        BY <2>8, <3>3 DEF FirstStep
      <4>2. QED
        BY <4>1, <2>7 DEF AtWork, Halfway, Settled
    <3>4. QED
      BY <1>7, <3>1, <3>2, <3>3 DEF AboutApp, AppEvents
  <2>10. Tables(d, h)'
    BY <2>5, <2>9, <1>2 DEF Tables
  <2>11. Frontier(d)'
    <3>1. deliveries'[d].step # "sent"
      BY <1>7, <2>8 DEF FirstStep, AboutApp, AppEvents
    <3>2. ASSUME NEW e \in Deliveries, e > d, AboutApp(e)
          PROVE  deliveries'[e].step = "sent"
      <4>1. e > k /\ e # d
        BY <3>2, <2>4, <1>2
      <4>2. QED
        BY <3>2, <4>1, <2>1, <2>3 DEF Mirrored, Frontier, At
    <3>3. QED
      BY <3>1, <3>2, <2>2, <1>7 DEF Frontier, At
  <2>12. InOrder'
    <3> SUFFICES ASSUME NEW e \in Deliveries, NEW f \in Deliveries, e < f, AboutApp(e),
                        ~At(f, "sent")'
                 PROVE  At(e, "ok")'
      BY <2>2 DEF InOrder
    <3>1. At(e, "ok")
      <4>1. CASE f = d
        BY <4>1, <1>3
      <4>2. CASE f # d
        BY <4>2, <2>3, <1>1 DEF MirrorInv, InOrder, At
      <4>3. QED
        BY <4>1, <4>2
    <3>2. e # d
      BY <3>1, <1>1 DEF At
    <3>3. QED
      BY <3>1, <3>2, <2>3 DEF At
  <2>13. d \in 0 .. Len(deliveries)
    BY <1>2
  <2>14. QED
    BY <2>1, <2>2, <2>10, <2>11, <2>12, <2>13 DEF MirrorInv, Mirrored
<1>8. QED
  BY <1>6, <1>7

LEMMA InterruptMirrored ==
  ASSUME WebhookOK, MirrorInv, NEW d \in Deliveries, Interrupt(d)
  PROVE  MirrorInv'
<1>1. /\ deliveries[d].step \notin {"sent", "ok", "error"} /\ Fails(d, "fault")
      /\ github' = github /\ orderly' = orderly
      /\ UNCHANGED <<owner, installations, repos>>
  BY Interrupting DEF tableVars
<1>2. Moves(d) /\ deliveries'[d].step = "error"
  BY <1>1 DEF Fails, Becomes
<1>3. CASE ~AboutApp(d)
  BY <1>1, <1>2, <1>3, PushMirrored DEF At
<1>4. CASE AboutApp(d)
  <2>1. deliveries[d].step \in {"upsert_owner", "upsert_installation", "upsert_repos",
                                "disable", "add_repos", "remove_repos"}
    BY <1>1, <1>4, EventAt DEF WebhookOK, HandlersOK, StepsOf, AboutApp, AppEvents
  <2>2. ASSUME NEW a \in AppStates, NEW b \in AppStates, AtWork(d, a, b)
        PROVE  AtWork(d, a, b)'
    <3>1. a.selected \subseteq PresentRepos /\ (Shows(a) \/ Shows(b))
      BY <2>1, <2>2 DEF AtWork, Halfway, Settled
    <3>2. a.selected \subseteq PresentRepos' /\ (Shows(a)' \/ Shows(b)')
      BY <1>1, <3>1 DEF Shows, PresentRepos
    <3>3. QED
      BY <1>2, <3>2 DEF AtWork, Halfway
  <2>3. Advances(d)
    BY <2>2 DEF Advances
  <2>4. QED
    BY <1>1, <1>2, <1>4, <2>3, AppMirrored DEF At
<1>5. QED
  BY <1>3, <1>4

LEMMA PushLeaves ==
  ASSUME NEW d, PushStep(d)
  PROVE  UNCHANGED <<github, orderly, owner, installations, repos>>
<1>1. FindOwner(d) => UNCHANGED <<github, orderly, owner, installations, repos>>
  BY DEF FindOwner, outside, tableVars
<1>2. FindInstallation(d) => UNCHANGED <<github, orderly, owner, installations, repos>>
  BY DEF FindInstallation, outside, tableVars
<1>3. CreateCommit(d) => UNCHANGED <<github, orderly, owner, installations, repos>>
  BY DEF CreateCommit, outside
<1>4. FetchDevenvYaml(d) => UNCHANGED <<github, orderly, owner, installations, repos>>
  BY DEF FetchDevenvYaml, tableVars
<1>5. NewJob(d) => UNCHANGED <<github, orderly, owner, installations, repos>>
  BY DEF NewJob, outside
<1>6. CreateCheckRun(d) => UNCHANGED <<github, orderly, owner, installations, repos>>
  BY DEF CreateCheckRun, outside
<1>7. InsertJob(d) => UNCHANGED <<github, orderly, owner, installations, repos>>
  BY DEF InsertJob, outside
<1>8. QED
  BY <1>1, <1>2, <1>3, <1>4, <1>5, <1>6, <1>7 DEF PushStep

LEMMA PushStepMirrored ==
  ASSUME WebhookOK, ProgressInv, MirrorInv, NEW d \in Deliveries, PushStep(d)
  PROVE  MirrorInv'
<1>1. Moves(d) /\ ~AboutApp(d) /\ deliveries[d].step \in PushSteps
  BY PushTypes, LookupKeeps, FetchKeeps, NewJobKeeps, CheckRunKeeps, InsertKeeps
     DEF PushStep
<1>2. /\ github' = github /\ orderly' = orderly
      /\ UNCHANGED <<owner, installations, repos>>
  BY PushLeaves
<1>3. ~At(d, "sent")
  BY <1>1 DEF At, PushSteps
<1>4. QED
  BY <1>1, <1>2, <1>3, PushMirrored

LEMMA MirrorStep ==
  ASSUME WebhookOK, ProgressInv, MirrorInv, [Next]_vars
  PROVE  MirrorInv'
<1>1. CASE \/ Install \/ Uninstall \/ Suspend
           \/ \E r \in Repos : SelectRepo(r) \/ Push(r) \/ PushToFork(r)
  BY <1>1, GithubMirrored
<1>2. ASSUME NEW d \in Deliveries, Redeliver(d)  PROVE MirrorInv'
  BY <1>2, RedeliverMirrored
<1>3. ASSUME NEW d \in Deliveries, Interrupt(d)  PROVE MirrorInv'
  BY <1>3, InterruptMirrored
<1>4. ASSUME NEW d \in Deliveries, Begin(d)  PROVE MirrorInv'
  BY <1>4, BeginMirrored
<1>5. ASSUME NEW d \in Deliveries, AppStep(d)  PROVE MirrorInv'
  BY <1>5, AppStepMirrored
<1>6. ASSUME NEW d \in Deliveries, PushStep(d)  PROVE MirrorInv'
  BY <1>6, PushStepMirrored
<1>7. CASE UNCHANGED vars
  <2>1. MirrorInv' <=> MirrorInv
    BY <1>7 DEF vars, tableVars, MirrorInv, Mirrored, History, Quiet, Access, Frontier,
       Tables, AtWork, Halfway, Settled, Shows, EnabledRepos, PresentRepos, Current,
       InOrder, At, AboutApp, Deliveries
  <2>2. QED
    BY <2>1
<1>8. QED
  BY <1>1, <1>2, <1>3, <1>4, <1>5, <1>6, <1>7 DEF Next, Handle, AppStep, PushStep

(* The tables show what GitHub was before or after the last delivery       *)
(* begun, at every statement of its handler.                               *)
LEMMA ShowsOne ==
  ASSUME WebhookOK, NEW k \in Deliveries, AboutApp(k), ~At(k, "sent"), NEW a, NEW b,
         AtWork(k, a, b)
  PROVE  Shows(a) \/ Shows(b)
<1>1. deliveries[k].step \in {"upsert_owner", "upsert_installation", "upsert_repos",
                              "disable", "add_repos", "remove_repos", "ok", "error"}
  BY EventAt DEF WebhookOK, HandlersOK, StepsOf, AboutApp, AppEvents, At
<1>2. QED
  BY <1>1 DEF AtWork, Halfway, Settled

THEOREM MirrorInvariant == Spec => []MirrorInv
<1>1. QED
  BY WebhookInit, WebhookStep, MirrorInit, MirrorStep, WebhookInvariant, PTL DEF Spec

(* webhook of serve.rs, the events about the app (221-293): while they are *)
(* handled in order, never are two installations enabled together, between *)
(* any two statements, and when all are handled the tables have the        *)
(* installation that GitHub has, with all its repositories.                *)
THEOREM TablesMirrorGitHub == Spec => []MirrorsGitHub
<1>1. WebhookOK /\ MirrorInv => MirrorsGitHub
  <2> SUFFICES ASSUME WebhookOK, MirrorInv, orderly
               PROVE  /\ \A x, y \in OwnersWithRepos : x[2] = y[2] => x = y
                      /\ (\A d \in Deliveries : AboutApp(d) => At(d, "ok")) =>
                           /\ Enabled = {i \in Installations :
                                           i = github.installation /\ ~github.suspended}
                           /\ \A r \in github.selected : repos[r] = "enabled"
    BY DEF MirrorsGitHub
  <2>1. PICK h \in [0 .. Len(deliveries) -> AppStates], k \in 0 .. Len(deliveries) :
          Mirrored(h, k)
    BY DEF MirrorInv
  <2>2. Len(deliveries) \in Nat /\ Deliveries = 1 .. Len(deliveries)
    BY DEF WebhookOK, HandlersOK, Deliveries
  <2>3. \E a : Shows(a)
    <3>1. CASE k = 0
      BY <2>1, <3>1 DEF Mirrored, Tables, Settled
    <3>2. CASE k # 0
      BY <2>1, <3>2, ShowsOne DEF Mirrored, Frontier, Tables
    <3>3. QED
      BY <3>1, <3>2
  <2>4. \A i, j \in Enabled : i = j
    BY <2>3 DEF Shows, Enabled
  <2>5. \A x, y \in OwnersWithRepos : x[2] = y[2] => x = y
    BY <2>4 DEF OwnersWithRepos
  <2>6. ASSUME \A d \in Deliveries : AboutApp(d) => At(d, "ok")
        PROVE  /\ Enabled = {i \in Installations :
                               i = github.installation /\ ~github.suspended}
               /\ \A r \in github.selected : repos[r] = "enabled"
    <3>1. Settled(h[k])
      <4>1. CASE k = 0
        BY <2>1, <4>1 DEF Mirrored, Tables
      <4>2. CASE k # 0
        BY <2>1, <2>6, <4>2 DEF Mirrored, Frontier, Tables, AtWork, Halfway, At
      <4>3. QED
        BY <4>1, <4>2
    <3>2. ASSUME NEW n \in k + 1 .. Len(deliveries)  PROVE ~AboutApp(n)
      <4>1. n \in Deliveries /\ n > k
        BY <2>2
      <4>2. AboutApp(n) => At(n, "sent") /\ At(n, "ok")
        BY <4>1, <2>1, <2>6 DEF Mirrored, Frontier
      <4>3. QED
        BY <4>2 DEF At
    <3>3. h[k] = h[Len(deliveries)]
      <4>1. Len(deliveries) \in 0 .. Len(deliveries) /\ k <= Len(deliveries)
        BY <2>2
      <4>2. QED
        BY <2>1, <3>2, <4>1 DEF Mirrored, Quiet
    <3>4. Settled(Current)
      BY <2>1, <3>1, <3>3 DEF Mirrored, History
    <3>5. github.selected \subseteq EnabledRepos
      BY <3>4 DEF Settled, Current
    <3>6. QED
      BY <3>4, <3>5 DEF Settled, Shows, Current, Enabled, EnabledRepos
  <2>7. QED
    BY <2>5, <2>6
<1>2. QED
  BY <1>1, WebhookInvariant, MirrorInvariant, PTL

-----------------------------------------------------------------------------
(* Pushes find what they look for                                          *)

(* The app still has the repository it had when d was sent.                *)
StillGranted(d) == ~AboutApp(d) /\ deliveries[d].changes = github.changes

LEMMA PushFinds ==
  ASSUME WebhookOK, MirrorInv, orderly, NEW d \in Deliveries, StillGranted(d),
         ~At(d, "sent")
  PROVE  /\ owner /\ Enabled # {} /\ repos[deliveries[d].event.repo] # "absent"
         /\ \A i \in Enabled : Accepts(i, deliveries[d].event.repo)
<1> DEFINE repo == deliveries[d].event.repo
<1>1. PICK h \in [0 .. Len(deliveries) -> AppStates], k \in 0 .. Len(deliveries) :
        Mirrored(h, k)
  BY DEF MirrorInv
<1>2. /\ Len(deliveries) \in Nat /\ Deliveries = 1 .. Len(deliveries)
      /\ repo \in Repos /\ github.installation \in Installations \cup {None}
  <2>1. deliveries[d].event \in Events /\ deliveries[d].event.type \notin AppEvents
    BY EventAt DEF StillGranted, AboutApp
  <2>2. repo \in Repos
    BY <2>1, EventFields
  <2>3. QED
    BY <2>2 DEF WebhookOK, HandlersOK, Deliveries, GithubOK, GitHubs
<1>3. \A e \in d .. Len(deliveries) :
        h[e].installation = github.installation /\ Grants(h[e], repo)
  BY <1>1 DEF Mirrored, Access, StillGranted
<1>4. \E a : /\ Shows(a) /\ a.installation = github.installation /\ Grants(a, repo)
             /\ repo \in PresentRepos
  <2>1. CASE k < d
    <3>1. Settled(h[k])
      <4>1. CASE k = 0
        BY <1>1, <4>1 DEF Mirrored, Tables
      <4>2. CASE k # 0
        <5>1. k \in Deliveries /\ AboutApp(k) /\ AtWork(k, h[k - 1], h[k])
          BY <1>1, <4>2 DEF Mirrored, Frontier, Tables
        <5>2. At(k, "ok")
          BY <2>1, <5>1 DEF MirrorInv, InOrder
        <5>3. QED
          BY <5>1, <5>2 DEF AtWork, Halfway, At
      <4>3. QED
        BY <4>1, <4>2
    <3>2. ASSUME NEW n \in k + 1 .. d  PROVE ~AboutApp(n)
      <4>1. n \in Deliveries /\ n > k /\ (n = d \/ n < d)
        BY <1>2
      <4>2. CASE n = d
        BY <4>2 DEF StillGranted
      <4>3. CASE n < d
        <5>1. AboutApp(n) => At(n, "sent") /\ At(n, "ok")
          BY <4>1, <4>3, <1>1 DEF Mirrored, Frontier, MirrorInv, InOrder
        <5>2. QED
          BY <5>1 DEF At
      <4>4. QED
        BY <4>1, <4>2, <4>3
    <3>3. h[k] = h[d]
      <4>1. d \in 0 .. Len(deliveries) /\ k <= d
        BY <1>2, <2>1
      <4>2. QED
        BY <1>1, <3>2, <4>1 DEF Mirrored, Quiet
    <3>4. d \in d .. Len(deliveries)
      BY <1>2
    <3>5. repo \in h[k].selected /\ EnabledRepos \subseteq PresentRepos
      BY <1>3, <3>3, <3>4 DEF Grants, EnabledRepos, PresentRepos
    <3>6. QED
      BY <1>3, <3>1, <3>3, <3>4, <3>5 DEF Settled
  <2>2. CASE ~(k < d)
    <3>1. k # d /\ k \in Deliveries /\ AboutApp(k) /\ ~At(k, "sent")
          /\ AtWork(k, h[k - 1], h[k])
      <4>1. k # 0
        BY <1>2, <2>2
      <4>2. QED
        BY <1>1, <4>1 DEF Mirrored, Frontier, Tables, StillGranted
    <3>2. k \in d .. Len(deliveries) /\ k - 1 \in d .. Len(deliveries)
      BY <1>2, <2>2, <3>1
    <3>3. PICK a, b : a = h[k - 1] /\ b = h[k]
      OBVIOUS
    <3>4. /\ a.installation = github.installation /\ Grants(a, repo)
          /\ b.installation = github.installation /\ Grants(b, repo)
      BY <1>3, <3>2, <3>3
    <3>5. Shows(a) \/ Shows(b)
      BY <3>1, <3>3, ShowsOne
    <3>6. repo \in PresentRepos
      BY <3>1, <3>3, <3>4 DEF AtWork, Halfway, Grants
    <3>7. QED
      BY <3>4, <3>5, <3>6
  <2>3. QED
    BY <2>1, <2>2
<1>5. Grants(Current, repo)
  <2>1. Len(deliveries) \in d .. Len(deliveries) /\ h[Len(deliveries)] = Current
    BY <1>1, <1>2 DEF Mirrored, History
  <2>2. QED
    BY <1>3, <2>1
<1>6. PICK a : /\ Shows(a) /\ a.installation = github.installation /\ Grants(a, repo)
               /\ repo \in PresentRepos
  BY <1>4
<1>7. github.installation \in Installations /\ Enabled = {github.installation}
  BY <1>2, <1>6 DEF Shows, Grants, Enabled
<1>8. QED
  BY <1>5, <1>6, <1>7 DEF Accepts, Grants, Current, Shows, PresentRepos

(* A handler that fails for want of a row or for GitHub's refusal has lost *)
(* its access on the way.                                                  *)
LEMMA PushFailsForCause ==
  ASSUME WebhookOK, ProgressInv, MirrorInv, orderly, NEW d \in Deliveries, PushStep(d),
         deliveries[d].event.type # "fork", deliveries'[d].step = "error"
  PROVE  \/ deliveries'[d].cause \in {"devenv_nix", "yaml"}
         \/ deliveries[d].changes < github.changes
<1>1. /\ ~AboutApp(d) /\ ~At(d, "sent") /\ deliveries \in Seq(Handlers)
      /\ d \in 1 .. MaxDeliveries /\ jobs \in [1 .. MaxDeliveries -> Seq(JobRows)]
  BY PushTypes, JobsTyped DEF At, PushSteps
<1>2. /\ deliveries[d].changes \in Nat /\ github.changes \in Nat
      /\ deliveries[d].changes <= github.changes
  BY EventAt DEF WebhookOK, HandlersOK, Handlers, GithubOK, GitHubs
<1>3. CASE ~StillGranted(d)
  BY <1>1, <1>2, <1>3 DEF StillGranted
<1>4. CASE StillGranted(d)
  <2>1. /\ owner /\ Enabled # {} /\ repos[deliveries[d].event.repo] # "absent"
        /\ \A i \in Enabled : Accepts(i, deliveries[d].event.repo)
    BY <1>1, <1>4, PushFinds
  <2>2. ~FindOwner(d)
    BY <1>1, <2>1, FindingOwner DEF Keeps, Becomes
  <2>3. FindInstallation(d) => deliveries'[d].cause = "devenv_nix"
    BY <1>1, <2>1, FindingInstallation DEF Keeps, Fails, Becomes
  <2>4. ~CreateCommit(d)
    BY <1>1, <2>1, CreatingCommit DEF Keeps, Becomes
  <2>5. FetchDevenvYaml(d) => deliveries'[d].cause = "yaml"
    BY <1>1, FetchingDevenvYaml DEF Fails, Becomes
  <2>6. ~NewJob(d)
    BY <1>1, CreatingJob DEF Keeps, Becomes
  <2>7. ~CreateCheckRun(d)
    <3>1. CreateCheckRun(d) => jobs[d] # <<>>
      BY DEF CreateCheckRun, ProgressInv, Progress, At
    <3>2. QED
      BY <1>1, <2>1, <3>1, CreatingCheckRun DEF Keeps, Becomes
  <2>8. ~InsertJob(d)
    <3>1. InsertJob(d) => jobs[d] # <<>> /\ deliveries[d].vms # <<>>
      BY DEF InsertJob, ProgressInv, Progress, At
    <3>2. QED
      BY <1>1, <3>1, InsertingJob DEF Becomes
  <2>9. QED
    BY <2>2, <2>3, <2>4, <2>5, <2>6, <2>7, <2>8 DEF PushStep
<1>5. QED
  BY <1>3, <1>4

(* The handler of d moves, and if it fails there is an excuse.             *)
LEMMA MovesExcused ==
  ASSUME WebhookOK, PushSucceeds, NEW d \in Deliveries, Moves(d), github' = github,
         orderly' => orderly,
         orderly /\ ~AboutApp(d) /\ deliveries[d].event.type # "fork"
             /\ deliveries'[d].step = "error" =>
           \/ deliveries'[d].cause \in {"fault", "devenv_nix", "yaml"}
           \/ deliveries[d].changes < github.changes
  PROVE  PushSucceeds'
<1> SUFFICES ASSUME NEW e \in Deliveries', orderly', ~AboutApp(e)', At(e, "error")',
                    deliveries'[e].event.type # "fork"
             PROVE  \/ deliveries'[e].cause \in {"fault", "devenv_nix", "yaml"}
                    \/ deliveries'[e].changes < github'.changes
  BY DEF PushSucceeds
<1>1. /\ e \in Deliveries /\ orderly
      /\ deliveries'[e].event = deliveries[e].event
      /\ deliveries'[e].changes = deliveries[e].changes
  BY DEF Moves, Deliveries, WebhookOK, HandlersOK
<1>2. ~AboutApp(e)
  BY <1>1 DEF AboutApp
<1>3. CASE e = d
  BY <1>1, <1>2, <1>3 DEF At
<1>4. CASE e # d
  <2>1. deliveries'[e] = deliveries[e]
    BY <1>1, <1>4 DEF Moves
  <2>2. QED
    BY <1>1, <1>2, <2>1 DEF PushSucceeds, At
<1>5. QED
  BY <1>3, <1>4

(* GitHub sends deliveries; what had been taken away stays counted.        *)
LEMMA SendsExcused ==
  ASSUME WebhookOK, PushSucceeds, orderly' => orderly,
         deliveries' \in Seq(Handlers), Len(deliveries') >= Len(deliveries),
         \A d \in Deliveries : deliveries'[d] = deliveries[d],
         \A d \in Len(deliveries) + 1 .. Len(deliveries') : deliveries'[d].step = "sent",
         github'.changes \in Nat, github'.changes >= github.changes
  PROVE  PushSucceeds'
<1> SUFFICES ASSUME NEW e \in Deliveries', orderly', ~AboutApp(e)', At(e, "error")',
                    deliveries'[e].event.type # "fork"
             PROVE  \/ deliveries'[e].cause \in {"fault", "devenv_nix", "yaml"}
                    \/ deliveries'[e].changes < github'.changes
  BY DEF PushSucceeds
<1>1. /\ Len(deliveries) \in Nat /\ Deliveries = 1 .. Len(deliveries)
      /\ Deliveries' = 1 .. Len(deliveries') /\ Len(deliveries') \in Nat
  BY DEF WebhookOK, HandlersOK, Deliveries
<1>2. e \notin Len(deliveries) + 1 .. Len(deliveries')
  BY DEF At
<1>3. e \in Deliveries
  BY <1>1, <1>2
<1>4. /\ deliveries'[e] = deliveries[e] /\ ~AboutApp(e) /\ At(e, "error")
      /\ deliveries[e].event.type # "fork"
  BY <1>3 DEF AboutApp, At
<1>5. \/ deliveries[e].cause \in {"fault", "devenv_nix", "yaml"}
      \/ deliveries[e].changes < github.changes
  BY <1>3, <1>4 DEF PushSucceeds
<1>6. deliveries[e].changes \in Nat /\ github.changes \in Nat
  BY <1>3, EventAt DEF Handlers, WebhookOK, GithubOK, GitHubs
<1>7. QED
  BY <1>4, <1>5, <1>6

LEMMA GithubExcused ==
  ASSUME WebhookOK, PushSucceeds,
         \/ Install \/ Uninstall \/ Suspend
         \/ \E r \in Repos : SelectRepo(r) \/ Push(r) \/ PushToFork(r)
  PROVE  PushSucceeds'
<1>1. deliveries \in Seq(Handlers) /\ github \in GitHubs /\ github.changes \in Nat
  BY DEF WebhookOK, HandlersOK, GithubOK, GitHubs
<1>2. ASSUME NEW events, Len(events) \in Nat, Sends(events),
             github'.changes >= github.changes
      PROVE  PushSucceeds'
  <2>1. /\ deliveries' \in Seq(Handlers)
        /\ Len(deliveries') = Len(deliveries) + Len(events)
        /\ \A d \in Deliveries : deliveries'[d] = deliveries[d]
        /\ orderly' = orderly /\ github'.changes \in Nat
        /\ \A k \in 1 .. Len(events) : deliveries'[Len(deliveries) + k].step = "sent"
    BY <1>2 DEF Sends, Fresh, GitHubs
  <2>2. Len(deliveries) \in Nat
    BY <1>1
  <2>3. ASSUME NEW d \in Len(deliveries) + 1 .. Len(deliveries')
        PROVE  deliveries'[d].step = "sent"
    <3>1. d - Len(deliveries) \in 1 .. Len(events) /\ Len(deliveries) + (d - Len(deliveries)) = d
      BY <1>2, <2>1, <2>2
    <3>2. QED
      BY <2>1, <3>1
  <2>4. Len(deliveries') >= Len(deliveries)
    BY <1>2, <2>1, <2>2
  <2>5. QED
    BY <1>2, <2>1, <2>3, <2>4, SendsExcused
<1>3. CASE Install
  <2>1. PICK event : Sends(<<event>>) /\ github'.changes = github.changes
    BY <1>1, <1>3, Installing
  <2>2. QED
    BY <1>1, <1>2, <2>1
<1>4. CASE Uninstall
  <2>1. PICK event : Sends(<<event>>) /\ github'.changes = github.changes + 1
    BY <1>1, <1>4, Uninstalling
  <2>2. QED
    BY <1>1, <1>2, <2>1
<1>5. CASE Suspend
  <2>1. PICK event : Sends(<<event>>) /\ github'.changes = github.changes + 1
    BY <1>1, <1>5, Suspending
  <2>2. QED
    BY <1>1, <1>2, <2>1
<1>6. ASSUME NEW r \in Repos, SelectRepo(r)  PROVE PushSucceeds'
  <2>1. PICK event :
          /\ Sends(<<event>>)
          /\ github'.changes = github.changes + (IF r \in github.selected THEN 1 ELSE 0)
    BY <1>1, <1>6, Selecting
  <2>2. QED
    BY <1>1, <1>2, <2>1
<1>7. ASSUME NEW r \in Repos, Push(r)  PROVE PushSucceeds'
  <2>1. PICK events \in Seq(Events) : Sends(events) /\ github'.changes = github.changes
    BY <1>1, <1>7, Pushing
  <2>2. Len(events) \in Nat
    OBVIOUS
  <2>3. QED
    BY <1>1, <1>2, <2>1, <2>2
<1>8. ASSUME NEW r \in Repos, PushToFork(r)  PROVE PushSucceeds'
  <2>1. PICK event : Sends(<<event>>) /\ github'.changes = github.changes
    BY <1>1, <1>8, PushingToFork
  <2>2. QED
    BY <1>1, <1>2, <2>1
<1>9. QED
  BY <1>3, <1>4, <1>5, <1>6, <1>7, <1>8

LEMMA PushSucceedsStep ==
  ASSUME WebhookOK, ProgressInv, MirrorInv, PushSucceeds, [Next]_vars
  PROVE  PushSucceeds'
<1>1. CASE \/ Install \/ Uninstall \/ Suspend
           \/ \E r \in Repos : SelectRepo(r) \/ Push(r) \/ PushToFork(r)
  BY <1>1, GithubExcused
<1>2. ASSUME NEW d \in Deliveries, Redeliver(d)  PROVE PushSucceeds'
  <2>1. /\ deliveries' \in Seq(Handlers) /\ Len(deliveries') = Len(deliveries) + 1
        /\ \A e \in Deliveries : deliveries'[e] = deliveries[e]
        /\ deliveries'[Len(deliveries) + 1].step = "sent"
        /\ orderly' = (orderly /\ ~AboutApp(d)) /\ github' = github
    BY <1>2, Redelivering DEF Fresh
  <2>2. Len(deliveries) \in Nat /\ github.changes \in Nat /\ orderly \in BOOLEAN
    BY DEF WebhookOK, HandlersOK, TablesOK, GithubOK, GitHubs
  <2>3. ASSUME NEW e \in Len(deliveries) + 1 .. Len(deliveries')
        PROVE  deliveries'[e].step = "sent"
    <3>1. e = Len(deliveries) + 1
      BY <2>1, <2>2
    <3>2. QED
      BY <2>1, <3>1
  <2>4. orderly' => orderly
    BY <2>1, <2>2
  <2>5. Len(deliveries') >= Len(deliveries) /\ github'.changes >= github.changes
    BY <2>1, <2>2
  <2>6. QED
    BY <2>1, <2>2, <2>3, <2>4, <2>5, SendsExcused
<1>3. ASSUME NEW d \in Deliveries, Interrupt(d)  PROVE PushSucceeds'
  <2>1. Fails(d, "fault") /\ github' = github /\ orderly' = orderly
    BY <1>3, Interrupting
  <2>2. Moves(d) /\ deliveries'[d].cause = "fault"
    BY <2>1 DEF Fails, Becomes
  <2>3. QED
    BY <2>1, <2>2, MovesExcused
<1>4. ASSUME NEW d \in Deliveries, Begin(d)  PROVE PushSucceeds'
  <2>1. /\ github' = github
        /\ orderly' = (orderly /\ \A e \in 1 .. d - 1 : AboutApp(e) => At(e, "ok"))
        /\ orderly \in BOOLEAN
    BY <1>4 DEF Begin, outside, WebhookOK, TablesOK
  <2>2. Becomes(d, FirstStep(deliveries[d].event.type), FirstTodo(d), deliveries[d].vms,
                deliveries[d].cause)
    BY <1>4, JobsTyped, Beginning
  <2>3. Moves(d) /\ deliveries'[d].step # "error"
    BY <2>2 DEF Becomes, FirstStep
  <2>4. QED
    BY <2>1, <2>3, MovesExcused
<1>5. ASSUME NEW d \in Deliveries, AppStep(d)  PROVE PushSucceeds'
  <2>1. Moves(d) /\ AboutApp(d)
    BY <1>5, AppStepKeeps, AppTypes DEF AboutApp
  <2>2. github' = github /\ orderly' = orderly
    BY <1>5 DEF AppStep, UpsertOwner, UpsertInstallation, UpsertRepo, DisableInstallation,
                AddRepo, RemoveRepo, outside
  <2>3. QED
    BY <2>1, <2>2, MovesExcused
<1>6. ASSUME NEW d \in Deliveries, PushStep(d)  PROVE PushSucceeds'
  <2>1. Moves(d)
    BY <1>6, LookupKeeps, FetchKeeps, NewJobKeeps, CheckRunKeeps, InsertKeeps DEF PushStep
  <2>2. github' = github /\ orderly' = orderly
    BY <1>6, PushLeaves
  <2>3. orderly /\ deliveries[d].event.type # "fork" /\ deliveries'[d].step = "error" =>
          \/ deliveries'[d].cause \in {"devenv_nix", "yaml"}
          \/ deliveries[d].changes < github.changes
    BY <1>6, PushFailsForCause
  <2>4. QED
    BY <2>1, <2>2, <2>3, MovesExcused
<1>7. CASE UNCHANGED vars
  BY <1>7 DEF vars, PushSucceeds, Deliveries, AboutApp, At
<1>8. QED
  BY <1>1, <1>2, <1>3, <1>4, <1>5, <1>6, <1>7 DEF Next, Handle, AppStep, PushStep

(* webhook of serve.rs, push and synchronize (294-475): the lookup of the  *)
(* owner, get_for_owner_id and the repository's row never fail a push, or  *)
(* the synchronize of a pull request that is not from a fork, while the    *)
(* events about the app are handled in order and nobody has taken access   *)
(* away since, however the statements of the handlers interleave.          *)
THEOREM PushesSucceed == Spec => []PushSucceeds
<1>1. Init => PushSucceeds
  BY DEF Init, PushSucceeds, Deliveries
<1>2. QED
  BY <1>1, PushSucceedsStep, WebhookInvariant, MirrorInvariant, PTL DEF Spec

=============================================================================
