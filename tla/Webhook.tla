------------------------------- MODULE Webhook -------------------------------
(***************************************************************************)
(* The backend's webhook and the tables it keeps of GitHub: the owner, its *)
(* installations of the app, their repositories, the commits pushed and    *)
(* the jobs created for them.  One owner.                                  *)
(*                                                                         *)
(* A delivery is handled by a task of its own, and its statements are not  *)
(* in a transaction: each is a step, those of several deliveries           *)
(* interleave, and a handler that fails leaves what it has done.  GitHub   *)
(* does not wait for one answer before it sends the next delivery, does    *)
(* not retry one that failed, and repeats one when asked to.               *)
(***************************************************************************)
EXTENDS CloudConfig, FiniteSets, SequencesExt

CONSTANTS
  Installations,   (* installation ids; each time the app is installed a new one *)
  Repos,
  Clouds,          (* what the devenv.yaml of a revision may say *)
  MaxEvents,       (* bound: deliveries of new events *)
  MaxRevs,         (* bound: revisions pushed *)
  MaxMishaps       (* bound: deliveries repeated, handlers interrupted, and calls
                      of GitHub that fail *)

ASSUME WebhookAssumption ==
  {MaxEvents, MaxRevs, MaxMishaps} \subseteq Nat /\ Clouds \subseteq Configs

None == "none"

(* Installation ids are numbers in the code.                               *)
ASSUME NoInstallationAssumption == None \notin Installations

VARIABLES
  github,         (* what is true on GitHub *)
  owner,          (* the owner has its row *)
  installations,  (* the row of each installation, if any *)
  repos,          (* the row of each repository, if any *)
  commits,        (* the deliveries that have a row in github_commit *)
  jobs,           (* the rows of jobs of each delivery, oldest first *)
  deliveries,     (* every delivery, with the state of its handler *)
  orderly,        (* history: the app's deliveries were handled in order *)
  mishaps

tableVars == <<owner, installations, repos, commits, jobs>>
vars == <<github, tableVars, deliveries, orderly, mishaps>>

RowStates == {"absent", "enabled", "disabled"}
Revs == 1 .. MaxRevs
Deliveries == DOMAIN deliveries
MaxDeliveries == MaxEvents + MaxMishaps

(* What a handler is about to do.                                          *)
Steps == {"sent", "upsert_owner", "upsert_installation", "upsert_repos", "disable",
          "add_repos", "remove_repos", "find_owner", "find_installation",
          "create_commit", "fetch_devenv_yaml", "new_job", "check_run", "insert_job",
          "ok", "error"}
Answered == {"ok", "error"}

(* Events about the app itself; the others are about revisions.            *)
AppEvents == {"created", "deleted", "suspend", "unsuspend", "repositories"}

AboutApp(d) == deliveries[d].event.type \in AppEvents

TypeOK ==
  /\ github.installation \in Installations \cup {None}
  /\ github.suspended \in BOOLEAN /\ github.selected \subseteq Repos
  /\ installations \in [Installations -> RowStates] /\ repos \in [Repos -> RowStates]
  /\ (\E i \in Installations : installations[i] # "absent") => owner
  /\ (\E r \in Repos : repos[r] # "absent") => owner
  /\ commits \subseteq Deliveries
  /\ \A d \in commits :
       deliveries[d].event.rev \in Revs /\ repos[deliveries[d].event.repo] # "absent"
  /\ \A d \in DOMAIN jobs : jobs[d] # <<>> => d \in commits
  /\ \A d \in Deliveries : deliveries[d].step \in Steps
  /\ mishaps \in 0 .. MaxMishaps

Init ==
  /\ github = [installation |-> None, suspended |-> FALSE, selected |-> {},
               used |-> {}, revs |-> <<>>, events |-> 0, changes |-> 0]
  /\ owner = FALSE
  /\ installations = [i \in Installations |-> "absent"]
  /\ repos = [r \in Repos |-> "absent"]
  /\ commits = {} /\ jobs = [d \in 1 .. MaxDeliveries |-> <<>>] /\ deliveries = <<>>
  /\ orderly = TRUE /\ mishaps = 0

(***************************************************************************)
(* GitHub.                                                                 *)
(***************************************************************************)

(* todo and vms are what the handler has left to do; changes is how often  *)
(* the app's access had been taken away when the event happened.           *)
Delivery(event) ==
  [event |-> event, step |-> "sent", todo |-> {}, vms |-> <<>>, cause |-> None,
   changes |-> github.changes]

Emit(events, changed) ==
  /\ github.events + Len(events) <= MaxEvents
  /\ github' = [changed EXCEPT !.events = @ + Len(events)]
  /\ deliveries' = deliveries \o [k \in DOMAIN events |-> Delivery(events[k])]
  /\ UNCHANGED <<tableVars, orderly, mishaps>>

Install ==
  \E i \in Installations \ github.used, selected \in SUBSET Repos \ {{}} :
    /\ github.installation = None
    /\ Emit(<<[type |-> "created", installation |-> i, repos |-> selected]>>,
            [github EXCEPT !.installation = i, !.suspended = FALSE,
                           !.selected = selected, !.used = @ \cup {i}])

Uninstall ==
  /\ github.installation # None
  /\ Emit(<<[type |-> "deleted", installation |-> github.installation]>>,
          [github EXCEPT !.installation = None, !.selected = {}, !.changes = @ + 1])

Suspend ==
  /\ github.installation # None
  /\ Emit(<<[type |-> IF github.suspended THEN "unsuspend" ELSE "suspend",
             installation |-> github.installation]>>,
          [github EXCEPT !.suspended = ~@, !.changes = @ + 1])

(* The owner adds a repository to the installation or takes it away.       *)
SelectRepo(r) ==
  /\ github.installation # None /\ ~github.suspended
  /\ Emit(<<[type |-> "repositories", installation |-> github.installation,
             added |-> {r} \ github.selected, removed |-> {r} \cap github.selected]>>,
          [github EXCEPT !.selected = (@ \ {r}) \cup ({r} \ @),
                         !.changes = @ + (IF r \in github.selected THEN 1 ELSE 0)])

(* What the branch that was pushed to holds now.                           *)
BranchHead(r) == CHOOSE n \in DOMAIN github.revs :
  /\ github.revs[n].repo = r
  /\ \A m \in DOMAIN github.revs : github.revs[m].repo = r => m <= n

(* A push to a branch; if a pull request is open for it, a synchronize too.*)
Push(r) ==
  \E cloud \in Clouds :
    LET rev == Len(github.revs) + 1
        event(type) == [type |-> type, repo |-> r, rev |-> rev]
        pushed == [github EXCEPT !.revs = Append(@, [repo |-> r, cloud |-> cloud])]
    IN
    /\ github.installation # None /\ ~github.suspended /\ r \in github.selected
    /\ rev \in Revs
    /\ \/ Emit(<<event("push")>>, pushed)
       \/ Emit(<<event("push"), event("synchronize")>>, pushed)

(* A synchronize too, when somebody who has not installed the app pushes   *)
(* to a fork from which a pull request is open; repo and rev are its base. *)
PushToFork(r) ==
  \E rev \in DOMAIN github.revs :
    /\ github.installation # None /\ ~github.suspended /\ r \in github.selected
    /\ github.revs[rev].repo = r /\ rev = BranchHead(r)
    /\ Emit(<<[type |-> "fork", repo |-> r, rev |-> rev]>>, github)

(* Somebody asks GitHub to deliver an event again.                         *)
Redeliver(d) ==
  /\ deliveries[d].step \in Answered
  /\ mishaps < MaxMishaps /\ mishaps' = mishaps + 1
  /\ deliveries' = Append(deliveries,
       [Delivery(deliveries[d].event) EXCEPT !.changes = deliveries[d].changes])
  /\ orderly' = (orderly /\ ~AboutApp(d))
  /\ UNCHANGED <<github, tableVars>>

(***************************************************************************)
(* The handler of a delivery, statement by statement.                      *)
(***************************************************************************)

At(d, step) == deliveries[d].step = step

Set(d, handler) == deliveries' = [deliveries EXCEPT ![d] = handler]
Goto(d, step) == Set(d, [deliveries[d] EXCEPT !.step = step])
Fail(d, cause) ==
  Set(d, [deliveries[d] EXCEPT !.step = "error", !.cause = cause, !.todo = {}, !.vms = <<>>])

outside == <<github, mishaps>>

(* webhook, up to the match on the event.                                  *)
Begin(d) ==
  LET event == deliveries[d].event IN
  /\ At(d, "sent")
  /\ orderly' = (orderly /\ \A e \in 1 .. d - 1 : AboutApp(e) => At(e, "ok"))
  /\ Set(d, CASE event.type = "created" ->
                   [deliveries[d] EXCEPT !.step = "upsert_owner", !.todo = event.repos]
              [] event.type = "repositories" ->
                   [deliveries[d] EXCEPT !.step = "add_repos", !.todo = event.added]
              [] event.type \in {"deleted", "suspend", "unsuspend"} ->
                   [deliveries[d] EXCEPT !.step = "disable"]
              [] OTHER -> [deliveries[d] EXCEPT !.step = "find_owner"])
  /\ UNCHANGED <<tableVars, outside>>

UpsertOwner(d) ==
  /\ At(d, "upsert_owner")
  /\ owner' = TRUE /\ Goto(d, "upsert_installation")
  /\ UNCHANGED <<installations, repos, commits, jobs, orderly, outside>>

UpsertInstallation(d) ==
  /\ At(d, "upsert_installation")
  /\ installations' = [installations EXCEPT ![deliveries[d].event.installation] = "enabled"]
  /\ Goto(d, "upsert_repos")
  /\ UNCHANGED <<owner, repos, commits, jobs, orderly, outside>>

(* Mutant of UpsertRepo: the update without the insert.                    *)
UpdateRepo(d) ==
  /\ At(d, "upsert_repos")
  /\ \/ /\ deliveries[d].todo = {} /\ Goto(d, "ok") /\ UNCHANGED repos
     \/ \E r \in deliveries[d].todo :
          /\ repos' = [repos EXCEPT ![r] = IF @ = "absent" THEN @ ELSE "enabled"]
          /\ Set(d, [deliveries[d] EXCEPT !.todo = @ \ {r}])
  /\ UNCHANGED <<owner, installations, commits, jobs, orderly, outside>>

(* GitHubRepo::upsert for one repository after another.                    *)
UpsertRepo(d) ==
  /\ At(d, "upsert_repos")
  /\ \/ /\ deliveries[d].todo = {} /\ Goto(d, "ok") /\ UNCHANGED repos
     \/ \E r \in deliveries[d].todo :
          /\ repos' = [repos EXCEPT ![r] = "enabled"]
          /\ Set(d, [deliveries[d] EXCEPT !.todo = @ \ {r}])
  /\ UNCHANGED <<owner, installations, commits, jobs, orderly, outside>>

(* Mutant of DisableInstallation: it is enabled again whatever the event.  *)
EnableInstallation(d) ==
  LET i == deliveries[d].event.installation IN
  /\ At(d, "disable")
  /\ installations' = [installations EXCEPT ![i] = IF @ = "absent" THEN @ ELSE "enabled"]
  /\ Goto(d, "ok")
  /\ UNCHANGED <<owner, repos, commits, jobs, orderly, outside>>

(* GithubInstallation::disable; no error when there is no such row.        *)
DisableInstallation(d) ==
  LET i == deliveries[d].event.installation IN
  /\ At(d, "disable")
  /\ installations' = [installations EXCEPT ![i] =
       IF @ = "absent" THEN @
       ELSE IF deliveries[d].event.type = "unsuspend" THEN "enabled" ELSE "disabled"]
  /\ Goto(d, "ok")
  /\ UNCHANGED <<owner, repos, commits, jobs, orderly, outside>>

(* Mutant of AddRepo: the owner's row is not needed.                       *)
AddRepoUnowned(d) ==
  /\ At(d, "add_repos")
  /\ \/ /\ deliveries[d].todo = {}
        /\ Set(d, [deliveries[d] EXCEPT !.step = "remove_repos",
                                        !.todo = deliveries[d].event.removed])
        /\ UNCHANGED repos
     \/ \E r \in deliveries[d].todo :
          /\ repos' = [repos EXCEPT ![r] = "enabled"]
          /\ Set(d, [deliveries[d] EXCEPT !.todo = @ \ {r}])
  /\ UNCHANGED <<owner, installations, commits, jobs, orderly, outside>>

(* create_from_webhook; a new row needs its owner's (foreign key).         *)
AddRepo(d) ==
  /\ At(d, "add_repos")
  /\ \/ /\ deliveries[d].todo = {}
        /\ Set(d, [deliveries[d] EXCEPT !.step = "remove_repos",
                                        !.todo = deliveries[d].event.removed])
        /\ UNCHANGED repos
     \/ \E r \in deliveries[d].todo :
          IF owner
          THEN /\ repos' = [repos EXCEPT ![r] = "enabled"]
               /\ Set(d, [deliveries[d] EXCEPT !.todo = @ \ {r}])
          ELSE Fail(d, "row") /\ UNCHANGED repos
  /\ UNCHANGED <<owner, installations, commits, jobs, orderly, outside>>

(* GitHubRepo::disable; no error when there is no such row.                *)
RemoveRepo(d) ==
  /\ At(d, "remove_repos")
  /\ \/ deliveries[d].todo = {} /\ Goto(d, "ok") /\ UNCHANGED repos
     \/ \E r \in deliveries[d].todo :
          /\ repos' = [repos EXCEPT ![r] = IF @ = "absent" THEN @ ELSE "disabled"]
          /\ Set(d, [deliveries[d] EXCEPT !.todo = @ \ {r}])
  /\ UNCHANGED <<owner, installations, commits, jobs, orderly, outside>>

(***************************************************************************)
(* push and synchronize.                                                   *)
(***************************************************************************)

Enabled == {i \in Installations : installations[i] = "enabled"}

(* The app may act on the repository with the installation's token.        *)
Accepts(i, r) ==
  github.installation = i /\ ~github.suspended /\ r \in github.selected

(* A push is looked up by the id of the repository's owner, a synchronize  *)
(* by the login of the owner of the head: who owns a fork has no row.      *)
FindOwner(d) ==
  /\ At(d, "find_owner")
  /\ IF owner /\ deliveries[d].event.type # "fork"
     THEN Goto(d, "find_installation")
     ELSE Fail(d, "row")
  /\ UNCHANGED <<tableVars, orderly, outside>>

(* get_for_owner_id takes any installation that is not disabled, and       *)
(* devenv.nix is looked for on the branch with its token.  GitHub answers  *)
(* with the file, so that the answer is never empty, or with a 404 that    *)
(* fails the handler, when the branch does not have it or is gone.         *)
FindInstallation(d) ==
  /\ At(d, "find_installation")
  /\ \/ Enabled = {} /\ Fail(d, "row")
     \/ \E i \in Enabled :
          IF Accepts(i, deliveries[d].event.repo)
          THEN Goto(d, "create_commit") \/ Fail(d, "devenv_nix")
          ELSE Fail(d, "github")
  /\ UNCHANGED <<tableVars, orderly, outside>>

(* A row for every delivery: nothing says that (repo, rev) is unique.      *)
CreateCommit(d) ==
  /\ At(d, "create_commit")
  /\ IF repos[deliveries[d].event.repo] # "absent"
     THEN commits' = commits \cup {d} /\ Goto(d, "fetch_devenv_yaml")
     ELSE Fail(d, "row") /\ UNCHANGED commits
  /\ UNCHANGED <<owner, installations, repos, jobs, orderly, outside>>

(* devenv.yaml is read from the branch, whose head may be another revision *)
(* by now; if it cannot be read, it counts as empty.                       *)
FetchDevenvYaml(d) ==
  /\ At(d, "fetch_devenv_yaml")
  /\ \E failed \in BOOLEAN :
       LET cloud == IF failed THEN NoCloud
                    ELSE github.revs[BranchHead(deliveries[d].event.repo)].cloud IN
       /\ failed => mishaps < MaxMishaps
       /\ mishaps' = mishaps + (IF failed THEN 1 ELSE 0)
       /\ IF Parses(cloud)
          THEN Set(d, [deliveries[d] EXCEPT !.step = "new_job", !.vms = FinalCloud(cloud)])
          ELSE Fail(d, "yaml")
  /\ UNCHANGED <<tableVars, orderly, github>>

(* What create_job has done for the newest job of the delivery.            *)
Advance(d, field) == jobs' = [jobs EXCEPT ![d][Len(jobs[d])][field] = TRUE]

(* The loop over the VMs: Job::new for the next one.                       *)
NewJob(d) ==
  /\ At(d, "new_job")
  /\ IF deliveries[d].vms = <<>>
     THEN Goto(d, "ok") /\ UNCHANGED jobs
     ELSE /\ jobs' = [jobs EXCEPT ![d] = Append(@,
                        [vm |-> deliveries[d].vms[1], check |-> FALSE, row |-> FALSE])]
          /\ Goto(d, "check_run")
  /\ UNCHANGED <<owner, installations, repos, commits, orderly, outside>>

(* Mutant of CreateCheckRun: a refusal does not end the handler.           *)
CreateCheckRunOrGoOn(d) ==
  /\ At(d, "check_run")
  /\ \/ Enabled = {} /\ Fail(d, "row") /\ UNCHANGED jobs
     \/ \E i \in Enabled :
          /\ IF Accepts(i, deliveries[d].event.repo) THEN Advance(d, "check")
             ELSE UNCHANGED jobs
          /\ Goto(d, "insert_job")
  /\ UNCHANGED <<owner, installations, repos, commits, orderly, outside>>

(* The installation is looked up anew for every job.                       *)
CreateCheckRun(d) ==
  /\ At(d, "check_run")
  /\ \/ Enabled = {} /\ Fail(d, "row") /\ UNCHANGED jobs
     \/ \E i \in Enabled :
          IF Accepts(i, deliveries[d].event.repo)
          THEN Advance(d, "check") /\ Goto(d, "insert_job")
          ELSE Fail(d, "github") /\ UNCHANGED jobs
  /\ UNCHANGED <<owner, installations, repos, commits, orderly, outside>>

InsertJob(d) ==
  /\ At(d, "insert_job")
  /\ Advance(d, "row")
  /\ Set(d, [deliveries[d] EXCEPT !.step = "new_job", !.vms = Tail(@)])
  /\ UNCHANGED <<owner, installations, repos, commits, orderly, outside>>

(* A statement or a call of GitHub fails, or the backend stops.            *)
Interrupt(d) ==
  /\ deliveries[d].step \notin {"sent"} \cup Answered
  /\ mishaps < MaxMishaps /\ mishaps' = mishaps + 1
  /\ Fail(d, "fault")
  /\ UNCHANGED <<tableVars, orderly, github>>

Handle(d) ==
  \/ Begin(d)
  \/ UpsertOwner(d) \/ UpsertInstallation(d) \/ UpsertRepo(d)
  \/ DisableInstallation(d) \/ AddRepo(d) \/ RemoveRepo(d)
  \/ FindOwner(d) \/ FindInstallation(d) \/ CreateCommit(d) \/ FetchDevenvYaml(d)
  \/ NewJob(d) \/ CreateCheckRun(d) \/ InsertJob(d)

Next ==
  \/ Install \/ Uninstall \/ Suspend
  \/ \E r \in Repos : SelectRepo(r) \/ Push(r) \/ PushToFork(r)
  \/ \E d \in Deliveries : Redeliver(d) \/ Interrupt(d) \/ Handle(d)

Spec == Init /\ [][Next]_vars

(***************************************************************************)
(* Properties.                                                             *)
(***************************************************************************)

(* The configurations the handler of d may have read: of the revision it   *)
(* is about, of a later one of the branch, or none.                        *)
CloudsSeen(d) ==
  LET event == deliveries[d].event IN
  {NoCloud} \cup {github.revs[n].cloud :
     n \in {m \in event.rev .. Len(github.revs) : github.revs[m].repo = event.repo}}

VmsMade(d) == [k \in DOMAIN jobs[d] |-> jobs[d][k].vm]
Complete(job) == job.check /\ job.row

(* serve.rs:388-391, the loop over create_job.  When the handler has       *)
(* answered ok, the commit it inserted has one job for each VM of one      *)
(* configuration, each with its check run and its row in jobs_github.      *)
(* When it has failed, the jobs are those of the first VMs, and only the   *)
(* last of them, which then has no row, can be unfinished.                 *)
CommitGetsItsJobs ==
  \A d \in commits :
    /\ \A k \in 1 .. Len(jobs[d]) - 1 : Complete(jobs[d][k])
    /\ At(d, "error") /\ jobs[d] # <<>> =>
         \E cloud \in CloudsSeen(d) : IsPrefix(VmsMade(d), FinalCloud(cloud))
    /\ At(d, "ok") =>
         /\ \E cloud \in CloudsSeen(d) : VmsMade(d) = FinalCloud(cloud)
         /\ \A k \in DOMAIN jobs[d] : Complete(jobs[d][k])

(* get_owners_with_repos: a join, one row for each enabled installation    *)
(* and enabled repository.                                                 *)
OwnersWithRepos == {x \in Enabled \X Repos : repos[x[2]] = "enabled"}

(* While the deliveries about the app are handled one after the other in   *)
(* the order of the events, and with success, the page lists a repository  *)
(* at most once; and when they are all handled, the one installation that  *)
(* is enabled is the one on GitHub, and every repository it has is enabled *)
(* (serve.rs:221-293).                                                     *)
MirrorsGitHub ==
  orderly =>
    /\ \A x, y \in OwnersWithRepos : x[2] = y[2] => x = y
    /\ (\A d \in Deliveries : AboutApp(d) => At(d, "ok")) =>
         /\ Enabled = {i \in Installations :
                         i = github.installation /\ ~github.suspended}
         /\ \A r \in github.selected : repos[r] = "enabled"

(* Then a push to one of the repositories, and the synchronize of a pull   *)
(* request within it, that are not handled have another cause than our own *)
(* tables: an interruption, a branch without devenv.nix, a devenv.yaml     *)
(* that does not parse, or access that was taken away after the push       *)
(* (serve.rs:294-393).  Not so the synchronize of a pull request from a    *)
(* fork: it always fails, since the owner of the fork is not in the tables *)
(* (serve.rs:398-409).                                                     *)
PushSucceeds ==
  \A d \in Deliveries :
    orderly /\ ~AboutApp(d) /\ deliveries[d].event.type # "fork" /\ At(d, "error") =>
      \/ deliveries[d].cause \in {"fault", "devenv_nix", "yaml"}
      \/ deliveries[d].changes < github.changes

==============================================================================
