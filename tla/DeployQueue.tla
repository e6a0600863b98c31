----------------------------- MODULE DeployQueue -----------------------------
(***************************************************************************)
(* The background deploy queue of LinkHosting in production mode: the      *)
(* DeployJob rows in the database, the RQ queue "deploy" in Redis, the     *)
(* request handlers that insert and enqueue jobs, the single worker that   *)
(* runs app.jobs, the guard _active_deploy_job, and the panel's self-      *)
(* update, which recreates the worker and the panel.                       *)
(*                                                                         *)
(* A step of this module is what happens between two points at which       *)
(* another process can intervene: a committed transaction, a call to       *)
(* Redis, or a docker compose run.  Of what a job does to its site only    *)
(* the rebuild of the containers is kept, as the set built.                *)
(***************************************************************************)
EXTENDS Integers, Sequences

CONSTANTS
  Jobs,       \* identities of DeployJob rows; bounds the number of jobs ever created
  Sites,      \* compose-managed sites (WordPress and PL_CMS)
  CmsSites,   \* the PL_CMS ones, which alone can be updated
  Threads,    \* threads of the panel process that serve the REST API
  Panel,      \* the event loop of the same process: one /panel handler at a time
  NoJob, NoSite,
  Timeout,    \* settings.deploy_job_timeout_seconds, in ticks
  Grace,      \* how long after Timeout RQ's parent process kills the work horse
  Slack,      \* the 300 seconds _active_deploy_job adds to Timeout
  Events      \* what the environment may do in this instance

PossibleEvents ==
  {"redis",       \* Redis becomes unreachable and comes back
   "reply",       \* the push reaches Redis but the caller sees an exception
   "flush",       \* Redis restarts with an empty data set
   "db",          \* a database statement of the worker fails
   "paneldb",     \* a database statement of a request fails after the row was inserted
   "crash",       \* the worker dies in the middle of a job
   "delete",      \* a site is deleted
   "selfupdate"}  \* the administrator updates LinkHosting with rebuild_stack

ASSUME DeployQueueAssumption ==
  /\ CmsSites \subseteq Sites
  /\ NoJob \notin Jobs
  /\ NoSite \notin Sites
  /\ Panel \notin Threads
  /\ Timeout \in Nat \ {0} /\ Grace \in Nat /\ Slack \in Nat
  /\ Events \subseteq PossibleEvents

Requests == Threads \cup {Panel}

\* Mutant: the cutoff forgets the slack.
CutoffWithoutSlack == Timeout

\* The age beyond which _active_deploy_job skips a row; ages stop counting one tick later.
Cutoff == Timeout + Slack
TooOld == Cutoff + 1

VARIABLES
  sites,      \* the sites that have a row
  status, kind, siteOf, rqId, age,  \* the DeployJob rows; rqId: rq_job_id has been committed
  redis, queue, rq,                 \* Redis: reachable, the list "deploy", RQ's own job status
  wpc, wjob, ran, waited, alarm,  \* the worker: next step, job, ticks it ran and had waited, RQ's alarm
  hpc, hjob, hsite,                 \* each request handler: next step, its job, its site
  recreate,                         \* services docker compose has yet to recreate
  built                             \* the jobs that have rebuilt their site's containers

rowVars    == <<sites, status, kind, siteOf, rqId, age>>
redisVars  == <<redis, queue, rq>>
workerVars == <<wpc, wjob, ran, waited, alarm>>
reqVars    == <<hpc, hjob, hsite, recreate>>
vars       == <<rowVars, redisVars, workerVars, reqVars, built>>

Init ==
  /\ sites = Sites
  /\ status = [j \in Jobs |-> "none"]
  /\ kind = [j \in Jobs |-> "deploy"]
  /\ siteOf = [j \in Jobs |-> NoSite]
  /\ rqId = [j \in Jobs |-> "none"]
  /\ age = [j \in Jobs |-> 0]
  /\ redis = "up" /\ queue = <<>> /\ rq = [j \in Jobs |-> "unknown"]
  /\ wpc = "idle" /\ wjob = NoJob /\ ran = 0 /\ waited = 0 /\ alarm = "armed"
  /\ hpc = [a \in Requests |-> "idle"]
  /\ hjob = [a \in Requests |-> NoJob]
  /\ hsite = [a \in Requests |-> NoSite]
  /\ recreate = {}
  /\ built = {}

-----------------------------------------------------------------------------
(***************************************************************************)
(* The guard.                                                              *)
(***************************************************************************)

\* Mutant: a row without a queue id counts as dead.
RqJobIsAliveIfKnown(j) ==
  rqId[j] = "recorded" /\ (redis = "down" \/ rq[j] \in {"queued", "started"})

\* RQ still knows the job, or nobody can tell.
RqJobIsAlive(j) ==
  \/ rqId[j] = "none"
  \/ redis = "down"
  \/ rq[j] \in {"queued", "started"}

\* Mutant: without the cutoff.
ActiveAtAnyAge(j) == status[j] \in {"queued", "running"} /\ RqJobIsAlive(j)

\* The rows for which _active_deploy_job refuses an update or a restart.
Active(j) ==
  /\ status[j] \in {"queued", "running"}
  /\ age[j] <= Cutoff
  /\ RqJobIsAlive(j)

-----------------------------------------------------------------------------
(***************************************************************************)
(* Request handlers.                                                       *)
(***************************************************************************)

Finish(a) ==
  /\ hpc' = [hpc EXCEPT ![a] = "idle"]
  /\ hjob' = [hjob EXCEPT ![a] = NoJob]
  /\ hsite' = [hsite EXCEPT ![a] = NoSite]

\* INSERT and commit a queued row for site s.
InsertJob(a, s, k) ==
  \E j \in Jobs :
    /\ status[j] = "none"
    /\ status' = [status EXCEPT ![j] = "queued"]
    /\ kind' = [kind EXCEPT ![j] = k]
    /\ siteOf' = [siteOf EXCEPT ![j] = s]
    /\ hpc' = [hpc EXCEPT ![a] = "enqueue"]
    /\ hjob' = [hjob EXCEPT ![a] = j]
    /\ hsite' = [hsite EXCEPT ![a] = NoSite]
    /\ UNCHANGED <<sites, rqId, age>>

\* Deploying never consults the guard.
Deploy(a, s) ==
  /\ hpc[a] = "idle" /\ s \in sites
  /\ InsertJob(a, s, "deploy")
  /\ UNCHANGED <<recreate, redisVars, workerVars, built>>

CheckUpdate(s) ==
  /\ hpc[Panel] = "idle" /\ s \in sites \cap CmsSites
  /\ \A j \in Jobs : siteOf[j] = s => ~Active(j)
  /\ hpc' = [hpc EXCEPT ![Panel] = "insert"]
  /\ hsite' = [hsite EXCEPT ![Panel] = s]
  /\ UNCHANGED <<hjob, recreate, rowVars, redisVars, workerVars, built>>

\* The INSERT may fail, and does by the foreign key when the site went away after the check.
InsertUpdate ==
  /\ hpc[Panel] = "insert"
  /\ \/ hsite[Panel] \in sites /\ InsertJob(Panel, hsite[Panel], "update")
     \/ Finish(Panel) /\ UNCHANGED rowVars
  /\ UNCHANGED <<recreate, redisVars, workerVars, built>>

\* Mutant: a queue that holds a job is taken for an unavailable one.
CanPushIfEmpty(j) == redis = "up" /\ queue = <<>> /\ (kind[j] = "update" \/ status[j] # "deleted")

\* Choosing the runner of a deploy reads site.site_type, which fails once the site is gone.
CanPush(j) == redis = "up" /\ (kind[j] = "update" \/ status[j] # "deleted")

\* Mutant: the push goes to a queue that no worker listens to.
EnqueueElsewhere(a) ==
  /\ hpc[a] = "enqueue"
  /\ IF CanPush(hjob[a])
       THEN rq' = [rq EXCEPT ![hjob[a]] = "queued"] /\ hpc' = [hpc EXCEPT ![a] = "record"]
       ELSE hpc' = [hpc EXCEPT ![a] = "refused"] /\ UNCHANGED rq
  /\ UNCHANGED <<hjob, hsite, recreate, redis, queue, rowVars, workerVars, built>>

\* Mutant: a push that raised is tried again.
EnqueueAgain(a) ==
  /\ hpc[a] = "enqueue"
  /\ \/ /\ CanPush(hjob[a])
        /\ queue' = Append(queue, hjob[a])
        /\ rq' = [rq EXCEPT ![hjob[a]] = "queued"]
        /\ \/ hpc' = [hpc EXCEPT ![a] = "record"]
           \/ "reply" \in Events /\ UNCHANGED hpc
     \/ /\ ~CanPush(hjob[a])
        /\ hpc' = [hpc EXCEPT ![a] = "refused"]
        /\ UNCHANGED <<queue, rq>>
  /\ UNCHANGED <<hjob, hsite, recreate, redis, rowVars, workerVars, built>>

Enqueue(a) ==
  /\ hpc[a] = "enqueue"
  /\ \/ /\ CanPush(hjob[a])
        /\ queue' = Append(queue, hjob[a])
        /\ rq' = [rq EXCEPT ![hjob[a]] = "queued"]
        /\ \/ hpc' = [hpc EXCEPT ![a] = "record"]
           \/ "reply" \in Events /\ hpc' = [hpc EXCEPT ![a] = "refused"]
     \/ /\ ~CanPush(hjob[a])
        /\ hpc' = [hpc EXCEPT ![a] = "refused"]
        /\ UNCHANGED <<queue, rq>>
  /\ UNCHANGED <<hjob, hsite, recreate, redis, rowVars, workerVars, built>>

RecordId(a) ==
  /\ hpc[a] = "record"
  /\ rqId' = IF status[hjob[a]] = "deleted"
             THEN rqId ELSE [rqId EXCEPT ![hjob[a]] = "recorded"]
  /\ Finish(a)
  /\ UNCHANGED <<sites, status, kind, siteOf, age, recreate, redisVars, workerVars, built>>

\* After a failed push an update is marked failed; a deploy keeps its queued row.
GiveUp(a) ==
  /\ hpc[a] = "refused"
  /\ status' = IF kind[hjob[a]] = "update" /\ status[hjob[a]] # "deleted"
               THEN [status EXCEPT ![hjob[a]] = "failed"]
               ELSE status
  /\ Finish(a)
  /\ UNCHANGED <<sites, kind, siteOf, rqId, age, recreate, redisVars, workerVars, built>>

\* Reading the new row back, recording the queue's id or writing failed may itself fail: the
\* request ends with an error, and the row stays as it is.
RequestError(a) ==
  /\ "paneldb" \in Events
  /\ hpc[a] \in {"enqueue", "record", "refused"}
  /\ Finish(a)
  /\ UNCHANGED <<recreate, rowVars, redisVars, workerVars, built>>

\* The transaction that ends a site's deletion takes the rows of its jobs with it.
DeleteSite(a, s) ==
  /\ "delete" \in Events
  /\ hpc[a] = "idle" /\ s \in sites
  /\ sites' = sites \ {s}
  /\ status' = [j \in Jobs |-> IF siteOf[j] = s THEN "deleted" ELSE status[j]]
  /\ UNCHANGED <<kind, siteOf, rqId, age, redisVars, workerVars, reqVars, built>>

CheckSelfUpdate ==
  /\ "selfupdate" \in Events
  /\ hpc[Panel] = "idle" /\ recreate = {}
  /\ \A j \in Jobs : ~Active(j)
  /\ hpc' = [hpc EXCEPT ![Panel] = "pull"]
  /\ UNCHANGED <<hjob, hsite, recreate, rowVars, redisVars, workerVars, built>>

\* git pull ends; if it succeeded the updater starts to recreate the services.
LaunchRecreate ==
  /\ hpc[Panel] = "pull"
  /\ recreate' \in {{}, {"worker", "panel"}}
  /\ Finish(Panel)
  /\ UNCHANGED <<rowVars, redisVars, workerVars, built>>

\* The new panel process knows nothing of the requests the old one was serving.
RecreatePanel ==
  /\ "panel" \in recreate
  /\ recreate' = recreate \ {"panel"}
  /\ hpc' = [a \in Requests |-> "idle"]
  /\ hjob' = [a \in Requests |-> NoJob]
  /\ hsite' = [a \in Requests |-> NoSite]
  /\ UNCHANGED <<rowVars, redisVars, workerVars, built>>

-----------------------------------------------------------------------------
(***************************************************************************)
(* The worker.                                                             *)
(***************************************************************************)

Goto(pc) == wpc' = pc /\ UNCHANGED <<wjob, ran, waited, alarm>>

Idle ==
  /\ wpc' = "idle" /\ wjob' = NoJob
  /\ ran' = 0 /\ waited' = 0 /\ alarm' = "armed"

\* The job function returned or raised; RQ files the job if it can reach Redis.
EndJob(outcome) ==
  /\ Idle
  /\ rq' = IF redis = "up" /\ rq[wjob] = "started"
           THEN [rq EXCEPT ![wjob] = outcome]
           ELSE rq
  /\ UNCHANGED <<redis, queue>>

Verdict(v) == status' = [status EXCEPT ![wjob] = v]

RowGone == status[wjob] = "deleted"

Take ==
  /\ wpc = "idle" /\ redis = "up" /\ queue # <<>>
  /\ queue' = Tail(queue)
  /\ rq' = [rq EXCEPT ![Head(queue)] = "started"]
  /\ wpc' = "start" /\ wjob' = Head(queue)
  /\ ran' = 0 /\ waited' = age[Head(queue)] /\ alarm' = "armed"
  /\ UNCHANGED <<redis, rowVars, reqVars, built>>

\* Mutant: the job begins before its row says so.
StartWithoutRunning ==
  /\ wpc = "start"
  /\ IF RowGone
       THEN EndJob("finished")
       ELSE /\ Goto(IF kind[wjob] = "update" THEN "disk" ELSE "load")
            /\ UNCHANGED redisVars
  /\ UNCHANGED <<rowVars, reqVars, built>>

\* Look the job and its site up; without a row there is nothing to do.
Start ==
  /\ wpc = "start"
  /\ IF RowGone
       THEN EndJob("finished") /\ UNCHANGED status
       ELSE /\ Verdict("running")
            /\ Goto(IF kind[wjob] = "update" THEN "disk" ELSE "load")
            /\ UNCHANGED redisVars
  /\ UNCHANGED <<sites, kind, siteOf, rqId, age, reqVars, built>>

\* Mutant: the refusal for want of space is not written to the row.
EnsureFreeDiskSilently ==
  /\ wpc = "disk"
  /\ \/ Goto("load") /\ UNCHANGED redisVars
     \/ EndJob("finished")
  /\ UNCHANGED <<rowVars, reqVars, built>>

\* An update first makes room on the disk, and refuses to start without it.
EnsureFreeDisk ==
  /\ wpc = "disk"
  /\ \/ Goto("load") /\ UNCHANGED <<status, redisVars>>
     \/ ~RowGone /\ Verdict("failed") /\ EndJob("finished")
     \/ RowGone /\ EndJob("failed") /\ UNCHANGED status
  /\ UNCHANGED <<sites, kind, siteOf, rqId, age, reqVars, built>>

\* The site's columns are read once, and used until the next commit.
LoadSite ==
  /\ wpc = "load"
  /\ Goto(IF RowGone THEN "abort" ELSE "build")
  /\ UNCHANGED <<rowVars, redisVars, reqVars, built>>

\* A deploy publishes before it commits the site, an update after.
AfterBuild == IF kind[wjob] = "update" THEN "commitSite" ELSE "publish"
AfterPublish == IF kind[wjob] = "update" THEN "commitJob" ELSE "commitSite"
AfterCommitSite == IF kind[wjob] = "update" THEN "publish" ELSE "commitJob"

\* Mutant: a failed compose run is not noticed.
BuildIgnoringErrors ==
  /\ wpc = "build"
  /\ Goto(AfterBuild) /\ built' \in {built, built \cup {wjob}}
  /\ UNCHANGED <<rowVars, redisVars, reqVars>>

Build ==
  /\ wpc = "build"
  /\ \/ Goto(AfterBuild) /\ built' = built \cup {wjob}
     \/ Goto("abort") /\ built' \in {built, built \cup {wjob}}
  /\ UNCHANGED <<rowVars, redisVars, reqVars>>

\* Vhost, nginx reload and DNS record; an update has to read its committed site again.
Publish ==
  /\ wpc = "publish"
  /\ \/ ~(kind[wjob] = "update" /\ RowGone) /\ Goto(AfterPublish)
     \/ Goto("abort")
  /\ UNCHANGED <<built, rowVars, redisVars, reqVars>>

CommitSite ==
  /\ wpc = "commitSite"
  /\ Goto(IF RowGone THEN "abort" ELSE AfterCommitSite)
  /\ UNCHANGED <<rowVars, redisVars, reqVars, built>>

CommitJob ==
  /\ wpc = "commitJob"
  /\ IF RowGone
       THEN Goto("abort") /\ UNCHANGED status
       ELSE Verdict("succeeded") /\ Goto("report")
  /\ UNCHANGED <<sites, kind, siteOf, rqId, age, redisVars, reqVars, built>>

\* The log line after the verdict reads the name of the site again, inside the try.
Report ==
  /\ wpc = "report"
  /\ IF RowGone
       THEN Goto("abort") /\ UNCHANGED redisVars
       ELSE EndJob("finished")
  /\ UNCHANGED <<rowVars, reqVars, built>>

\* Mutant: the exception handler forgets to commit.
AbortWithoutCommit ==
  /\ wpc = "abort"
  /\ EndJob("finished")
  /\ UNCHANGED <<rowVars, reqVars, built>>

\* The exception handler; its commit raises again when the rows are gone.
Abort ==
  /\ wpc = "abort"
  /\ IF RowGone
       THEN EndJob("failed") /\ UNCHANGED status
       ELSE Verdict("failed") /\ EndJob("finished")
  /\ UNCHANGED <<sites, kind, siteOf, rqId, age, reqVars, built>>

\* A statement fails.  The handler can still record the failure of a SELECT, and of a
\* commit only if it rolls the session back, as the handler of an update does; a commit
\* outside the try, or in the handler itself, ends the job with the row as it is.
Caught ==
  \/ wpc \in {"load", "report"}
  \/ wpc \in {"commitSite", "commitJob"} /\ kind[wjob] = "update"

DatabaseError ==
  /\ "db" \in Events
  /\ wpc \in {"start", "disk", "load", "commitSite", "commitJob", "report", "abort"}
  /\ IF Caught THEN Goto("abort") /\ UNCHANGED redisVars ELSE EndJob("failed")
  /\ UNCHANGED <<rowVars, reqVars, built>>

\* The steps that may take long; after a failure an update prunes Docker before it commits.
Prunes == wpc = "abort" /\ kind[wjob] = "update"
Slow == wpc \in {"disk", "build", "publish"} \/ Prunes

(***************************************************************************)
(* RQ's alarm raises JobTimeoutException once, wherever the job is by      *)
(* then: the handler catches it, after the verdict too, best-effort        *)
(* helpers swallow it, and it ends the job if it comes in the handler, or  *)
(* in the middle of a commit (that may have taken effect) if the handler   *)
(* does not roll it back.                                                  *)
(***************************************************************************)
AlarmIsCaught ==
  /\ wpc \in {"build", "publish", "commitSite", "commitJob", "report"}
  /\ wpc' = "abort" /\ alarm' = "fired"
  /\ built' \in IF wpc = "build" THEN {built, built \cup {wjob}} ELSE {built}
  /\ UNCHANGED <<wjob, ran, waited, redisVars>>

AlarmIsSwallowed ==
  /\ wpc = "publish" \/ Prunes
  /\ alarm' = "fired"
  /\ UNCHANGED <<wpc, wjob, ran, waited, redisVars, built>>

AlarmEscapes ==
  /\ \/ wpc = "abort"
     \/ wpc \in {"commitSite", "commitJob", "report"} /\ kind[wjob] # "update"
  /\ EndJob("failed")
  /\ UNCHANGED built

Alarm ==
  /\ wpc # "idle" /\ ran = Timeout /\ alarm = "armed"
  /\ AlarmIsCaught \/ AlarmIsSwallowed \/ AlarmEscapes
  /\ UNCHANGED <<rowVars, reqVars>>

\* RQ's parent process kills a work horse that outlived its timeout by Grace.
KillHorse ==
  /\ wpc # "idle" /\ ran = Timeout + Grace /\ alarm = "fired"
  /\ EndJob("failed")
  /\ UNCHANGED <<rowVars, reqVars, built>>

Crash ==
  /\ "crash" \in Events /\ wpc # "idle"
  /\ Idle
  /\ UNCHANGED <<rowVars, redisVars, reqVars, built>>

RecreateWorker ==
  /\ "worker" \in recreate
  /\ recreate' = recreate \ {"worker"}
  /\ Idle
  /\ UNCHANGED <<hpc, hjob, hsite, rowVars, redisVars, built>>

-----------------------------------------------------------------------------
(***************************************************************************)
(* Redis and time.                                                         *)
(***************************************************************************)

\* RQ's registry maintenance fails the jobs that no worker is executing.
CleanRegistry(j) ==
  /\ redis = "up" /\ rq[j] = "started" /\ wjob # j
  /\ rq' = [rq EXCEPT ![j] = "failed"]
  /\ UNCHANGED <<redis, queue, rowVars, workerVars, reqVars, built>>

RedisFails ==
  /\ "redis" \in Events /\ redis = "up"
  /\ redis' = "down"
  /\ UNCHANGED <<queue, rq, rowVars, workerVars, reqVars, built>>

RedisReturns ==
  /\ redis = "down"
  /\ redis' = "up"
  /\ UNCHANGED <<queue, rq, rowVars, workerVars, reqVars, built>>

RedisFlushed ==
  /\ "flush" \in Events
  /\ queue' = <<>>
  /\ rq' = [j \in Jobs |-> "unknown"]
  /\ UNCHANGED <<redis, rowVars, workerVars, reqVars, built>>

(***************************************************************************)
(* Rows the guard looks at grow older; the age of one it never will again  *)
(* is dropped.  A tick is minutes: the worker polls, so none passes while  *)
(* it could take a job, nor while it or a handler (except in git pull) is  *)
(* between two mere transactions; making room on the disk runs commands    *)
(* with timeouts of their own that end before the alarm.                   *)
(***************************************************************************)
Tick ==
  /\ IF wpc = "idle"
       THEN redis = "down" \/ queue = <<>>
       ELSE /\ Slow
            /\ wpc = "disk" => ran + 1 < Timeout
            /\ ran < Timeout + Grace
            /\ ran = Timeout => alarm = "fired"
  /\ \A a \in Requests : hpc[a] \in {"idle", "pull"}
  /\ ran' = IF wpc = "idle" THEN ran ELSE ran + 1
  /\ age' = [j \in Jobs |->
               CASE status[j] \in {"queued", "running"} /\ age[j] < TooOld -> age[j] + 1
                 [] status[j] \in {"succeeded", "deleted"} -> 0
                 [] OTHER -> age[j]]
  /\ UNCHANGED <<sites, status, kind, siteOf, rqId, wpc, wjob, waited, alarm,
                 redisVars, reqVars, built>>

-----------------------------------------------------------------------------
Work ==
  \/ Take \/ Start \/ EnsureFreeDisk \/ LoadSite \/ Build \/ Publish
  \/ CommitSite \/ CommitJob \/ Report \/ Abort \/ Alarm \/ KillHorse

Serve(a) ==
  \/ \E s \in Sites : Deploy(a, s) \/ DeleteSite(a, s)
  \/ Enqueue(a) \/ RecordId(a) \/ GiveUp(a) \/ RequestError(a)

ServePanel ==
  \/ \E s \in Sites : CheckUpdate(s)
  \/ InsertUpdate \/ CheckSelfUpdate \/ LaunchRecreate

Environment ==
  \/ DatabaseError \/ Crash \/ RecreateWorker \/ RecreatePanel
  \/ RedisFails \/ RedisReturns \/ RedisFlushed

Next ==
  \/ Work
  \/ \E a \in Requests : Serve(a)
  \/ ServePanel
  \/ Environment
  \/ \E j \in Jobs : CleanRegistry(j)
  \/ Tick

Spec == Init /\ [][Next]_vars

(***************************************************************************)
(* The worker process is restarted by Docker and keeps polling, handlers   *)
(* run to completion, time passes, Redis comes back and RQ maintains its   *)
(* registries.  Users and faults are not fair.                             *)
(***************************************************************************)
Fairness ==
  /\ WF_vars(Work)
  /\ SF_vars(Take)
  /\ WF_vars(Tick)
  /\ WF_vars(RedisReturns)
  /\ \A j \in Jobs : SF_vars(CleanRegistry(j))
  /\ \A a \in Requests : WF_vars(Enqueue(a) \/ RecordId(a) \/ GiveUp(a))
  /\ WF_vars(InsertUpdate \/ LaunchRecreate)

FairSpec == Spec /\ Fairness
-----------------------------------------------------------------------------
(***************************************************************************)
(* Properties.                                                             *)
(***************************************************************************)

JobStatuses == {"none", "queued", "running", "succeeded", "failed", "deleted"}
RqStatuses == {"unknown", "queued", "started", "finished", "failed"}
WorkerSteps == {"idle", "start", "disk", "load", "build", "publish",
                "commitSite", "commitJob", "report", "abort"}
HandlerSteps == {"idle", "insert", "enqueue", "record", "refused", "pull"}

RowTypes ==
  /\ sites \subseteq Sites
  /\ status \in [Jobs -> JobStatuses]
  /\ kind \in [Jobs -> {"deploy", "update"}]
  /\ siteOf \in [Jobs -> Sites \cup {NoSite}]
  /\ rqId \in [Jobs -> {"none", "recorded"}]
  /\ age \in [Jobs -> 0..TooOld]

RedisTypes ==
  /\ redis \in {"up", "down"}
  /\ queue \in Seq(Jobs)
  /\ rq \in [Jobs -> RqStatuses]

WorkerTypes ==
  /\ wpc \in WorkerSteps
  /\ wjob \in IF wpc = "idle" THEN {NoJob} ELSE Jobs
  /\ ran \in 0..(Timeout + Grace)
  /\ waited \in 0..TooOld
  /\ alarm \in {"armed", "fired"}

HandlerTypes ==
  /\ hpc \in [Requests -> HandlerSteps]
  /\ hjob \in [Requests -> Jobs \cup {NoJob}]
  /\ hsite \in [Requests -> Sites \cup {NoSite}]
  /\ \A a \in Requests : hpc[a] \in {"enqueue", "record", "refused"} <=> hjob[a] # NoJob
  /\ recreate \subseteq {"worker", "panel"}

\* Every variable holds a value of its kind; counters stay within their bounds.
TypeOK == RowTypes /\ RedisTypes /\ WorkerTypes /\ HandlerTypes /\ built \subseteq Jobs

InQueue(j) == \E i \in 1..Len(queue) : queue[i] = j

\* A job in the queue, or being executed with its success not yet written to its row.
Live(j) == InQueue(j) \/ (wjob = j /\ status[j] # "succeeded")

\* The guard sees every job that can still act: as long as Redis keeps its data, a job the
\* worker executes before its verdict counts as active if it had waited at most Slack -
\* Grace before the worker took it, and a job in the queue counts as active up to the
\* cutoff.  This is what makes update_pl_cms_site_ui and update_linkhosting_post refuse
\* (ui.py, _active_deploy_job).
GuardSeesLiveJobs ==
  \A j \in Jobs :
    /\ status[j] \in {"queued", "running"}
    /\ \/ InQueue(j) /\ age[j] <= Cutoff
       \/ wjob = j /\ waited + Grace <= Slack
    => Active(j)

\* The exact extent of "a duplicate is never started" (ui.py:779): an update is accepted
\* while another job of its site is about to be pushed, in the queue or being executed, and
\* a self-update while any job is that still has its row, only if that job is older than
\* the cutoff or had waited more than Slack - Grace when the worker took it.  (A job that has
\* committed its success but not returned yet no longer counts.)
InHand(j) == Live(j) \/ \E a \in Requests : hjob[a] = j /\ hpc[a] = "enqueue"
Overdue(j) == age[j] > Cutoff \/ (wjob = j /\ waited + Grace > Slack)
DuplicatesAreOverdue ==
  [][\A j \in Jobs : InHand(j) /\ ~Overdue(j) =>
       /\ ~CheckUpdate(siteOf[j])
       /\ status[j] # "deleted" => ~CheckSelfUpdate]_vars

\* RQ files a job as finished only after its row carries a verdict (or is gone): the
\* worker never returns normally from app.jobs leaving a row queued or running, so the
\* guard, which trusts RQ, never lets a restart through on a row still being worked on.
FinishedJobsHaveVerdict ==
  \A j \in Jobs : rq[j] = "finished" => status[j] \in {"succeeded", "failed", "deleted"}

\* While Redis and the panel stay and the statements of the requests succeed, a queued row
\* has somebody who will act on it: the handler that is about to push it, the queue, or the
\* worker at its first step.  The one exception is a worker that dies, or whose statement
\* fails, in that first step (jobs.py:51-65): RQ has handed the job out and does not hand it
\* out again, so nobody will ever act on the row.  No other step loses a queued row.
Owned(j) == \/ InQueue(j)
            \/ wjob = j /\ wpc = "start"
            \/ \E a \in Requests : hjob[a] = j /\ hpc[a] = "enqueue"
WorkerMayFail == Events \cap {"crash", "db"} # {}
LostAtStart(j) == WorkerMayFail /\ wjob # j /\ rq[j] \in {"started", "failed"}
QueuedRowsAreOwned == \A j \in Jobs : status[j] = "queued" => Owned(j) \/ LostAtStart(j)

(***************************************************************************)
(* The inductive invariant behind the properties above: a job is in one    *)
(* place at a time (its handler, the queue, the worker), and the place     *)
(* fixes what its row and RQ say of it.  It holds whatever the environment *)
(* does; the two ways to lose what Redis knows only make it say less.      *)
(***************************************************************************)
RepliesArrive == "reply" \notin Events
DataSurvives == "flush" \notin Events

\* A handler that missed the reply to its push takes the update for refused, and marks
\* its row failed wherever the job has got to.
GivenUp(j) == ~RepliesArrive /\ status[j] = "failed" /\ kind[j] = "update"

NotBegun(j) == status[j] \in {"queued", "deleted"} \/ GivenUp(j)

\* The handlers that know that their job has not been pushed.
Unpushed(a) == hpc[a] = "enqueue" \/ (hpc[a] = "refused" /\ RepliesArrive)

\* A handler's job is its own, and before the push nobody else knows it.
HandlerInv ==
  /\ \A a \in Requests : Unpushed(a) =>
       /\ rq[hjob[a]] = "unknown" /\ rqId[hjob[a]] = "none"
       /\ status[hjob[a]] \in {"queued", "deleted"} /\ wjob # hjob[a]
  /\ \A a \in Requests : hjob[a] # NoJob =>
       /\ status[hjob[a]] # "none"
       /\ \A b \in Requests : a # b => hjob[a] # hjob[b]

\* The queue holds each job once, not yet started.
QueueInv ==
  /\ \A i \in 1..Len(queue) : rq[queue[i]] = "queued" /\ NotBegun(queue[i])
  /\ \A i, k \in 1..Len(queue) : i # k => queue[i] # queue[k]

\* The worker's job is started in RQ; past the first step its row says running, and past the
\* commit of its success, where only the handler may come after it, succeeded.
WorkerInv ==
  /\ wpc # "idle" => /\ rq[wjob] = "started" \/ (~DataSurvives /\ rq[wjob] = "unknown")
                     /\ age[wjob] <= waited + ran
  /\ wpc = "start" => NotBegun(wjob) /\ ran = 0
  /\ wpc \notin {"idle", "start", "report"} =>
       \/ status[wjob] \in {"running", "deleted"} \/ GivenUp(wjob)
       \/ wpc = "abort" /\ status[wjob] = "succeeded"
  /\ wpc = "report" => status[wjob] \in {"succeeded", "deleted"} \/ GivenUp(wjob)
  /\ wpc \in {"publish", "commitSite", "commitJob", "report"} => wjob \in built

\* A row not inserted yet is unknown everywhere; a job that rebuilt had begun; rows are
\* deleted with their sites.
RowInv ==
  \A j \in Jobs :
    /\ status[j] = "none" => rq[j] = "unknown" /\ rqId[j] = "none" /\ siteOf[j] = NoSite
    /\ j \in built => status[j] \notin {"none", "queued"}
    /\ status[j] = "deleted" => siteOf[j] \notin sites

\* A job that RQ calls queued is in the queue.
PlaceInv == \A j \in Jobs : rq[j] = "queued" => InQueue(j)

Inv ==
  /\ TypeOK
  /\ HandlerInv /\ QueueInv /\ WorkerInv /\ RowInv /\ PlaceInv
  /\ FinishedJobsHaveVerdict

\* The row is an honest account of the job (see JobLedger).
Ledger == INSTANCE JobLedger WITH working <- wjob
ImplementsLedger == Ledger!LedgerSpec

\* Whatever happens to the worker, to Redis and to the panel, a job is pushed and executed
\* at most once, in the order of the pushes (see JobFlow).
NotPushed == {j \in Jobs : status[j] = "none" \/ \E a \in Requests : hpc[a] = "enqueue" /\ hjob[a] = j}
Flow == INSTANCE JobFlow WITH unpushed <- NotPushed, waiting <- queue, working <- wjob
ImplementsFlow == Flow!FlowSpec

\* A row that nobody works on any more does not block updates for ever
\* (docstring of _active_deploy_job: "a crashed or restarted worker can leave a row stuck").
GuardReleases == \A j \in Jobs : Active(j) ~> ~Active(j)

\* A job that reached the queue ends with a verdict in its row, or RQ itself knows it as
\* failed or has lost it, whatever happens to the worker, to Redis and to its site.
Settled(j) == status[j] \in {"succeeded", "failed", "deleted"} \/ rq[j] \in {"failed", "unknown"}
PushedJobsSettle == \A j \in Jobs : InQueue(j) ~> Settled(j)

\* Why that is so: a pushed job that has not settled is where somebody will come across it,
\* in the queue the worker polls, or among the started jobs, which the worker ends or RQ's
\* registry maintenance gives up.  No crash, outage or commit leaves one anywhere else.
UnsettledJobsAreTracked == \A j \in Jobs : Settled(j) \/ InQueue(j) \/ rq[j] = "started"

(***************************************************************************)
(* Claims of the documentation that the code does not keep.                *)
(***************************************************************************)

\* ui.py:779 "so a duplicate is never started by mistake": no update is accepted while
\* a job of the same site is in the queue or being executed.
NoDuplicateUpdate ==
  [][\A s \in Sites : CheckUpdate(s) => \A j \in Jobs : siteOf[j] = s => ~Live(j)]_vars

\* README.md:274 "Job status is updated to succeeded or failed".
EveryJobGetsAVerdict ==
  \A j \in Jobs : status[j] = "queued" ~> status[j] \in {"succeeded", "failed", "deleted"}
==============================================================================
