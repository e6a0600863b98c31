------------------------------ MODULE SiteDeploy ------------------------------
(***************************************************************************)
(* One compose-managed site (WordPress or PL_CMS) in production mode and   *)
(* everyone who works on it: the worker's jobs, and the requests to stop   *)
(* it, to delete it and to issue its certificate.  They share its row, its *)
(* containers, its nginx vhost and its DNS record, and no lock.  How jobs  *)
(* travel through Redis, how the guard decides and when the alarm of RQ    *)
(* ends a job, is DeployQueue's subject; here a push always succeeds and   *)
(* the queue is a sequence.                                                *)
(*                                                                         *)
(* Everybody writes the row through an SQLAlchemy session, which keeps the *)
(* columns as it loaded them and whose UPDATE names only the columns whose *)
(* new value differs from the loaded one.  `seen' holds the values a job   *)
(* has loaded, `hwrites' the columns a stop will name.                     *)
(***************************************************************************)
EXTENDS Integers, Sequences

CONSTANTS
  Jobs,       \* identities of DeployJob rows; bounds the number of jobs
  Kinds,      \* {"deploy"} for WordPress, {"deploy", "update"} for PL_CMS
  Threads,    \* threads of the panel process that serve the REST API
  Panel,      \* its event loop, which serves /panel
  NoJob,
  Events      \* what the environment may do in this instance

PossibleEvents ==
  {"crash",     \* the worker dies in the middle of a job
   "restart",   \* the panel process is restarted
   "docker",    \* Docker refuses to remove the containers
   "disk",      \* a file of the panel cannot be written
   "db"}        \* a statement fails

ASSUME SiteDeployAssumption ==
  /\ Kinds \subseteq {"deploy", "update"}
  /\ Panel \notin Threads
  /\ NoJob \notin Jobs
  /\ Events \subseteq PossibleEvents

Requests == Threads \cup {Panel}

VARIABLES
  exists, siteStatus, containerId, certRow,  \* the Site row and its Certificate row
  status, kind,                              \* the DeployJob rows
  queue, wpc, wjob, seen,                    \* the queue and the worker
  hpc, hwrites,                              \* each request handler: next step, columns it will write
  docker, vhost, dns,                        \* containers, nginx file, hosts entry
  pem,                                       \* each of the two files in certs/<site>
  disturbed,  \* history: somebody else began to work on the site since the job loaded it
  overlap,    \* history: a deletion in progress met a job past LoadSite, a certificate
              \* request or a refusal by Docker
  issued      \* history: no request has written both files yet ("never"), one has
              \* ("whole"), and after that another one broke off in the middle ("spoiled")

rowVars    == <<exists, siteStatus, containerId, certRow, status, kind>>
workerVars == <<queue, wpc, wjob, seen>>
reqVars    == <<hpc, hwrites>>
certVars   == <<pem, issued>>
worldVars  == <<docker, vhost, dns, certVars>>
vars       == <<rowVars, workerVars, reqVars, worldVars, disturbed, overlap>>

\* key.pem and cert.pem of the site.
Files == {"key", "cert"}

Columns == [status : {"pending", "running", "stopped", "error"}, container : {"none", "set"}]

Current == [status |-> siteStatus, container |-> containerId]

\* A session that has not loaded the row, has expired it, or is closed.
Blank == [status |-> "pending", container |-> "none"]

Init ==
  /\ exists = "present" /\ siteStatus = "pending" /\ containerId = "none" /\ certRow = "none"
  /\ status = [j \in Jobs |-> "none"]
  /\ kind = [j \in Jobs |-> "deploy"]
  /\ queue = <<>> /\ wpc = "idle" /\ wjob = NoJob
  /\ seen = Blank
  /\ hpc = [a \in Requests |-> "idle"]
  /\ hwrites = [a \in Requests |-> {}]
  /\ docker = "down" /\ vhost = "none" /\ dns = "absent"
  /\ pem = [f \in Files |-> "none"]
  /\ disturbed = "no" /\ overlap = "no" /\ issued = "never"

-----------------------------------------------------------------------------
(***************************************************************************)
(* The session: what an UPDATE of the row changes, and when there is one.  *)
(***************************************************************************)

Flushed(column, loaded, new) == IF new = loaded THEN column ELSE new

\* Commit the columns `new' in a session that loaded `old'.
SaveSite(old, new) ==
  /\ siteStatus' = Flushed(siteStatus, old.status, new.status)
  /\ containerId' = Flushed(containerId, old.container, new.container)

\* The UPDATE of a row that is gone matches nothing and raises; no UPDATE, no error.
UpdateFails(old, new) == exists = "deleted" /\ old # new

Running == [status |-> "running", container |-> "set"]
Stopped == [status |-> "stopped", container |-> "none"]

-----------------------------------------------------------------------------
(***************************************************************************)
(* The worker.                                                             *)
(***************************************************************************)
Goto(pc) == wpc' = pc /\ UNCHANGED <<queue, wjob, seen>>

EndJob ==
  /\ wpc' = "idle" /\ wjob' = NoJob /\ seen' = Blank /\ disturbed' = "no"
  /\ UNCHANGED queue

Load(pc) == wpc' = pc /\ seen' = Current /\ UNCHANGED <<queue, wjob>>

\* A commit or a rollback expires what the session has loaded.
GotoExpired(pc) == wpc' = pc /\ seen' = Blank /\ UNCHANGED <<queue, wjob>>

IsUpdate == kind[wjob] = "update"

\* An exception: the handler of an update begins with a rollback, that of a deploy does not.
Raise == IF IsUpdate THEN GotoExpired("abort") ELSE Goto("abort")

Verdict(v) == status' = [status EXCEPT ![wjob] = v]

Take ==
  /\ wpc = "idle" /\ queue # <<>>
  /\ queue' = Tail(queue) /\ wjob' = Head(queue) /\ wpc' = "start"
  /\ UNCHANGED <<seen, rowVars, reqVars, worldVars, disturbed, overlap>>

Start ==
  /\ wpc = "start"
  /\ IF exists = "deleted"
       THEN EndJob /\ UNCHANGED status
       ELSE Verdict("running") /\ GotoExpired("load") /\ UNCHANGED disturbed
  /\ UNCHANGED <<exists, siteStatus, containerId, certRow, kind, reqVars, worldVars, overlap>>

Deleting(a) == hpc[a] \in {"delete", "unvhost", "undns", "unrow"}
Issuing(a) == hpc[a] \in {"issue", "key", "cert"}
Certifying(a) == Issuing(a) \/ hpc[a] \in {"commitCert", "https"}

\* Mutant: the site is not looked up again after the commit of "running".
LoadSiteUnchecked ==
  /\ wpc = "load"
  /\ Load("build")
  /\ disturbed' = IF \E a \in Requests : hpc[a] # "idle" THEN "yes" ELSE "no"
  /\ overlap' = IF \E a \in Requests : Deleting(a) THEN "yes" ELSE overlap
  /\ UNCHANGED <<rowVars, reqVars, worldVars>>

\* The commit of "running" expired the site; its columns are loaded again.  An update that
\* finds no room on the disk ends here, before it changes anything.
LoadSite ==
  /\ wpc = "load"
  /\ \/ /\ exists = "deleted"
        /\ Raise
        /\ UNCHANGED <<status, disturbed, overlap>>
     \/ /\ exists = "present"
        /\ Load("build")
        /\ disturbed' = IF \E a \in Requests : hpc[a] # "idle" THEN "yes" ELSE "no"
        /\ overlap' = IF \E a \in Requests : Deleting(a) THEN "yes" ELSE overlap
        /\ UNCHANGED status
     \/ /\ exists = "present" /\ IsUpdate
        /\ Verdict("failed") /\ EndJob
        /\ UNCHANGED overlap
  /\ UNCHANGED <<exists, siteStatus, containerId, certRow, kind, reqVars, worldVars>>

\* Mutant: the containers are reported started when compose failed.
BuildIgnoringErrors ==
  /\ wpc = "build"
  /\ docker' \in {"up", "down"} /\ Goto(IF IsUpdate THEN "commitSite" ELSE "vhost")
  /\ UNCHANGED <<rowVars, reqVars, vhost, dns, certVars, disturbed, overlap>>

\* docker compose up, which may fail half way.
Build ==
  /\ wpc = "build"
  /\ \/ docker' = "up" /\ Goto(IF IsUpdate THEN "commitSite" ELSE "vhost")
     \/ docker' \in {"up", "down"} /\ Raise
  /\ UNCHANGED <<rowVars, reqVars, vhost, dns, certVars, disturbed, overlap>>

\* Every job writes the plain HTTP vhost, whether or not there is a certificate.  A deploy
\* works from the columns it loaded; an update has committed them and must load again.
WriteVhost ==
  /\ wpc = "vhost"
  /\ \/ /\ ~(IsUpdate /\ exists = "deleted")
        /\ vhost' = "http" /\ Goto(IF IsUpdate THEN "commitJob" ELSE "dns")
     \/ vhost' \in {vhost, "http"} /\ Raise
  /\ UNCHANGED <<rowVars, reqVars, docker, dns, certVars, disturbed, overlap>>

\* Mutant: a record that could not be added is only logged.
AddDnsIgnoringErrors ==
  /\ wpc = "dns"
  /\ dns' \in {dns, "present"} /\ Goto("commitSite")
  /\ UNCHANGED <<rowVars, reqVars, docker, vhost, certVars, disturbed, overlap>>

AddDns ==
  /\ wpc = "dns"
  /\ \/ dns' = "present" /\ Goto("commitSite")
     \/ UNCHANGED dns /\ Raise
  /\ UNCHANGED <<rowVars, reqVars, docker, vhost, certVars, disturbed, overlap>>

CommitSite ==
  /\ wpc = "commitSite"
  /\ IF UpdateFails(seen, Running)
       THEN Raise /\ UNCHANGED <<siteStatus, containerId>>
       ELSE /\ exists = "present" => SaveSite(seen, Running)
            /\ exists = "deleted" => UNCHANGED <<siteStatus, containerId>>
            /\ GotoExpired(IF IsUpdate THEN "vhost" ELSE "commitJob")
  /\ UNCHANGED <<exists, certRow, status, kind, reqVars, worldVars, disturbed, overlap>>

CommitJob ==
  /\ wpc = "commitJob"
  /\ IF exists = "deleted"
       THEN Raise /\ UNCHANGED status
       ELSE Verdict("succeeded") /\ Goto("report")
  /\ UNCHANGED <<exists, siteStatus, containerId, certRow, kind, reqVars, worldVars,
                 disturbed, overlap>>

\* The log line after the verdict loads the site again for its name, inside the try.
Report ==
  /\ wpc = "report"
  /\ IF exists = "deleted" THEN Raise /\ UNCHANGED disturbed ELSE EndJob
  /\ UNCHANGED <<rowVars, reqVars, worldVars, overlap>>

\* The exception handler: "error" is always written unless the session holds it loaded.
Abort ==
  /\ wpc = "abort"
  /\ EndJob
  /\ IF exists = "deleted"
       THEN UNCHANGED <<status, siteStatus>>
       ELSE /\ Verdict("failed")
            /\ siteStatus' = Flushed(siteStatus, seen.status, "error")
  /\ UNCHANGED <<exists, containerId, certRow, kind, reqVars, worldVars, overlap>>

\* A failing SELECT reaches the handler, which can commit: after the verdict too.  So does a
\* failing commit of an update inside its try, which is rolled back; a deploy does not roll
\* back, and its handler fails as well.  An update's commit about the disk is in no try.
Caught == wpc \in {"load", "report"} \/ (wpc \in {"commitSite", "commitJob"} /\ IsUpdate)

DatabaseError ==
  /\ "db" \in Events /\ wpc \in {"start", "load", "commitSite", "commitJob", "report", "abort"}
  /\ \/ Caught /\ GotoExpired("abort") /\ UNCHANGED disturbed
     \/ (~Caught \/ (wpc = "load" /\ IsUpdate)) /\ EndJob
  /\ UNCHANGED <<rowVars, reqVars, worldVars, overlap>>

Crash ==
  /\ "crash" \in Events /\ wpc # "idle"
  /\ EndJob
  /\ UNCHANGED <<rowVars, reqVars, worldVars, overlap>>

-----------------------------------------------------------------------------
(***************************************************************************)
(* The requests.                                                           *)
(***************************************************************************)
Step(a, pc) == hpc' = [hpc EXCEPT ![a] = pc] /\ UNCHANGED hwrites

Finish(a) == hpc' = [hpc EXCEPT ![a] = "idle"] /\ hwrites' = [hwrites EXCEPT ![a] = {}]

\* The columns a stop will write, as it loads the row now.
StopWrites == {c \in {"status", "container"} : Current[c] # Stopped[c]}

\* Look the site up and go on with step pc; only a stop will write columns of it.
Begin(a, pc) ==
  /\ hpc[a] = "idle" /\ exists = "present"
  /\ hpc' = [hpc EXCEPT ![a] = pc]
  /\ hwrites' = [hwrites EXCEPT ![a] = IF pc = "stop" THEN StopWrites ELSE {}]
  /\ disturbed' = IF wpc = "idle" THEN "no" ELSE "yes"

\* Insert a job and push it.  The guard of an update lets it pass next to a job that is
\* older than half an hour, so here it may come at any time.
Request(a, k) ==
  /\ hpc[a] = "idle" /\ exists = "present"
  /\ k = "update" => a = Panel
  /\ \E j \in Jobs :
       /\ status[j] = "none"
       /\ status' = [status EXCEPT ![j] = "queued"]
       /\ kind' = [kind EXCEPT ![j] = k]
       /\ queue' = Append(queue, j)
  /\ UNCHANGED <<exists, siteStatus, containerId, certRow, wpc, wjob, seen, reqVars, worldVars,
                 disturbed, overlap>>

\* Stopping the containers is best effort; only the panel survives that Docker is away.
RemoveContainers(a, next) ==
  \/ docker' = "down" /\ Step(a, next)
  \/ /\ "docker" \in Events
     /\ UNCHANGED docker
     /\ Step(a, next) \/ (a # Panel /\ Finish(a))

BeginStop(a) ==
  /\ Begin(a, "stop")
  /\ UNCHANGED <<rowVars, workerVars, worldVars, overlap>>

StopContainers(a) ==
  /\ hpc[a] = "stop"
  /\ RemoveContainers(a, "commitStop")
  /\ UNCHANGED <<rowVars, workerVars, vhost, dns, certVars, disturbed, overlap>>

CommitStop(a) ==
  /\ hpc[a] = "commitStop"
  /\ IF exists = "deleted"
       THEN UNCHANGED <<siteStatus, containerId>>
       ELSE /\ siteStatus' = IF "status" \in hwrites[a] THEN Stopped.status ELSE siteStatus
            /\ containerId' = IF "container" \in hwrites[a] THEN Stopped.container ELSE containerId
  /\ Finish(a)
  /\ UNCHANGED <<exists, certRow, status, kind, workerVars, worldVars, disturbed, overlap>>

\* A job that may still act on the site, or a certificate request that may.
Busy == \/ wpc \notin {"idle", "start", "load"}
        \/ \E a \in Requests : Certifying(a)

\* PATCH lets its caller write any status; nothing checks it against the containers.
Patch(a) ==
  /\ a # Panel /\ hpc[a] = "idle" /\ exists = "present"
  /\ siteStatus' \in {"pending", "running", "stopped", "error"}
  /\ disturbed' = IF wpc = "idle" THEN "no" ELSE "yes"
  /\ UNCHANGED <<exists, containerId, certRow, status, kind, workerVars, reqVars, worldVars,
                 overlap>>

BeginDelete(a) ==
  /\ Begin(a, "delete")
  /\ overlap' = IF Busy THEN "yes"
                ELSE IF \E b \in Requests : Deleting(b) THEN overlap
                ELSE "no"
  /\ UNCHANGED <<rowVars, workerVars, worldVars>>

DeleteContainers(a) ==
  /\ hpc[a] = "delete"
  /\ RemoveContainers(a, "unvhost")
  /\ overlap' = IF docker' = "up" THEN "yes" ELSE overlap
  /\ UNCHANGED <<rowVars, workerVars, vhost, dns, certVars, disturbed>>

\* Only the REST API goes on to remove the DNS record.
RemoveVhost(a) ==
  /\ hpc[a] = "unvhost"
  /\ vhost' = "none"
  /\ Step(a, IF a = Panel THEN "unrow" ELSE "undns")
  /\ UNCHANGED <<rowVars, workerVars, docker, dns, certVars, disturbed, overlap>>

RemoveDns(a) ==
  /\ hpc[a] = "undns"
  /\ dns' = "absent"
  /\ Step(a, "unrow")
  /\ UNCHANGED <<rowVars, workerVars, docker, vhost, certVars, disturbed, overlap>>

\* The row goes with its jobs and certificates, in one transaction; its columns are nothing.
DeleteRows(a) ==
  /\ hpc[a] = "unrow"
  /\ exists' = "deleted" /\ certRow' = "none"
  /\ siteStatus' = Blank.status /\ containerId' = Blank.container
  /\ status' = [j \in Jobs |-> IF status[j] = "none" THEN "none" ELSE "deleted"]
  /\ Finish(a)
  /\ UNCHANGED <<kind, workerVars, worldVars, disturbed, overlap>>

BeginCert(a) ==
  /\ Begin(a, "issue")
  /\ overlap' = IF \E b \in Requests : Deleting(b) THEN "yes" ELSE overlap
  /\ UNCHANGED <<rowVars, workerVars, worldVars>>

(***************************************************************************)
(* issue_cert opens key.pem, which empties it, writes it, and then does    *)
(* the same with cert.pem.  Requests for the same site may do so at the    *)
(* same time; whose key and whose certificate remain is InternalCA's       *)
(* subject.  While a request is at step f it has emptied file f.           *)
(***************************************************************************)
OpenKey(a) ==
  /\ hpc[a] = "issue"
  /\ pem' = [pem EXCEPT !["key"] = "empty"]
  /\ Step(a, "key")
  /\ UNCHANGED <<rowVars, workerVars, docker, vhost, dns, disturbed, overlap, issued>>

\* One step, as a request that breaks off in between leaves less harm than one before it.
FillKeyOpenCert(a) ==
  /\ hpc[a] = "key"
  /\ pem' = [key |-> "whole", cert |-> "empty"]
  /\ Step(a, "cert")
  /\ UNCHANGED <<rowVars, workerVars, docker, vhost, dns, disturbed, overlap, issued>>

Whole == \A f \in Files : pem[f] = "whole"

FillCert(a) ==
  /\ hpc[a] = "cert"
  /\ pem' = [pem EXCEPT !["cert"] = "whole"]
  /\ issued' = IF Whole' THEN "whole" ELSE "spoiled"
  /\ Step(a, "commitCert")
  /\ UNCHANGED <<rowVars, workerVars, docker, vhost, dns, disturbed, overlap>>

\* What the requests in A leave of the files when they break off.
Spoil(A) ==
  issued' = IF issued # "never" /\ \E a \in A : hpc[a] \in Files THEN "spoiled" ELSE issued

\* Mutant: the panel goes on when no certificate could be issued.
IssueFailsUnnoticed(a) ==
  /\ "disk" \in Events /\ Issuing(a)
  /\ Spoil({a})
  /\ Step(a, "commitCert")
  /\ UNCHANGED <<rowVars, workerVars, docker, vhost, dns, pem, disturbed, overlap>>

\* The CA, a key or a certificate cannot be written: the request ends there.
IssueFails(a) ==
  /\ "disk" \in Events /\ Issuing(a)
  /\ Spoil({a})
  /\ Finish(a)
  /\ UNCHANGED <<rowVars, workerVars, docker, vhost, dns, pem, disturbed, overlap>>

\* Commit the Certificate row, then load the site again to see whether it is deployed.
CommitCert(a) ==
  /\ hpc[a] = "commitCert"
  /\ IF exists = "deleted"
       THEN Finish(a) /\ UNCHANGED certRow
       ELSE /\ certRow' = "issued"
            /\ IF containerId = "set" THEN Step(a, "https") ELSE Finish(a)
  /\ UNCHANGED <<exists, siteStatus, containerId, status, kind, workerVars, worldVars,
                 disturbed, overlap>>

WriteHttps(a) ==
  /\ hpc[a] = "https"
  /\ vhost' = "https" \/ ("disk" \in Events /\ UNCHANGED vhost)
  /\ Finish(a)
  /\ UNCHANGED <<rowVars, workerVars, docker, dns, certVars, disturbed, overlap>>

\* A statement fails, as the deletion of a site does for which a job was inserted after its
\* jobs were loaded; a new certificate may be in its row before the site is loaded again.
RequestError(a) ==
  /\ "db" \in Events /\ hpc[a] \in {"commitStop", "unrow", "commitCert"}
  /\ certRow' \in IF hpc[a] = "commitCert" /\ exists = "present" THEN {certRow, "issued"}
                                                                 ELSE {certRow}
  /\ Finish(a)
  /\ UNCHANGED <<exists, siteStatus, containerId, status, kind, workerVars, worldVars,
                 disturbed, overlap>>

\* The panel process restarts and forgets the requests it was serving.
Restart ==
  /\ "restart" \in Events
  /\ \E a \in Requests : hpc[a] # "idle"
  /\ hpc' = [a \in Requests |-> "idle"] /\ hwrites' = [a \in Requests |-> {}]
  /\ Spoil(Requests)
  /\ UNCHANGED <<rowVars, workerVars, docker, vhost, dns, pem, disturbed, overlap>>

-----------------------------------------------------------------------------
Work ==
  \/ Take \/ Start \/ LoadSite \/ Build \/ WriteVhost \/ AddDns
  \/ CommitSite \/ CommitJob \/ Report \/ Abort \/ DatabaseError \/ Crash

Serve(a) ==
  \/ (\E k \in Kinds : Request(a, k)) \/ Patch(a)
  \/ BeginStop(a) \/ StopContainers(a) \/ CommitStop(a)
  \/ BeginDelete(a) \/ DeleteContainers(a) \/ RemoveVhost(a) \/ RemoveDns(a) \/ DeleteRows(a)
  \/ BeginCert(a) \/ OpenKey(a) \/ FillKeyOpenCert(a) \/ FillCert(a) \/ IssueFails(a)
  \/ CommitCert(a) \/ WriteHttps(a) \/ RequestError(a)

Next == Work \/ (\E a \in Requests : Serve(a)) \/ Restart

Spec == Init /\ [][Next]_vars

-----------------------------------------------------------------------------
JobStatuses == {"none", "queued", "running", "succeeded", "failed", "deleted"}
WorkerSteps == {"idle", "start", "load", "build", "vhost", "dns", "commitSite", "commitJob",
                "report", "abort"}
HandlerSteps == {"idle", "stop", "commitStop", "delete", "unvhost", "undns", "unrow",
                 "issue", "key", "cert", "commitCert", "https"}

\* Every variable holds a value of its kind.
TypeOK ==
  /\ exists \in {"present", "deleted"}
  /\ Current \in Columns /\ seen \in Columns /\ hwrites \in [Requests -> SUBSET {"status", "container"}]
  /\ certRow \in {"none", "issued"} /\ issued \in {"never", "whole", "spoiled"}
  /\ pem \in [Files -> {"none", "empty", "whole"}]
  /\ status \in [Jobs -> JobStatuses] /\ kind \in [Jobs -> {"deploy", "update"}]
  /\ queue \in Seq(Jobs) /\ wpc \in WorkerSteps
  /\ wjob \in IF wpc = "idle" THEN {NoJob} ELSE Jobs
  /\ hpc \in [Requests -> HandlerSteps]
  /\ docker \in {"up", "down"} /\ vhost \in {"none", "http", "https"} /\ dns \in {"absent", "present"}
  /\ disturbed \in {"no", "yes"} /\ overlap \in {"no", "yes"}

\* A TLS vhost appears only after some request has written both files to their end, and
\* finds them whole from then on, unless a request is writing one just now, or a later one
\* broke off in the middle, at a restart or a full disk, and none has been whole since
\* (cert.issue_cert, issue_cert_ui, create_cert).  A first request that breaks off, however
\* far it came, never turns TLS on; nothing a job or a deletion does takes a file away.
CertificateBehindHttps ==
  vhost = "https" =>
    /\ issued # "never"
    /\ issued = "whole" => \A f \in Files : pem[f] = "whole" \/ \E a \in Requests : hpc[a] = f

\* A deletion that overlaps neither a running job nor a certificate request leaves no
\* container and no vhost behind, whatever is still queued for the site, and whoever
\* crashed before (delete_site, delete_site_ui).  One through the REST API has by then
\* removed the DNS record too; the panel never does.
QuietDeleteIsComplete ==
  overlap = "no" =>
    /\ exists = "deleted" => docker = "down" /\ vhost = "none"
    /\ \A t \in Threads : hpc[t] = "unrow" => docker = "down" /\ vhost = "none" /\ dns = "absent"

\* The verdict of a job nobody interfered with is true of the site when it is written:
\* succeeded means that containers run, a vhost exists and the row says so, failed that the
\* row says error, also when it takes back a success that was committed, and although the
\* session leaves out of its UPDATE what it believes unchanged (jobs.py).
Served == docker = "up" /\ vhost # "none" /\ Current = Running
VerdictIsTrue ==
  [][\A j \in Jobs : status'[j] # status[j] /\ disturbed = "no" =>
       /\ status'[j] = "succeeded" => Served /\ (kind[j] = "deploy" => dns = "present")
       /\ status'[j] = "failed" /\ wpc = "abort" => siteStatus' = "error"]_vars

(***************************************************************************)
(* The inductive invariant behind the properties above.                    *)
(***************************************************************************)

\* Whoever waits or runs has a row; only the job being executed is running for the worker.
JobInv ==
  /\ \A i \in 1..Len(queue) : status[queue[i]] # "none"
  /\ wpc # "idle" => status[wjob] # "none"

\* A certificate request past the files has written both; once that was so, a file that is
\* not whole is being written, or a later request broke off.
CertInv ==
  /\ vhost = "https" => issued # "never"
  /\ \A a \in Requests : hpc[a] \in {"commitCert", "https"} => issued # "never"
  /\ issued = "whole" => \A f \in Files : pem[f] = "whole" \/ \E a \in Requests : hpc[a] = f

\* While a deletion that met nobody proceeds, and for ever after, nobody is in a position
\* to bring containers or a vhost back, and what has been removed stays away.
Acting == wpc \in {"build", "vhost", "dns", "commitSite", "commitJob"}
QuietInv ==
  overlap = "no" =>
    /\ exists = "deleted" \/ (\E a \in Requests : Deleting(a)) =>
         ~Acting /\ \A a \in Requests : ~Certifying(a)
    /\ \A a \in Requests : hpc[a] \in {"unvhost", "undns", "unrow"} => docker = "down"
    /\ \A a \in Requests : hpc[a] \in {"undns", "unrow"} => vhost = "none"
    /\ \A t \in Threads : hpc[t] = "unrow" => dns = "absent"
    /\ exists = "deleted" => docker = "down" /\ vhost = "none"

\* While nobody disturbs a job, its session knows the row as it is, and what the job has
\* done so far is still in place.
At(pcs) == wpc \in pcs
VerdictInv ==
  disturbed = "no" =>
    /\ Acting => exists = "present" /\ \A a \in Requests : hpc[a] = "idle"
    /\ At({"build"}) => seen = Current
    /\ Acting /\ ~At({"build"}) => docker = "up"
    /\ Acting /\ ~IsUpdate =>
         /\ At({"vhost", "dns", "commitSite"}) => seen = Current
         /\ At({"dns", "commitSite", "commitJob"}) => vhost # "none"
         /\ At({"commitSite", "commitJob"}) => dns = "present"
         /\ At({"commitJob"}) => Current = Running
    /\ Acting /\ IsUpdate =>
         /\ At({"commitSite"}) => seen = Current
         /\ At({"vhost", "commitJob"}) => Current = Running
         /\ At({"commitJob"}) => vhost # "none"
         /\ ~At({"dns"})
    /\ At({"abort"}) /\ exists = "present" =>
         seen = Blank \/ (seen = Current /\ \A a \in Requests : hpc[a] = "idle")

Inv == TypeOK /\ JobInv /\ CertInv /\ QuietInv /\ VerdictInv

(***************************************************************************)
(* A claim of the user interface that the code does not keep.              *)
(***************************************************************************)

\* ui.py:1597 "Deploy the site to activate HTTPS.": a deploy of a site with a certificate
\* that succeeds undisturbed has it served over HTTPS.
DeployActivatesHttps ==
  [][\A j \in Jobs :
       status[j] = "running" /\ status'[j] = "succeeded" /\ certRow = "issued" /\ disturbed = "no"
         => vhost = "https"]_vars
==============================================================================
