------------------------------- MODULE PlainSite -------------------------------
(***************************************************************************)
(* One plain site (static, PHP, Node, Python) in production mode.  It has  *)
(* a single container, created under the fixed name site-<name> but        *)
(* recorded in the row by the id Docker gave it.  Deploys run inside the   *)
(* request that asks for them: three routes deploy, two stop, two delete   *)
(* and two issue certificates, in the threads of the REST API and in the   *)
(* event loop of the panel, with no lock.                                  *)
(*                                                                         *)
(* Importing a repository may turn the site into a compose site (PL_CMS)   *)
(* and back; every route goes by the type it loads.  A compose deploy only *)
(* queues a job, whose steps SiteDeploy models: here the job is one step.  *)
(*                                                                         *)
(* As there, hseen is what a handler's session loaded from the row, and an *)
(* UPDATE names only the columns whose new value differs from it.  The     *)
(* hosts entry is the subject of SharedFile: here it only may fail.        *)
(***************************************************************************)
CONSTANTS
  Containers,   \* ids Docker may give; bounds the containers ever created
  NoContainer,
  Project,      \* what a compose job records: the name of its main container
  Threads,      \* threads of the panel process that serve the REST API
  Panel,        \* its event loop, which serves /panel
  Worlds        \* sets of what may happen; each behaviour runs in one of them

PossibleEvents ==
  {"restart",   \* the panel process is restarted
   "docker",    \* Docker refuses to stop or remove a container
   "db",        \* a commit fails
   "patch",     \* somebody sets the status by hand
   "cert",      \* certificates are issued
   "import"}    \* repositories are imported, which may change the type of the site

ASSUME PlainSiteAssumption ==
  /\ NoContainer \notin Containers /\ Project \notin Containers \cup {NoContainer}
  /\ Panel \notin Threads
  /\ Worlds \subseteq SUBSET PossibleEvents

Requests == Threads \cup {Panel}
Ids == Containers \cup {NoContainer, Project}

VARIABLES
  exists, siteStatus, containerId, siteType,  \* the Site row
  certs,                            \* it has a Certificate row
  live, used,                       \* the container named site-<name>; the ids given so far
  project,                          \* containers of its compose project are up
  vhost,                            \* the nginx file: "none", "http" or "https"
  queued,                           \* a compose job waits in RQ
  hpc, hseen, hcid,                 \* each handler: next step, columns it loaded, container it ran
  htls,                             \* each handler: does it write the vhost with TLS
  early,                            \* history: handlers that looked for a certificate too early
  trust,                            \* history: why the row may be trusted (see RowIsTrue)
  events                            \* what may happen in this behaviour

rowVars   == <<exists, siteStatus, containerId, siteType>>
dockVars  == <<live, used, project>>
worldVars == <<certs, dockVars, vhost, queued>>
reqVars   == <<hpc, hseen, hcid, htls, early>>
vars      == <<rowVars, worldVars, reqVars, trust, events>>

SiteStatuses == {"pending", "running", "stopped", "error"}
SiteTypes == {"plain", "compose"}
Columns == [status : SiteStatuses, container : Ids, type : SiteTypes]

Current == [status |-> siteStatus, container |-> containerId, type |-> siteType]

\* What a session that has not loaded the row, or is closed, stands for.
Blank == [status |-> "pending", container |-> NoContainer, type |-> "plain"]

Init ==
  /\ exists = "present" /\ siteStatus = "pending" /\ containerId = NoContainer
  /\ siteType = "plain" /\ certs = FALSE
  /\ live = NoContainer /\ used = {} /\ project = FALSE
  /\ vhost = "none" /\ queued = FALSE
  /\ hpc = [a \in Requests |-> "idle"]
  /\ hseen = [a \in Requests |-> Blank]
  /\ hcid = [a \in Requests |-> NoContainer]
  /\ htls = [a \in Requests |-> "never"] /\ early = {}
  /\ trust = "row" /\ events \in Worlds

-----------------------------------------------------------------------------
(***************************************************************************)
(* The session and the life of a request.                                  *)
(***************************************************************************)

Flushed(column, loaded, new) == IF new = loaded THEN column ELSE new

\* Commit the columns `new' in a session that loaded `old'; false if the UPDATE would raise.
SaveSite(old, new) ==
  /\ exists = "present" \/ old = new
  /\ IF exists = "present"
       THEN /\ siteStatus' = Flushed(siteStatus, old.status, new.status)
            /\ containerId' = Flushed(containerId, old.container, new.container)
            /\ siteType' = Flushed(siteType, old.type, new.type)
       ELSE UNCHANGED <<siteStatus, containerId, siteType>>
  /\ UNCHANGED exists

SaveFails(old, new) == (exists = "deleted" /\ old # new) \/ "db" \in events

Idle(a) == hpc[a] = "idle"
Alone(a) == \A b \in Requests : b # a => Idle(b)
Distrust == trust' = "none"

\* Containers are up that the present type of the site does not look for.
Stray == IF siteType = "plain" THEN project ELSE live # NoContainer

Step(a, pc) == hpc' = [hpc EXCEPT ![a] = pc] /\ UNCHANGED <<hseen, hcid, htls, early>>

\* The handlers in D end.
End(D) ==
  /\ hpc' = [a \in Requests |-> IF a \in D THEN "idle" ELSE hpc[a]]
  /\ hseen' = [a \in Requests |-> IF a \in D THEN Blank ELSE hseen[a]]
  /\ hcid' = [a \in Requests |-> IF a \in D THEN NoContainer ELSE hcid[a]]
  /\ htls' = [a \in Requests |-> IF a \in D THEN "never" ELSE htls[a]]
  /\ early' = early \ D

Finish(a) == End({a})

Deploys == {"pull", "remove"}

\* Of the columns it loads, those a handler that goes on with step pc comes back to.
Loaded(pc) ==
  CASE pc \in Deploys    -> [Blank EXCEPT !.status = siteStatus, !.container = containerId]
    [] pc = "clone"      -> [Blank EXCEPT !.type = siteType]
    [] pc = "delete"     -> [Blank EXCEPT !.container = containerId, !.type = siteType]
    [] pc = "stop"       -> Current
    [] pc = "cert"       -> Blank

\* Look the site up and go on with step pc.
Begin(a, pc, tls) ==
  /\ Idle(a) /\ exists = "present"
  /\ hpc' = [hpc EXCEPT ![a] = pc]
  /\ hseen' = [hseen EXCEPT ![a] = Loaded(pc)]
  /\ htls' = [htls EXCEPT ![a] = tls]
  /\ trust' = CASE ~Alone(a) \/ (pc \in Deploys /\ siteType = "compose") -> "none"
                [] Alone(a) /\ trust = "none" /\ pc \in Deploys /\ siteType = "plain" /\ ~Stray -> "deploy"
                [] OTHER -> trust
  /\ UNCHANGED <<hcid, early, rowVars, worldVars, events>>

\* PATCH /sites saves the status the caller sends.
Patch(a) ==
  /\ "patch" \in events
  /\ a \in Threads /\ Idle(a) /\ exists = "present"
  /\ siteStatus' \in SiteStatuses
  /\ Distrust
  /\ UNCHANGED <<exists, containerId, siteType, worldVars, reqVars, events>>

-----------------------------------------------------------------------------
(***************************************************************************)
(* Deploying.                                                              *)
(***************************************************************************)

\* Mutant: the REST API deploys without TLS as well.
BeginDeployWithoutTls(a) == siteType = "plain" /\ Begin(a, "remove", "no")

\* deploy_site looks for a certificate before it starts, deploy_site_ui never does.
BeginDeploy(a) ==
  /\ siteType = "plain"
  /\ Begin(a, "remove", IF a = Panel THEN "never" ELSE IF certs THEN "yes" ELSE "no")

\* A compose site only gets a job.
Enqueue(a) ==
  /\ Idle(a) /\ exists = "present" /\ siteType = "compose"
  /\ queued' = TRUE
  /\ UNCHANGED <<rowVars, certs, dockVars, vhost, reqVars, trust, events>>

\* pull_and_deploy_ui goes on only if git pull succeeds, and then looks for a certificate; it
\* does not ask for the type of the site.
BeginPull(a) == a = Panel /\ Begin(a, "pull", "never")

Pull(a) ==
  /\ hpc[a] = "pull"
  /\ \/ /\ hpc' = [hpc EXCEPT ![a] = "remove"]
        /\ htls' = [htls EXCEPT ![a] = IF certs THEN "yes" ELSE "no"]
        /\ UNCHANGED <<hseen, hcid, early, trust>>
     \/ Finish(a) /\ trust' = IF trust = "row" THEN "row" ELSE "none"
  /\ UNCHANGED <<rowVars, worldVars, events>>

\* Whatever has the site's name goes away; failing to remove it is only logged.  Nothing is
\* removed if there is no image to run: a compose site has none by default.
RemoveExisting(a) ==
  /\ hpc[a] = "remove"
  /\ \/ /\ live' = NoContainer \/ ("docker" \in events /\ UNCHANGED live)
        /\ Step(a, "run")
        /\ trust' = IF trust = "row" THEN "deploy" ELSE trust
     \/ UNCHANGED live /\ Step(a, "fail") /\ Distrust
  /\ UNCHANGED <<rowVars, certs, used, project, vhost, queued, events>>

Create(c) == c \in Containers \ used /\ live = NoContainer /\ live' = c /\ used' = used \cup {c}

\* Mutant: the id of the container it found before is kept.
RunKeepingId(a) ==
  /\ hpc[a] = "run"
  /\ \/ \E c \in Containers :
          /\ Create(c)
          /\ hpc' = [hpc EXCEPT ![a] = "commit"]
          /\ hcid' = [hcid EXCEPT ![a] = IF hseen[a].container = NoContainer
                                         THEN c ELSE hseen[a].container]
          /\ UNCHANGED <<hseen, htls, early, trust>>
     \/ /\ (\E c \in Containers : Create(c)) \/ UNCHANGED <<live, used>>
        /\ Step(a, "fail") /\ Distrust
  /\ UNCHANGED <<rowVars, certs, project, vhost, queued, events>>

\* Create and start the container; the name may be taken, and starting may fail.
Run(a) ==
  /\ hpc[a] = "run"
  /\ \/ \E c \in Containers :
          /\ Create(c)
          /\ hpc' = [hpc EXCEPT ![a] = "commit"]
          /\ hcid' = [hcid EXCEPT ![a] = c]
          /\ UNCHANGED <<hseen, htls, early, trust>>
     \/ /\ (\E c \in Containers : Create(c)) \/ UNCHANGED <<live, used>>
        /\ Step(a, "fail") /\ Distrust
  /\ UNCHANGED <<rowVars, certs, project, vhost, queued, events>>

\* A failed commit leaves a session that cannot record the error either.
CommitDeploy(a) ==
  /\ hpc[a] = "commit"
  /\ LET new == [hseen[a] EXCEPT !.status = "running", !.container = hcid[a]] IN
     \/ SaveSite(hseen[a], new) /\ Step(a, "vhost") /\ UNCHANGED trust
     \/ SaveFails(hseen[a], new) /\ Finish(a) /\ Distrust /\ UNCHANGED rowVars
  /\ UNCHANGED <<worldVars, events>>

\* The commit expired the site: its columns are loaded again, if it still exists.
WriteVhost(a) ==
  LET written == IF htls[a] = "yes" THEN "https" ELSE "http" IN
  /\ hpc[a] = "vhost"
  /\ hseen' = [hseen EXCEPT ![a] = [Blank EXCEPT !.status = IF exists = "present" THEN siteStatus ELSE @]]
  /\ \/ /\ exists = "present"
        /\ vhost' = written /\ hpc' = [hpc EXCEPT ![a] = "dns"] /\ UNCHANGED trust
     \/ /\ vhost' = vhost \/ (exists = "present" /\ vhost' = written)
        /\ hpc' = [hpc EXCEPT ![a] = "fail"] /\ Distrust
  /\ UNCHANGED <<hcid, htls, early, rowVars, certs, dockVars, queued, events>>

AddDns(a) ==
  /\ hpc[a] = "dns"
  /\ \/ Finish(a) /\ trust' = IF trust = "deploy" THEN "row" ELSE trust
     \/ Step(a, "fail") /\ Distrust
  /\ UNCHANGED <<rowVars, worldVars, events>>

\* The exception handler.
Fail(a) ==
  /\ hpc[a] = "fail"
  /\ \/ SaveSite(hseen[a], [hseen[a] EXCEPT !.status = "error"])
     \/ SaveFails(hseen[a], [hseen[a] EXCEPT !.status = "error"]) /\ UNCHANGED rowVars
  /\ Finish(a)
  /\ UNCHANGED <<worldVars, trust, events>>

\* The job of a compose site, whatever its type by now: it brings the project up, writes the
\* vhost without TLS and records the container, or fails somewhere on the way.
ComposeJob ==
  /\ queued /\ queued' = FALSE
  /\ \/ /\ exists = "present"
        /\ \/ /\ project' = TRUE /\ vhost' = "http"
              /\ siteStatus' = "running" /\ containerId' = Project
           \/ /\ project' \in {project, TRUE} /\ vhost' \in {vhost, "http"}
              /\ siteStatus' = "error" /\ UNCHANGED containerId
     \/ exists = "deleted" /\ UNCHANGED <<project, vhost, siteStatus, containerId>>
  /\ trust' = IF /\ \A a \in Requests : Idle(a)
                 /\ exists = "present" /\ siteStatus' = "running" /\ siteType = "compose" /\ ~Stray
              THEN "row" ELSE "none"
  /\ UNCHANGED <<exists, siteType, certs, live, used, reqVars, events>>

-----------------------------------------------------------------------------
(***************************************************************************)
(* Issuing a certificate; importing a repository.                          *)
(***************************************************************************)
BeginCert(a) == "cert" \in events /\ Begin(a, "cert", "never")

\* Commit the Certificate row; the vhost of a site that is deployed follows.
CommitCert(a) ==
  /\ hpc[a] = "cert"
  /\ \/ /\ exists = "present" /\ certs' = TRUE
        /\ LET later == {b \in Requests : hpc[b] \in {"remove", "run", "commit", "vhost"} /\ ~certs} IN
           \/ /\ containerId # NoContainer
              /\ hpc' = [hpc EXCEPT ![a] = "https"]
              /\ early' = early \cup later
              /\ UNCHANGED <<hseen, hcid, htls>>
           \/ /\ containerId = NoContainer
              /\ hpc' = [hpc EXCEPT ![a] = "idle"] /\ hseen' = [hseen EXCEPT ![a] = Blank]
              /\ early' = early \cup later
              /\ UNCHANGED <<hcid, htls>>
     \/ Finish(a) /\ UNCHANGED certs
  /\ UNCHANGED <<rowVars, dockVars, vhost, queued, trust, events>>

WriteHttps(a) ==
  /\ hpc[a] = "https"
  /\ vhost' = "https" \/ UNCHANGED vhost
  /\ Finish(a)
  /\ UNCHANGED <<rowVars, certs, dockVars, queued, trust, events>>

BeginImport(a) == "import" \in events /\ a \in Threads /\ Begin(a, "clone", "never")

\* import_github replaces the sources, which may fail, and goes by what it finds there.
Import(a) ==
  /\ hpc[a] = "clone"
  /\ \/ \E type \in SiteTypes :
          LET new == [hseen[a] EXCEPT !.type = type] IN
          \/ /\ SaveSite(hseen[a], new)
             /\ trust' = IF siteType' # siteType /\ (live # NoContainer \/ project) THEN "none" ELSE trust
          \/ SaveFails(hseen[a], new) /\ UNCHANGED <<rowVars, trust>>
     \/ UNCHANGED <<rowVars, trust>>
  /\ Finish(a)
  /\ UNCHANGED <<worldVars, events>>

-----------------------------------------------------------------------------
(***************************************************************************)
(* Stopping and deleting.                                                  *)
(***************************************************************************)

\* Remove the containers of the type loaded.  That of a plain site is found by the id in the
\* row as loaded, and failing is only logged; if that is the name of the main container of a
\* compose project, the others of the project stay up.  The panel goes on as well if it cannot
\* remove a compose project, the REST API gives up.
StopContainers(a, next) ==
  /\ \/ /\ hseen[a].type = "plain" /\ Step(a, next) /\ UNCHANGED project
        /\ IF hseen[a].container = NoContainer \/ hseen[a].container # live
             THEN UNCHANGED <<live, trust>>
             ELSE \/ live' = NoContainer /\ UNCHANGED trust
                  \/ "docker" \in events /\ UNCHANGED live /\ Distrust
     \/ /\ hseen[a].type = "compose" /\ UNCHANGED live
        /\ \/ project' = FALSE /\ Step(a, next) /\ UNCHANGED trust
           \/ "docker" \in events /\ UNCHANGED project /\ Distrust /\ Step(a, next)
           \/ "docker" \in events /\ UNCHANGED project /\ Distrust /\ a # Panel /\ Finish(a)
  /\ UNCHANGED <<rowVars, certs, used, vhost, queued, events>>

BeginStop(a) == Begin(a, "stop", "never")

Stop(a) == hpc[a] = "stop" /\ StopContainers(a, "commitStop")

\* Mutant: stopping leaves the id in the row.
CommitStopKeepingId(a) ==
  /\ hpc[a] = "commitStop"
  /\ LET new == [hseen[a] EXCEPT !.status = "stopped"] IN
     \/ SaveSite(hseen[a], new) /\ UNCHANGED trust
     \/ SaveFails(hseen[a], new) /\ Distrust /\ UNCHANGED rowVars
  /\ Finish(a)
  /\ UNCHANGED <<worldVars, events>>

CommitStop(a) ==
  /\ hpc[a] = "commitStop"
  /\ LET new == [hseen[a] EXCEPT !.status = "stopped", !.container = NoContainer] IN
     \/ SaveSite(hseen[a], new) /\ UNCHANGED trust
     \/ SaveFails(hseen[a], new) /\ Distrust /\ UNCHANGED rowVars
  /\ Finish(a)
  /\ UNCHANGED <<worldVars, events>>

BeginDelete(a) == Begin(a, "delete", "never")

DeleteContainers(a) == hpc[a] = "delete" /\ StopContainers(a, "unvhost")

\* The REST API goes on to remove the DNS record, which may fail.
RemoveVhost(a) ==
  /\ hpc[a] = "unvhost"
  /\ vhost' = "none"
  /\ \/ Step(a, "unrow") /\ UNCHANGED trust
     \/ a # Panel /\ Finish(a) /\ Distrust
  /\ UNCHANGED <<rowVars, certs, dockVars, queued, events>>

\* The rows of certificates and jobs go with it: a job still queued finds nothing to do.
DeleteRow(a) ==
  /\ hpc[a] = "unrow"
  /\ \/ exists' = "deleted" /\ certs' = FALSE /\ UNCHANGED trust
     \/ "db" \in events /\ UNCHANGED <<exists, certs>> /\ Distrust
  /\ Finish(a)
  /\ UNCHANGED <<siteStatus, containerId, siteType, dockVars, vhost, queued, events>>

\* The panel process restarts and forgets the requests it was serving.
Restart ==
  /\ "restart" \in events
  /\ \E a \in Requests : ~Idle(a)
  /\ End(Requests)
  /\ Distrust
  /\ UNCHANGED <<rowVars, worldVars, events>>

-----------------------------------------------------------------------------
DeployStep(a) ==
  \/ BeginDeploy(a) \/ Enqueue(a) \/ BeginPull(a) \/ Pull(a) \/ RemoveExisting(a) \/ Run(a)
  \/ CommitDeploy(a) \/ WriteVhost(a) \/ AddDns(a) \/ Fail(a)

ChangeStep(a) ==
  \/ Patch(a) \/ BeginCert(a) \/ CommitCert(a) \/ WriteHttps(a) \/ BeginImport(a) \/ Import(a)

StopStep(a) == BeginStop(a) \/ Stop(a) \/ CommitStop(a)

DeleteStep(a) == BeginDelete(a) \/ DeleteContainers(a) \/ RemoveVhost(a) \/ DeleteRow(a)

Next ==
  \/ \E a \in Requests : DeployStep(a) \/ ChangeStep(a) \/ StopStep(a) \/ DeleteStep(a)
  \/ ComposeJob \/ Restart

Spec == Init /\ [][Next]_vars

-----------------------------------------------------------------------------
HandlerSteps == {"idle", "pull", "remove", "run", "commit", "vhost", "dns", "fail", "cert", "https",
                 "clone", "stop", "commitStop", "delete", "unvhost", "unrow"}

\* Every variable holds a value of its kind, and Docker only knows ids it gave.
TypeOK ==
  /\ exists \in {"present", "deleted"} /\ Current \in Columns /\ certs \in BOOLEAN
  /\ live \in used \cup {NoContainer} /\ used \subseteq Containers /\ project \in BOOLEAN
  /\ vhost \in {"none", "http", "https"} /\ queued \in BOOLEAN
  /\ hpc \in [Requests -> HandlerSteps]
  /\ hseen \in [Requests -> Columns]
  /\ hcid \in [Requests -> Ids]
  /\ htls \in [Requests -> {"never", "no", "yes"}] /\ early \subseteq Requests
  /\ trust \in {"row", "deploy", "none"} /\ events \in Worlds

\* The row agrees with Docker: it names the container that has the site's name, or the compose
\* project, according to its type, says running exactly when that is up, and nginx serves it.
Agrees ==
  /\ ~Stray
  /\ containerId = IF siteType = "plain" THEN live ELSE IF project THEN Project ELSE NoContainer
  /\ (siteStatus = "running") <=> (containerId # NoContainer)
  /\ containerId # NoContainer => vhost # "none"

\* Requests that meet nobody and no fault keep the row true, and a deploy that meets nobody
\* makes it true whatever happened before (overlapping requests, crashes between
\* containers.run and the commit, refusals by Docker, a status somebody patched), unless
\* containers of another type are left.  In particular stop and delete, which look for what
\* the row says, then leave no container behind.  Importing a repository of another type is
\* harmless while the site is down; under running containers it ends the trust, and so does
\* pull-and-deploy of a compose site.
RowIsTrue ==
  trust = "row" /\ (\A a \in Requests : Idle(a)) =>
    IF exists = "present" THEN Agrees ELSE live = NoContainer /\ ~project /\ vhost = "none"

\* A vhost loses TLS again only to the panel's deploy button, a compose job, or a deploy that
\* had looked for a certificate before it was issued (deploy_site, pull_and_deploy_ui).
HttpsIsKept ==
  [][vhost = "https" /\ vhost' = "http" =>
       \/ \E a \in Requests : hpc[a] = "vhost" /\ (htls[a] = "never" \/ a \in early)
       \/ queued /\ ~queued']_vars

(***************************************************************************)
(* The inductive invariant behind them.                                    *)
(***************************************************************************)

\* Whoever is trusted works alone.
AloneInv ==
  trust # "none" => \A a, b \in Requests : ~Idle(a) /\ ~Idle(b) => a = b

\* How far a lone request has got fixes what the row and Docker look like meanwhile.
Reached(a, pcs) == hpc[a] \in pcs

Changes == {"cert", "https", "clone"}

RowInv ==
  trust = "row" =>
    /\ exists = "deleted" =>
         live = NoContainer /\ ~project /\ vhost = "none" /\ \A a \in Requests : Idle(a)
    /\ /\ exists = "present"
       /\ \A a \in Requests : Reached(a, Deploys \cup Changes \cup {"idle", "stop", "delete"})
       => Agrees
    /\ exists = "present" => ~Stray
    /\ \A a \in Requests :
         /\ Reached(a, Deploys \cup Changes \cup {"idle", "stop", "commitStop", "delete", "unvhost", "unrow"})
         /\ Reached(a, Deploys) => siteType = "plain"
         /\ Reached(a, Deploys \cup {"clone", "stop", "delete"}) => hseen[a] = Loaded(hpc[a])
         /\ Reached(a, {"commitStop"}) => hseen[a] = Loaded("stop")
         /\ Reached(a, {"https"}) => containerId # NoContainer
         /\ Reached(a, {"commitStop", "unvhost", "unrow"}) => live = NoContainer /\ ~project
         /\ Reached(a, {"unrow"}) => vhost = "none"

DeployInv ==
  trust = "deploy" =>
    /\ exists = "present" /\ siteType = "plain" /\ ~project
    /\ \E a \in Requests : Reached(a, {"pull", "remove", "run", "commit", "vhost", "dns"})
    /\ \A a \in Requests :
         /\ Reached(a, {"pull", "remove", "run", "commit"}) => hseen[a] = Loaded("remove")
         /\ Reached(a, {"commit"}) => live = hcid[a] /\ live # NoContainer
         /\ Reached(a, {"vhost", "dns"}) =>
              siteStatus = "running" /\ containerId = live /\ live # NoContainer
         /\ Reached(a, {"dns"}) => vhost # "none"

\* Who writes TLS has seen a certificate, and who does not has looked too early.
TlsInv ==
  exists = "present" =>
    /\ vhost = "https" => certs
    /\ \A a \in Requests :
         /\ htls[a] = "yes" \/ hpc[a] = "https" => certs
         /\ Reached(a, {"remove", "run", "commit", "vhost"}) /\ htls[a] = "no" /\ certs => a \in early

Inv == TypeOK /\ AloneInv /\ RowInv /\ DeployInv /\ TlsInv
=============================================================================
