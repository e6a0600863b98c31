# A TLA+ verification of LinkHosting

LinkHosting runs web sites on one home server: a FastAPI control plane
(`src/control-plane/app`) keeps sites, deploy jobs, certificates, databases and
SFTP accounts as rows of a database, and makes Docker, nginx, CoreDNS, two
database servers and an SFTP server agree with them. It takes no locks: what
holds between a row and the world holds by the order in which the code does
things. These specifications say what that order guarantees, check it with TLC
on small instances, and prove the central parts with TLAPS for instances of
any size.

Contents: [the system](#the-system), [the modules](#the-modules),
[the runs](#the-runs), [the proofs](#the-proofs),
[what the work has shown](#what-the-work-has-shown),
[what is not modelled](#what-is-not-modelled),
[plan](#plan), [running it](#running-it).

## The system

| Process | Code | Runs |
|---|---|---|
| panel | `main.py`, `api/*.py` | an event loop that serves `/panel` (`api/ui.py`, handlers are `async` and block, so one at a time) and the threads that serve the REST API (`api/sites.py`, `databases.py`, `sftp.py`, `certs.py`: plain `def`, in parallel) |
| worker | `jobs.py` under `rq worker deploy` | one job at a time, each in a forked child that RQ interrupts after `DEPLOY_JOB_TIMEOUT_SECONDS` and kills a minute later |
| Redis | third party, no volume | the queue `deploy` and RQ's own status of each job |
| database | third party | the rows; one transaction per commit |
| Docker, nginx, CoreDNS, PostgreSQL, MariaDB, SFTP | third party | what the rows describe |

The inventory. "Hard" names what makes a component difficult to test; the
hazards in `PROJECT.json` give the lines.

| Component | State | Operations | Talks to | Hard | Correct when |
|---|---|---|---|---|---|
| Deploy queue (`jobs.py`, `ui.py:660-915`, `sites.py:156-226`) | `DeployJob` rows, the queue, RQ's registry | deploy, update, self-update, run a job, alarm, cleanup | Redis, the worker, Docker | a row inserted before it is pushed, its id recorded after; Redis away or emptied; crash, alarm and kill inside a job; a guard that reads rows and RQ | the guard sees live jobs and lets go of dead ones; a verdict is true, and final once the worker has left the job |
| Compose site (`jobs.py`, `sites.py`, `ui.py`, `proxy.py`, `certs.py`) | `Site`, `Certificate` rows, containers, vhost, DNS record, certificate files | deploy and update jobs, stop, delete, issue a certificate | Docker, nginx, hosts file | jobs and requests on one site at once; ORM sessions that write only what they believe changed | verdicts are true, deletions complete, nginx has the certificates it is told of |
| Plain site (`container.py`, `sites.py`, `ui.py`) | `Site` row, one container | deploy, pull and deploy, stop, delete, patch, certify, import, all inside the request | Docker, git, nginx | a container found by name or by recorded id; three routes to the same effect; a type that changes under running containers | the row names the container that runs, and HTTPS stays on |
| Credentials of compose sites (`wordpress.py`, `pl_cms.py`) | `.secrets`, `docker-compose.yml`, the database volume | generate, reuse, stage sources, import | Docker, git | files truncated before they are written; a directory replaced under a running job | the containers' password opens the volume |
| Databases of a site (`databases.py`, `database.py`) | `SiteDatabase` row, database, role | create, undo, drop | PostgreSQL, MariaDB | several statements without a transaction; check, then act; what a deleted site leaves | a row is backed by what its password opens |
| DNS records, SFTP accounts (`dns.py`, `sftp.py`, `api/sftp.py`) | two text files; `SFTPAccount` rows | add, remove, initialise | the worker, CoreDNS, SFTP | read, change, truncate, write, by three processes' worth of writers | nobody's entry is lost |
| Certificate authority (`cert.py`, `certs.py`, `ui.py:1550-1600`) | CA key and certificate; key, certificate and `Certificate` row per site | create the CA, download its root, issue, rotate by hand | nginx, clients | first requests at the same time; two files per certificate, truncated in place | a key belongs to its certificate, and clients that trust the root trust the site |
| Panel settings (`ui.py:1010-1060, 1515-1545`) | process-wide `Settings`, override files | change password, set token | worker (which does not see them) | best-effort files behind in-memory values | what was accepted survives a restart |
| Create and import a site (`sites.py:37-99, 351-403`, `github.py`) | `Site` row, source directory | create, import, change type | git | check then insert; directory removed before the clone | one type of containers per site (in Plain site) |
| File manager (`file_manager.py`, `ui.py:418-660`) | none of its own: the directory of a site, on the host or in the container | create, upload, save, move, delete | the site's processes, Docker | checks and acts are separate calls; one backend follows links before it acts, the other does not | success is true, and nothing is lost that was not named |
| Log limits, vhost text, views, authentication, CLI | none that others rely on | | | | |

## The modules

Every component has a module of its own that declares its state, one action per
step at which somebody else may intervene (a committed transaction, a call to
Redis, a docker command, the truncation of a file, the write that follows), and
its properties; an `MC` module that adds the symmetry TLC uses; and a `_proofs`
module. All of them describe production mode; `DEV_MODE`, which skips Docker and
runs jobs inline, is left out everywhere.

Each module has a constant `Events`, the faults and external acts an instance
allows (`PlainSite` has `Worlds`, a set of such sets, so that one run can look at
several). A theorem without an assumption on them holds for every choice.
Several modules have *history* variables (`overlap`, `disturbed`, `trust`,
`early`, `clouded`, `vouched`, `lost`, `trusted`, `solo`, and `seen` of `FileManager`): no action is guarded by them. They let a property
speak of "a request that met nobody", which is the strength of what this
lock-free code can promise.

### JobLedger, JobFlow and DeployQueue

`JobLedger` is the abstract specification: what a reader of `GET /jobs/{id}` may
rely on. A row is created queued and runs at most once; containers are rebuilt only
for a row that says running or was deleted with its site; succeeded only after the
rebuild. `failed` is final at once, `succeeded` when the worker leaves the job: until
then it may turn the success into a failure. The code does so because the log line
after the commit (`jobs.py:114, 200, 357`) loads the name of the site again, inside
the `try`: when that fails, or the alarm arrives there, the handler of exceptions
commits `failed`.

`JobFlow` is a second abstract specification: how jobs move. The code has no retry
anywhere and leaves the rest to RQ, so a job is pushed at most once and executed at
most once, one at a time and in the order of the pushes; it may get lost before its
push, with its request, or in the queue, with the data of Redis.

`DeployQueue` is the queue in detail and implements both.

| State | In the code |
|---|---|
| `status, kind, siteOf, rqId, age` | `DeployJob` rows; `rqId` is `rq_job_id`, `age` the time since `created_at` |
| `redis, queue, rq` | Redis reachable; the list; RQ's status of a job |
| `wpc, wjob, ran, waited, alarm` | the worker's place in `run_wordpress_deploy`, `run_pl_cms_deploy` or `run_pl_cms_update`, and RQ's timer |
| `hpc, hjob, hsite` | a request between INSERT, push and the commit of the id |
| `recreate` | services `docker compose up --force-recreate` has yet to replace |
| `built` | jobs that have rebuilt their containers, the one effect kept |

`Deploy`, `Enqueue`, `RecordId`, `GiveUp` are `deploy_site_ui`,
`_deploy_compose_site_async` and `_enqueue_deploy_job`, and `RequestError` is a statement of theirs that fails; `CheckUpdate` and
`InsertUpdate` are `update_pl_cms_site_ui` around its guard `Active`
(`_active_deploy_job`); `CheckSelfUpdate`, `LaunchRecreate`, `RecreateWorker`,
`RecreatePanel` are the self-update; `Take` to `CommitJob` and `Report`, the log line
after the verdict, are a job; `Abort` is its exception handler. A database statement
that fails, in a handler without a rollback, leaves the row as it was
(`DatabaseError`); the one in `Report` leads to `Abort` (`Caught`), since the commit
before it has ended the transaction.

Time: a tick is minutes. Nothing that takes milliseconds (two transactions in a
row, a poll of an idle worker) has one inside, a build or a pull may. `Timeout`,
`Grace` (the minute between RQ's alarm and its kill) and `Slack` (the 300 s the
guard adds) are in ticks. The alarm may arrive at every step of a job once `Timeout`
ticks have passed, and what it does depends on the code it arrives in: it is caught
and becomes a failure (`AlarmIsCaught`), vanishes in a helper that swallows every
exception (`AlarmIsSwallowed`), or leaves the job function (`AlarmEscapes`). The
commands that make room on the disk have timeouts of their own that end before the
alarm.

### SiteDeploy

One compose site: its rows, containers, vhost, DNS record and certificate files
under the worker's jobs, stop, delete and certificate requests. `seen` holds the
columns a job's SQLAlchemy session loaded: `SaveSite` writes only columns whose new
value differs from the loaded one, which is what the ORM does, and `UpdateFails` is
the UPDATE of a row that is gone; `hwrites` are the columns the UPDATE of a stop will
name. `Patch` is `PATCH /sites`, which saves the status its caller sends. Issuing a
certificate truncates and fills `key.pem`, then `cert.pem` (`OpenKey`,
`FillKeyOpenCert`, `FillCert`; `pem`), and may break off in between, at a full disk
(`IssueFails`) or a restart; `issued` records whether a request has ever written both
to their end and whether a later one broke off. `Report` is the log line after the
verdict, as in `DeployQueue`. A push always succeeds here, and the alarm does not
ring; both are `DeployQueue`'s subject.

### PlainSite

A site with one container, `live`, found by its fixed name when it is replaced
(`RemoveExisting`) and by the id in the row when it is stopped (`Stop`,
`DeleteContainers`). `Run` may create the container and fail afterwards. `htls` is
what a deploy decided about TLS: `BeginDeploy` (the REST API) and `Pull` decide
before the container is provisioned, the panel's deploy button never asks, and
`WriteVhost` acts on it. `CommitCert` and `WriteHttps` are the certificate routes.
`Import` replaces the sources and may change `siteType`; from then on every route
goes by the new type while `live` or `project`, the containers of the old one,
may still be there (`Stray`). A deploy of a compose site only queues a job, which
is the single step `ComposeJob` here and `SiteDeploy`'s subject. `trust` is
`"row"` while requests met nobody and no fault, `"deploy"` while a lone deploy is
at work, which restores it.

### InternalCA

| State | In the code |
|---|---|
| `caKey, caCert` | `ca.key`, `ca.crt`: `Missing`, `Torn` (truncated, not yet written) or a key; a CA certificate is named after its key |
| `keyFile, certFile, rows` | `key.pem`, `cert.pem` (which also holds the chain) and the `Certificate` rows of each site |
| `hpc, hsite, hca, hkey, hrows` | a request between the check of `_ensure_ca` and its commit, with what it holds in memory |
| `rotation` | the operator following `docs/ca-trust.md` has deleted the first of two files |

`Ask`, `LoadKey`, `LoadCert` and the four `...Ca...` writes are `_ensure_ca`;
`Sign` to `WriteCert` are `issue_cert`; `DeleteRows` and `Commit` are the routes.
`caTrust` ends when two creations overlap or one dies behind a `ca.crt` that
exists; `pairTrust` when two requests for a site meet or one dies while writing;
`vouched` holds for a site from the commit of a request that met nobody until the
CA is deleted. What nginx is told is in `SiteDeploy` and `PlainSite`.

### SiteSecrets

The password of the database of a WordPress or PL_CMS site: what
`docker-compose.yml` and `.secrets` hold (`Missing`, `Torn`, or a password), what
the volume was initialised with, what the containers were given. `Open...` and
`Write...` are the two halves of `Path.write_text`. A WordPress job generates the
project twice (`jobs.py` and `deploy_wordpress`), a PL_CMS job stages missing
sources first. The repository of a site is taken to track neither file, and
imports of one site not to overlap.

### FileManager

One directory of a site, `dir`: under each name a file, a folder (abstracted to
the contents in it), a link or nothing. `Leads(n)` is where the links from `n`
end, which is what `Path.resolve`, `Path.exists`, `test -e` and `readlink -f` look
at; a circle of links ends nowhere. Links may also lead out of the directory, to the
files `Outside`, which no form can name. What a request saves, moves or deletes must
not lead there (`Real`). A new name is not asked where it leads: if it is a dangling
link out of the directory, `HostFileBackend` writes the new file out there
(`file_manager.py:139`, `Open`), while the other backend replaces the link.
`HostCreate` to `HostDelete` and `WpCreate` to
`WpDelete` are the checks of the two backends, `Open` to `Rm` the calls that act
afterwards (`write_text` is two, truncation and writing), each as the operating
system or Docker does it: `rename(2)` replaces a file, `mv` goes into a folder that
has appeared, an unpacked archive replaces whatever has the name. `Others` is
everybody else who changes an entry between the two: the processes of the site, an
import, a job. `seen` are the entries a request's checks depended on, until one of
them is changed. Uploading is creating; nested folders behave like the directory
itself and are not modelled.

`MCSiteDirectory` instantiates this module next to `SiteSecrets`, the other one
about the directory. They look at different files and share no variable, so a
behaviour of the run is one of either; names both would define begin with `File`
here (`FileInit`, `FileNext`, `FileSpec`, `FileEvents`).

### SiteDatabases

One site, one engine: row, database, role and password, privileges. Each SQL
statement is a step; `Refused` is the server saying no, or somebody else having
come between a check and its statement. `Commit` inserts the row or goes to undo what
was created; `Refresh` is the look at the row after the commit, in the same `try`
(`databases.py:70-84`): when it fails, the undo drops what a committed row stands for. Rows are numbered by the birth of their
site, since names are made from the site's and outlive it.

### KnownEntries and SharedFile

The hosts file of CoreDNS and `users.conf` of the SFTP server are kept in the
same way, so one module describes both; `kind` says which. `Read`, `Open` and
`Write` are the rewriting; `Boot` is the start of the panel, which serves nobody until
it has created the hosts file, and starts again when it cannot. Overlapping writers may leave a mixture (`Written`).
For accounts the entry is written before the row is committed (`Commit`), and
`owed` is the row; for DNS records nothing in the database says what the file
should hold, and `owed` is what the last request for the name asked for. An entry
is whole or absent: a line cut in the middle by a full disk is not modelled.

`KnownEntries` is the abstract specification: a table of the entries that can be
known, which requests change one at a time, the entry and its record at once. No entry
is known from the moment two requests meet, or a writer is cut off with the file
empty, until a request for it has run alone. The
mapping (`Table`) takes an entry from the file, or, while the file is empty because a
lone writer has yet to fill it, from what that writer holds (`Surviving`); an entry is
not known while its own request may have changed one of file and record and not the
other (`Known`).

## The runs

All constants are model values. Every run finishes in about three minutes on two
cores, most within one.

| Run | Instance | Shows |
|---|---|---|
| `Queue_faults` | 2 jobs, 1 PL_CMS site, 1 thread and the panel, `Timeout` 2; worker crashes, failing statements of the worker and of requests, deletions, self-update | `GuardSeesLiveJobs`, the inductive `Inv`, `DuplicatesAreOverdue`, refinement of `JobLedger` (`ImplementsLedger`) |
| `Queue_owned` | 2 jobs, 2 sites (one WordPress), 1 thread and the panel; lost replies, failing statements of the worker, crashes, deletions | `QueuedRowsAreOwned`, `FinishedJobsHaveVerdict`, refinement of `JobFlow` (`ImplementsFlow`) |
| `Queue_live` | 2 jobs, panel; outages, crashes, losses of Redis' data; fairness; `Grace`, `Slack` 0 | `UnsettledJobsAreTracked`, `GuardReleases`, `PushedJobsSettle` |
| `Site_compose` | 1 job, deploy or update, 1 thread, panel; crashes, restarts, a full disk, failing statements, refusals by Docker | the inductive `Inv`, `CertificateBehindHttps`, `QuietDeleteIsComplete`, `VerdictIsTrue` |
| `Plain_site` | 2 containers, 1 thread, panel, three worlds: all faults and `PATCH`; certificates; imports | `Inv`, `RowIsTrue`, `HttpsIsKept` |
| `Internal_ca` | 1 site, 3 CA keys, 3 site keys, 1 thread, panel; restarts, full disk, rotation | `Inv`, `CaIsUsable`, `PairsBelong`, `ClientsTrustSites` |
| `Site_directory` | 4 passwords, all faults, both kinds of site; 3 names and a file their links may lead out to, 2 contents, both backends, all faults | `Inv`, `SecretsOpenVolume` of `SiteSecrets`; `ManagerInv`, `SuccessIsTrue`, `NothingElseIsLost` of `FileManager` |
| `Databases_site` | 4 passwords, 2 threads, panel, 2 births, both engines, all faults | `Inv`, `RowIsBacked` |
| `Shared_files` | 2 keys, 3 passwords, worker, 2 threads, panel, both files, all faults | `Inv`, `EntriesAreTrue`, refinement of `KnownEntries` (`ImplementsTable`) |
| `Queue_duplicate`, `Queue_verdict`, `Site_https` | as above | three claims of the documentation that fail, see below |

Why these bounds are enough for the interesting cases: two jobs make one wait
behind another, which is what the guard's age test is about; `Timeout`, `Grace`
and `Slack` of one tick make every order of alarm, kill and cutoff happen
(`Queue_faults` and `Queue_duplicate` have `Timeout` 2, so that a job can wait for
less than another runs), and `TooOld` only stops counting where
nobody looks. `Queue_live` sets `Grace` and `Slack` to 0 to keep the
behaviour graph small; the safety runs cover the values in between. One job and
two requests give every pair of actors on a site, and a job may wait through a
deletion. Two containers are a container and its replacement; a third creation is
the second one over again, since a deploy forgets what it replaced. Of the
passing runs only `Queue_live` has outages of Redis and losses of its data; what the
safety properties say of them is in the theorems. The worlds of
`Plain_site` keep apart what would only multiply: certificates do not read the
type, imports do not read certificates; the proofs cover every combination. Three
CA keys are the one on disk, its rival and the one after a rotation, and the same
for the keys of a site; a second site matters only through the CA, which downloads
of the root (requests for no site) exercise, and the proofs cover any number. Four passwords are a creation, its rival, what a
former site left and a retry; two births make a site meet its predecessor. Two
keys are the entry that is changed and the entry that must survive, and three
writers and the panel's start let one request overlap two others. Three names are
a source, a destination and what one of them links to, the file outside what any of
them may; two contents are the one
sent and the one that must survive.

`CHECK_DEADLOCK FALSE` appears where a site is deleted for good and nothing
remains to happen.

Fairness (`FairSpec` of `DeployQueue`) is what the deployment provides: the
worker container restarts and polls (`restart: unless-stopped`), so `Work` is
weakly fair and `Take`, which an outage of Redis disables again and again,
strongly; handlers run to completion; time passes; Redis comes back; RQ cleans
its registry of abandoned jobs, strongly fair because an outage suspends it.
Users and faults are not fair. No liveness property relies on anybody asking for
a deploy.

## The proofs

TLAPS proves the theorems below for any number of jobs, sites, threads, keys,
passwords, certificates, containers and file names, and any timeouts and events. Assumptions on the constants are
the named `ASSUME`s (special values are not members of the sets they extend).

In each module the theorem `Invariant` says that `Inv`, the inductive invariant
the runs check on small instances, holds in every reachable state; the other
theorems follow from it. No theorem `Invariant` assumes anything about the faults.

- **DeployQueue_proofs** The invariant says that a job is in one place at a time (its
  handler, the queue, the worker) and that the place fixes what its row and RQ
  say of it; without that, a job taken twice could move a row out of a verdict.
  It is stated for the worst environment: where the data of Redis or the reply to a
  push can get lost, its parts say what is left (`NotBegun`, `GivenUp`, `Unpushed`).
  `age <= waited + ran` relates the guard's clock to the worker's. What the theorems
  assume beyond it:

  | Theorem | States | Assumes | Because otherwise |
  |---|---|---|---|
  | `TypeCorrect`, `Invariant` | `TypeOK`, `Inv` | nothing | |
  | `VerdictCorrect` | `FinishedJobsHaveVerdict` | nothing | |
  | `UnsettledTracked` | `UnsettledJobsAreTracked` | nothing | |
  | `FlowRefinement` | `ImplementsFlow` | nothing | |
  | `JobsNeverGoBack` | `NeverBack` of `JobFlow` | nothing | |
  | `GuardCorrect` | `GuardSeesLiveJobs` | `DataSurvives`: Redis does not lose its data | the job being executed is unknown to RQ, and the guard takes it for dead |
  | `LedgerRefinement` | `ImplementsLedger` | `RepliesArrive`: Redis acknowledges the pushes it takes | a row marked failed starts to run |
  | `VerdictsStand` | `SuccessIsEarned`, `VerdictIsFinal` of `JobLedger` | `RepliesArrive` | the same |
  | `DuplicatesOverdue` | `DuplicatesAreOverdue` | both | either makes the guard skip a job in hand |
  | `OwnedCorrect` | `QueuedRowsAreOwned` | `Steady`: `DataSurvives`, Redis up, no self-update, no failing statement of a request | the job, or the request about to push it, is gone, and its row stays queued |

  `QueuedRowsAreOwned` has one exception of its own where the worker may die or its
  statements fail (`LostAtStart`): the job it was handed when that happened before it
  had committed `running`. RQ does not hand it out again, and its row stays queued.

  Of each of the four that a run checks, TLC finds a counterexample as soon as an event
  that is assumed away is added to the instance: no assumption is there for the sake of
  the proof.
  `PlaceInv` (a job RQ knows as queued is in the queue) is what `UnsettledTracked`
  needs: the safety half of `PushedJobsSettle`, the other half being fairness. The
  two refinement lemmas (`LedgerStep`, `FlowStep`) map every action to a step of the
  abstract specification or a stutter, under the invariant; in `FlowStep` a handler
  between INSERT and push still holds its job (`NotPushed`). `VerdictsStand` and
  `JobsNeverGoBack` derive what the abstract specifications promise their readers from
  those specifications alone, and carry it over to the queue.
- **SiteDeploy_proofs** `TypeCorrect`, `CertificateCorrect`
  (`CertificateBehindHttps`), `QuietDeleteCorrect` (`QuietDeleteIsComplete`),
  `VerdictCorrect` (`VerdictIsTrue`). `VerdictInv` carries that the session
  of an undisturbed job still equals the row: only then does an UPDATE of
  "changed" columns produce the row it means to. `CertInv` says which of the two files
  each step of a request leaves whole.
- **PlainSite_proofs** `TypeCorrect`, `RowCorrect`, `HttpsKept`. `AloneInv`
  (whoever is trusted works alone) reduces interleavings to one request, `RowInv`
  and `DeployInv` say how far it got, with the type it loaded. `TlsInv` relates
  what a deploy decided to the certificates there are now: who decided against TLS
  although there is one is in `early`.
- **InternalCA_proofs** `AuthorityStaysUsable` (`CaIsUsable`),
  `KeysMatchCertificates` (`PairsBelong`), `RootVouchesForSites`
  (`ClientsTrustSites`). `CaInv` says that a creator whose CA is trusted is the
  only one and what it has written so far, and that a request which met nobody
  holds the CA on disk; `PairInv` that the writer of a site's files is alone and
  what it leaves at each step; `VouchInv` that a new certificate of a site already
  vouched for is signed by the same CA.
- **SiteSecrets_proofs** `TypeCorrect`, `SecretsCorrect`. `FilesInv` says that a
  compose file that survives until `docker compose up` holds the job's password,
  and then so does `.secrets`; `VolumeInv` that the volume's password is in the
  files or in the job that rewrites them.
- **FileManager_proofs** `SuccessTrue` (`SuccessIsTrue`), `NothingElseLost`
  (`NothingElseIsLost`). Links make this more than a case analysis: a route is the
  least set of names closed under following links, it has at most one end
  (`EndUnique`), it stays while the entries on it stay or are replaced at its end
  (`RouteKept`), and a name that leads nowhere is not on the way to something
  (`OffRoute`). Hence a change elsewhere cannot overtake a check (`ChecksStand` in
  `ManagerInv`). Its inductive invariant is called `ManagerInv`.
- **SiteDatabases_proofs** `TypeCorrect`, `BackedCorrect`. `CreateInv` and
  `DeleteInv` give the state of the server at each step of a lone request, `CreateInv`
  also that of the row: an undo finds it uncommitted, as long as the look at the row
  after a commit has not failed, which ends the trust.
- **SharedFile_proofs** `TypeCorrect`, `EntriesCorrect`, `TableRefinement`
  (`ImplementsTable`). They are about requests that follow one another: a meeting of
  two, in which the code may lose any entry, ends what they say until each name has had
  a lone request. `SoloInv`: requests that
  have met leave nothing to trust until all of them are done; `CopyInv`: a lone
  writer carries the trusted entries of the others through the rewriting. For the
  refinement, `KnownIs` says what the mapping amounts to at rest and during a lone
  request, `KnownIsTrue` that it maps file and record to the same table, and
  `KnownStep` that a step makes at most one more entry known and changes none that
  stays known.

Only model-checked: the liveness properties (`GuardReleases`, `PushedJobsSettle`;
TLAPS has no `ENABLED`), and the three violated claims.

## What the work has shown

Three statements of the documentation do not hold of the code; each has a run
whose counterexample shows it.

1. `Queue_duplicate`: the guard skips rows by age before it asks RQ, so an update
   is accepted while an earlier job of the same site, which waited behind others,
   is still in the queue or executing. The docstring (`ui.py:779`) says a duplicate is never
   started by mistake. `GuardSeesLiveJobs` and `DuplicatesAreOverdue` state what does hold: a job is
   seen if it is in the queue and not older than the cutoff, or being executed and had
   waited at most `Slack - Grace`, and nothing else lets a duplicate in.
2. `Queue_verdict`: a deploy whose push fails stays queued for ever
   (`sites.py:220`, `ui.py:843-855`), against `README.md:274`. There are other ways to
   the same end: a worker that dies, or loses the database, before it has committed
   `running` (`jobs.py:65`; `LostAtStart`), a request that loses it between INSERT and
   push, and Redis losing the queue.
3. `Site_https`: every job writes the vhost without TLS, so deploying turns HTTPS
   off, against the message of `ui.py:1597`.

Other behaviours the models exhibit and no property forbids, since no document
promises otherwise: a deploy that succeeded is reported as failed when the log line
after the commit of its success cannot load the site, or the alarm rings there; a
creation of a database whose row was committed drops the database again when the row
cannot be read back, and leaves the row; a lost reply to a push marks a row failed that the worker
then runs; a self-update interrupts a deploy accepted during its `git pull`;
deleting a site under a running job brings its containers back; the panel's
delete leaves the DNS record; of two concurrent creations of a database the
loser's cleanup drops the winner's; of two concurrent creations of an SFTP
account the loser's password ends up in `users.conf`; a retry after a refused
`CREATE DATABASE` hands out a password the existing role does not have; an import
that changes the type of a running site leaves its containers behind, where
neither stop nor delete looks for them; pull-and-deploy puts a plain container
next to a compose project; the panel's deploy button and a certificate issued
during a deploy each leave a plain site without TLS although it has a certificate;
of two first requests for a certificate one may get a CA that is no longer on disk,
or the key of one CA may end up with the certificate of the other, and then every
later site certificate is signed by a key clients do not trust; a request that dies
between `key.pem` and `cert.pem` leaves a pair nginx refuses to load. Deleting or
moving a link in the host file manager deletes or moves what it leads to and leaves
the link dangling, and a dangling link counts as a free name, so that a new file may be
made where it leads, out of the directory of the site too; in `wp-content` the
link itself goes, and saving through a link replaces it with a file. After a
rotation it is the next request for a certificate or for the root that makes the
new CA, not the restart of the control plane `docs/ca-trust.md:78` asks for.

The history variables draw the boundary: these happen where requests meet, are
overtaken, cut off or refused, and there the properties of the databases, the shared
files, the CA and the file manager say nothing of what is lost. The theorems say that
none of it happens to a request that goes through alone, and that a lone deploy, a lone
deletion of the database or a lone request for the same name repairs what such a
meeting left. `PROJECT.json` marks the hazards that lie outside of the boundary.

## What is not modelled

- The settings of the panel (password, GitHub token, repository): one value in
  memory and one best-effort file, written by one request of the event loop in one
  step. What goes wrong there (the file is on no volume, the worker reads none of
  them) is configuration, not an order of steps.
- Creating a site (check, then insert; the database refuses the second), and the
  forms that change one JSON column of the row (environment, web settings, build
  directory) in a single step of the event loop.
- The change between the two compose types, WordPress and PL_CMS, by an import;
  `PlainSite` has plain and compose. Column `env_vars` as such.
- `DEV_MODE`; RQ's expiry of finished jobs; the retention of job logs.
- Two people editing the same file in the file manager: the later save wins, by
  design of the form. Path and name normalisation, which changes no state.
- The text of vhosts, compose files and log limits; read-only views; sessions and
  tokens; `docker exec` from the panel; the command line tools, which are clients
  of the API.
- nginx, CoreDNS, the SFTP server and both database servers beyond what the code
  asks of them. That the SFTP server reads `users.conf` only when it starts is
  its configuration, not the control plane's.

## Plan

What was planned is done, in the order of its importance: `JobLedger` and
`DeployQueue`, through which every background deploy passes; `SiteDeploy` and
`PlainSite`, what a deploy does to a site; `SiteSecrets`, `SiteDatabases`,
`SharedFile`, `InternalCA` and `FileManager`, the state behind a site; the theorems. What would
come next:

1. An abstract contract of a site (deployed, stopped, deleted) that `SiteDeploy`
   and `PlainSite` both implement while undisturbed, and `DeployQueue` composed
   with `SiteDeploy` on one site, where the verdict of a job and the containers
   are related across a crash. Their product is beyond a run of a few minutes, so
   the contract has to come first; for the queue it is there, as `JobFlow`.
2. Repairs as theorems: that a lone request of `SharedFile` or `SiteDatabases`
   always reaches a trusted state.

## Running it

    tlc -workers 2 -config Queue_faults.cfg MCDeployQueue.tla
    tlapm DeployQueue_proofs.tla

`PROJECT.json` lists the components, the runs, a mutant for each checked
property (a plausible slip in a mapped definition that TLC must refute), the
source lines each definition stands for, the hazards and the theorems.
Definitions whose comment says *Mutant* are those slips; no action uses them.
