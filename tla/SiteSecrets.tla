------------------------------ MODULE SiteSecrets ------------------------------
(***************************************************************************)
(* The database password of one compose site.  A deploy writes it into     *)
(* files of the site's directory, and the database server takes it from    *)
(* there once, when its volume is empty; from then on only that password   *)
(* opens the volume, so every later deploy must find it again:             *)
(*                                                                         *)
(*   WordPress  in .secrets, which it rewrites after docker-compose.yml;   *)
(*   PL_CMS     in docker-compose.yml, else in .secrets, and it rewrites   *)
(*              only the former.                                           *)
(*                                                                         *)
(* Path.write_text truncates before it writes.  The worker runs one job at *)
(* a time; a GitHub import, in a thread of the panel, replaces the whole   *)
(* directory and asks nobody.  The repository of a site is taken to track  *)
(* neither file.                                                           *)
(***************************************************************************)
CONSTANTS
  Secrets,    \* passwords; one is drawn whenever none is found
  NoSecret,
  Events      \* what the environment may do in this instance

PossibleEvents ==
  {"crash",    \* the worker, or the process that runs the job, is killed
   "disk",     \* the disk fills up: a file is truncated and not written
   "compose",  \* docker compose up fails
   "import",   \* the site is imported from GitHub again
   "files"}    \* the sources are deleted in the file manager

Missing == "missing"
Torn    == "torn"     \* truncated: nothing can be read from it
Files   == Secrets \cup {Missing, Torn}

ASSUME SiteSecretsAssumption ==
  /\ NoSecret \notin Secrets
  /\ Missing \notin Secrets /\ Torn \notin Secrets
  /\ Events \subseteq PossibleEvents

VARIABLES
  kind,                         \* the type of the site
  compose, secretsFile,         \* docker-compose.yml, .secrets
  source,                       \* what else the directory holds
  volume,                       \* the password the database was initialised with
  running,                      \* the password the containers were given
  used,                         \* passwords drawn so far
  wpc, wjob, wsecret,           \* the worker: next step, job, the password it merged
  ipc,                          \* the import: next step
  lost                          \* history: see SecretsOpenVolume

dirVars    == <<compose, secretsFile, source>>
dockerVars == <<volume, running>>
jobVars    == <<wpc, wjob, wsecret>>
vars       == <<kind, dirVars, dockerVars, used, jobVars, ipc, lost>>

Kinds == {"wordpress", "pl_cms"}

Init ==
  /\ kind \in Kinds
  /\ compose = Missing /\ secretsFile = Missing
  /\ source \in {"absent", "context"}
  /\ volume = NoSecret /\ running = NoSecret /\ used = {}
  /\ wpc = "idle" /\ wjob = "deploy" /\ wsecret = NoSecret
  /\ ipc = "idle"
  /\ lost = FALSE

-----------------------------------------------------------------------------
(***************************************************************************)
(* The life of a job.                                                      *)
(***************************************************************************)

Step(pc) == wpc' = pc /\ UNCHANGED <<wjob, wsecret>>

EndJob == wpc' = "idle" /\ wjob' = "deploy" /\ wsecret' = NoSecret

\* The password a file yields, if any.
Content(file) == IF file \in Secrets THEN file ELSE NoSecret

\* The password the next job would find.
Known ==
  IF kind = "wordpress" \/ Content(compose) = NoSecret
    THEN Content(secretsFile) ELSE Content(compose)

\* The file the password is read from first.
Primary == IF kind = "wordpress" THEN secretsFile ELSE compose

\* A volume whose password the job has just destroyed.
Loses == lost' = (lost \/ volume # NoSecret)

\* A WordPress job generates the project, and deploy_wordpress generates it once more.
StartJob ==
  /\ wpc = "idle"
  /\ \/ kind = "wordpress" /\ wjob' = "generate" /\ wpc' = "merge"
     \/ kind = "pl_cms" /\ wjob' = "deploy" /\ wpc' = "stage"
     \/ kind = "pl_cms" /\ wjob' = "update" /\ wpc' = "validate"
  /\ UNCHANGED <<kind, dirVars, dockerVars, used, wsecret, ipc, lost>>

\* Without sources, a directory that holds generated files only is removed, those included.
Stage ==
  /\ wpc = "stage"
  /\ \/ /\ source = "absent"
        /\ compose' = Missing /\ secretsFile' = Missing
        /\ IF compose # Missing \/ secretsFile # Missing THEN Loses ELSE UNCHANGED lost
        /\ Step("clone")
     \/ source # "absent" /\ Step("validate") /\ UNCHANGED <<compose, secretsFile, lost>>
  /\ UNCHANGED <<kind, source, dockerVars, used, ipc>>

\* git clone, into a directory an import may be cloning into as well.
Clone ==
  /\ wpc = "clone"
  /\ \/ source' = "context" /\ Step("validate")
     \/ UNCHANGED source /\ EndJob
  /\ UNCHANGED <<kind, compose, secretsFile, dockerVars, used, ipc, lost>>

\* The build context must be complete; an update then pulls, which may fail.
Validate ==
  /\ wpc = "validate"
  /\ \/ source = "context" /\ Step("merge")
     \/ (source # "context" \/ wjob = "update") /\ EndJob
  /\ UNCHANGED <<kind, dirVars, dockerVars, used, ipc, lost>>

-----------------------------------------------------------------------------
(***************************************************************************)
(* Generating the compose project.                                         *)
(***************************************************************************)

\* Mutant: the password is drawn anew for every compose file.
MergeFresh ==
  /\ wpc = "merge"
  /\ \E s \in Secrets \ used : wsecret' = s /\ used' = used \cup {s}
  /\ wpc' = "openCompose"
  /\ UNCHANGED <<kind, dirVars, dockerVars, wjob, ipc, lost>>

\* Reuse the password that is there, else draw one.
Merge ==
  /\ wpc = "merge"
  /\ \/ Known # NoSecret /\ wsecret' = Known /\ UNCHANGED used
     \/ Known = NoSecret /\ \E s \in Secrets \ used : wsecret' = s /\ used' = used \cup {s}
  /\ wpc' = "openCompose"
  /\ UNCHANGED <<kind, dirVars, dockerVars, wjob, ipc, lost>>

\* Opening a file truncates it, unless an import has removed the directory.
OpenCompose ==
  /\ wpc = "openCompose"
  /\ \/ compose' = Torn /\ Step("writeCompose")
     \/ ipc # "idle" /\ UNCHANGED compose /\ EndJob
  /\ UNCHANGED <<kind, secretsFile, source, dockerVars, used, ipc, lost>>

\* What is written to a file that was removed meanwhile is gone with it.
Written(file) == IF file = Torn THEN wsecret ELSE file

\* Mutant: the password is not written to .secrets.
WriteComposeOnly ==
  /\ wpc = "writeCompose"
  /\ compose' = Written(compose)
  /\ Step("up")
  /\ UNCHANGED <<kind, secretsFile, source, dockerVars, used, ipc, lost>>

\* WordPress goes on to .secrets, PL_CMS starts the containers.
WriteCompose ==
  /\ wpc = "writeCompose"
  /\ compose' = Written(compose)
  /\ Step(IF kind = "wordpress" THEN "openSecrets" ELSE "up")
  /\ UNCHANGED <<kind, secretsFile, source, dockerVars, used, ipc, lost>>

OpenSecrets ==
  /\ wpc = "openSecrets"
  /\ \/ secretsFile' = Torn /\ Step("writeSecrets")
     \/ ipc # "idle" /\ UNCHANGED secretsFile /\ EndJob
  /\ UNCHANGED <<kind, compose, source, dockerVars, used, ipc, lost>>

WriteSecrets ==
  /\ wpc = "writeSecrets"
  /\ secretsFile' = Written(secretsFile)
  /\ IF wjob = "generate"
       THEN wpc' = "merge" /\ wjob' = "deploy" /\ UNCHANGED wsecret
       ELSE Step("up")
  /\ UNCHANGED <<kind, compose, source, dockerVars, used, ipc, lost>>

\* docker compose up: an empty volume is initialised with the password of the file.  It may
\* fail before, or after, the database has started.
ComposeUp ==
  /\ wpc = "up"
  /\ \/ /\ Content(compose) # NoSecret
        /\ volume' = IF volume = NoSecret THEN Content(compose) ELSE volume
        /\ running' = Content(compose)
     \/ (Content(compose) = NoSecret \/ "compose" \in Events) /\ UNCHANGED dockerVars
  /\ EndJob
  /\ UNCHANGED <<kind, dirVars, used, ipc, lost>>

\* The job dies.  If that leaves the file its password is read from torn, the password is
\* lost with it.
Killed ==
  /\ EndJob
  /\ IF Primary = Torn THEN Loses ELSE UNCHANGED lost
  /\ UNCHANGED <<kind, dirVars, dockerVars, used, ipc>>

Crash == "crash" \in Events /\ wpc # "idle" /\ Killed

DiskFull == "disk" \in Events /\ wpc \in {"writeCompose", "writeSecrets"} /\ Killed

-----------------------------------------------------------------------------
(***************************************************************************)
(* The panel.                                                              *)
(***************************************************************************)

\* import_github removes the directory and clones into its place.
ImportRemove ==
  /\ "import" \in Events /\ ipc = "idle"
  /\ compose' = Missing /\ secretsFile' = Missing /\ source' = "absent"
  /\ ipc' = "clone"
  /\ Loses
  /\ UNCHANGED <<kind, dockerVars, used, jobVars>>

\* The repository may lack the build context, or the clone may fail.
ImportClone ==
  /\ ipc = "clone"
  /\ source' \in {source, "partial", "context"}
  /\ ipc' = "idle"
  /\ UNCHANGED <<kind, compose, secretsFile, dockerVars, used, jobVars, lost>>

\* The file manager deletes one entry of the directory after the other.
DeleteSources ==
  /\ "files" \in Events /\ source # "absent"
  /\ source' = IF source = "context" THEN "partial" ELSE "absent"
  /\ UNCHANGED <<kind, compose, secretsFile, dockerVars, used, jobVars, ipc, lost>>

-----------------------------------------------------------------------------
JobStep ==
  \/ StartJob \/ Stage \/ Clone \/ Validate \/ Merge \/ OpenCompose \/ WriteCompose
  \/ OpenSecrets \/ WriteSecrets \/ ComposeUp

Next == JobStep \/ Crash \/ DiskFull \/ ImportRemove \/ ImportClone \/ DeleteSources

Spec == Init /\ [][Next]_vars

-----------------------------------------------------------------------------
JobSteps == {"idle", "stage", "clone", "validate", "merge", "openCompose", "writeCompose",
             "openSecrets", "writeSecrets", "up"}

\* Every variable holds a value of its kind.
TypeOK ==
  /\ kind \in Kinds
  /\ compose \in Files /\ secretsFile \in Files
  /\ source \in {"absent", "partial", "context"}
  /\ volume \in Secrets \cup {NoSecret} /\ running \in Secrets \cup {NoSecret}
  /\ used \subseteq Secrets
  /\ wpc \in JobSteps /\ wjob \in {"generate", "deploy", "update"}
  /\ wsecret \in Secrets \cup {NoSecret}
  /\ ipc \in {"idle", "clone"} /\ lost \in BOOLEAN

\* However often a site is deployed, updated, interrupted and redeployed, its containers get
\* the password its database was initialised with, and the next job will find it.  Four ways
\* to lose it are all there are: an import, the removal of a directory without sources, and a
\* crash or a full disk between truncating and writing the one file it is read from.
SecretsOpenVolume ==
  ~lost /\ volume # NoSecret =>
    /\ running = volume
    /\ wpc = "idle" => Known = volume

(***************************************************************************)
(* The inductive invariant behind it.                                      *)
(***************************************************************************)
Merged == {"openCompose", "writeCompose", "openSecrets", "writeSecrets", "up"}

JobInv ==
  /\ wpc \in Merged => wsecret # NoSecret
  /\ kind = "pl_cms" => secretsFile = Missing /\ wpc \notin {"openSecrets", "writeSecrets"}
  /\ kind = "wordpress" => wpc \notin {"stage", "clone", "validate"}

\* A compose file that survives until docker compose up holds the password of the job, and
\* then so does .secrets: an import removes both.
FilesInv ==
  /\ wpc = "writeCompose" => compose \in {Torn, Missing}
  /\ wpc \in {"openSecrets", "writeSecrets", "up"} /\ compose \in Secrets => compose = wsecret
  /\ wpc = "writeSecrets" /\ compose \in Secrets => secretsFile = Torn
  /\ kind = "wordpress" /\ wpc = "up" /\ compose \in Secrets => secretsFile = wsecret

\* Once there is a volume, the files or the job that rewrites them hold its password.
VolumeInv ==
  /\ volume = NoSecret => running = NoSecret
  /\ ~lost /\ volume # NoSecret =>
       /\ running = volume
       /\ wpc \in Merged => wsecret = volume
       /\ IF (kind = "pl_cms" /\ wpc = "writeCompose") \/ wpc = "writeSecrets"
            THEN Primary = Torn ELSE Known = volume

Inv == TypeOK /\ JobInv /\ FilesInv /\ VolumeInv
=============================================================================
