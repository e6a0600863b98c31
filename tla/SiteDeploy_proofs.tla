--------------------------- MODULE SiteDeploy_proofs ---------------------------
(***************************************************************************)
(* Theorems about SiteDeploy for any number of jobs and threads and every  *)
(* choice of faults.                                                       *)
(***************************************************************************)
EXTENDS SiteDeploy, TLAPS

\* Moving a handler on leaves the handlers well formed.
LEMMA StepTypes ==
  ASSUME TypeOK, NEW a \in Requests, NEW pc \in HandlerSteps, Step(a, pc) \/ Finish(a)
  PROVE  hpc' \in [Requests -> HandlerSteps] /\ hwrites' \in [Requests -> SUBSET {"status", "container"}]
<1>2. hpc' = [hpc EXCEPT ![a] = pc] \/ hpc' = [hpc EXCEPT ![a] = "idle"]
  BY DEF Step, Finish
<1>3. hwrites' = hwrites \/ hwrites' = [hwrites EXCEPT ![a] = {}]
  BY DEF Step, Finish
<1>4. hpc' \in [Requests -> HandlerSteps]
  BY <1>2 DEF TypeOK, HandlerSteps
<1>5. hwrites' \in [Requests -> SUBSET {"status", "container"}]
  BY <1>3 DEF TypeOK
<1>6. QED
  BY <1>4, <1>5

\* Every step keeps every variable in its type.
LEMMA TypeStep == TypeOK /\ [Next]_vars => TypeOK'
<1> SUFFICES ASSUME TypeOK, [Next]_vars PROVE TypeOK'
  OBVIOUS
<1> USE SiteDeployAssumption DEF TypeOK, JobStatuses, WorkerSteps, HandlerSteps, Columns, Current,
        Blank, Running, Stopped, StopWrites, Requests, rowVars, workerVars, reqVars, worldVars, certVars
<1>1. CASE Work
  <2>1. CASE Take
    BY <2>1 DEF Take
  <2>2. CASE Start
    BY <2>2 DEF Start, EndJob, GotoExpired, Verdict
  <2>3. CASE LoadSite
    <3>1. /\ wpc' \in WorkerSteps /\ seen' \in Columns /\ queue' = queue
          /\ wjob' \in IF wpc' = "idle" THEN {NoJob} ELSE Jobs
      BY <2>3 DEF LoadSite, EndJob, Load, Raise, Goto, GotoExpired
    <3>2. status' \in [Jobs -> JobStatuses]
      BY <2>3 DEF LoadSite, Verdict
    <3>3. disturbed' \in {"no", "yes"} /\ overlap' \in {"no", "yes"}
      BY <2>3 DEF LoadSite, EndJob
    <3>4. UNCHANGED <<exists, siteStatus, containerId, certRow, kind, reqVars, worldVars>>
      BY <2>3 DEF LoadSite
    <3>5. QED
      BY <3>1, <3>2, <3>3, <3>4
  <2>4. CASE Build
    BY <2>4 DEF Build, Raise, Goto, GotoExpired
  <2>5. CASE WriteVhost
    BY <2>5 DEF WriteVhost, Raise, Goto, GotoExpired
  <2>6. CASE AddDns
    BY <2>6 DEF AddDns, Raise, Goto, GotoExpired
  <2>7. CASE CommitSite
    BY <2>7 DEF CommitSite, Raise, Goto, GotoExpired, SaveSite, Flushed, UpdateFails
  <2>8. CASE CommitJob \/ Report
    BY <2>8 DEF CommitJob, Report, EndJob, Raise, Goto, GotoExpired, Verdict
  <2>9. CASE Abort
    BY <2>9 DEF Abort, EndJob, Verdict, Flushed
  <2>10. CASE DatabaseError \/ Crash
    BY <2>10 DEF DatabaseError, Crash, EndJob, GotoExpired
  <2>11. QED
    BY <1>1, <2>1, <2>2, <2>3, <2>4, <2>5, <2>6, <2>7, <2>8, <2>9, <2>10 DEF Work
<1>2. ASSUME NEW a \in Requests, Serve(a) PROVE TypeOK'
  <2>1. ASSUME NEW k \in Kinds, Request(a, k) PROVE TypeOK'
    BY <2>1 DEF Request
  <2>2. CASE BeginStop(a) \/ BeginDelete(a) \/ BeginCert(a)
    <3>1. PICK pc \in HandlerSteps : Begin(a, pc)
      BY <2>2 DEF BeginStop, BeginDelete, BeginCert
    <3>2. hpc' \in [Requests -> HandlerSteps] /\ hwrites' \in [Requests -> SUBSET {"status", "container"}]
      BY <3>1 DEF Begin
    <3>3. disturbed' \in {"no", "yes"} /\ overlap' \in {"no", "yes"}
      BY <2>2 DEF BeginStop, BeginDelete, BeginCert, Begin
    <3>4. UNCHANGED <<rowVars, workerVars, worldVars>>
      BY <2>2 DEF BeginStop, BeginDelete, BeginCert
    <3>5. QED
      BY <3>2, <3>3, <3>4
  <2>3. CASE StopContainers(a) \/ DeleteContainers(a)
    <3>1. docker' \in {"up", "down"} /\ overlap' \in {"no", "yes"}
      BY <2>3 DEF StopContainers, DeleteContainers, RemoveContainers
    <3>2. \E pc \in HandlerSteps : Step(a, pc) \/ Finish(a)
      BY <2>3 DEF StopContainers, DeleteContainers, RemoveContainers
    <3>3. hpc' \in [Requests -> HandlerSteps] /\ hwrites' \in [Requests -> SUBSET {"status", "container"}]
      BY <3>2, StepTypes
    <3>4. UNCHANGED <<rowVars, workerVars, vhost, dns, certVars, disturbed>>
      BY <2>3 DEF StopContainers, DeleteContainers
    <3>5. QED
      BY <3>1, <3>3, <3>4
  <2>4. CASE CommitStop(a)
    BY <2>4 DEF CommitStop, Finish
  <2>5. CASE RemoveVhost(a) \/ RemoveDns(a)
    BY <2>5 DEF RemoveVhost, RemoveDns, Step
  <2>6. CASE DeleteRows(a)
    BY <2>6 DEF DeleteRows, Finish
  <2>7. CASE OpenKey(a) \/ FillKeyOpenCert(a) \/ FillCert(a) \/ IssueFails(a)
    <3>1. \E pc \in HandlerSteps : Step(a, pc) \/ Finish(a)
      BY <2>7 DEF OpenKey, FillKeyOpenCert, FillCert, IssueFails
    <3>2. hpc' \in [Requests -> HandlerSteps] /\ hwrites' \in [Requests -> SUBSET {"status", "container"}]
      BY <3>1, StepTypes
    <3>3. pem' \in [Files -> {"none", "empty", "whole"}]
      BY <2>7 DEF OpenKey, FillKeyOpenCert, FillCert, IssueFails, Files
    <3>4. issued' \in {"never", "whole", "spoiled"}
      BY <2>7 DEF OpenKey, FillKeyOpenCert, FillCert, IssueFails, Spoil
    <3>5. UNCHANGED <<rowVars, workerVars, docker, vhost, dns, disturbed, overlap>>
      BY <2>7 DEF OpenKey, FillKeyOpenCert, FillCert, IssueFails
    <3>6. QED
      BY <3>2, <3>3, <3>4, <3>5
  <2>8. CASE CommitCert(a) \/ WriteHttps(a) \/ RequestError(a)
    <3>1. \E pc \in HandlerSteps : Step(a, pc) \/ Finish(a)
      BY <2>8 DEF CommitCert, WriteHttps, RequestError
    <3>2. hpc' \in [Requests -> HandlerSteps] /\ hwrites' \in [Requests -> SUBSET {"status", "container"}]
      BY <3>1, StepTypes
    <3>3. certRow' \in {"none", "issued"} /\ vhost' \in {"none", "http", "https"}
      BY <2>8 DEF CommitCert, WriteHttps, RequestError
    <3>4. UNCHANGED <<exists, siteStatus, containerId, status, kind, workerVars, docker, dns,
                      certVars, disturbed, overlap>>
      BY <2>8 DEF CommitCert, WriteHttps, RequestError
    <3>5. QED
      BY <3>2, <3>3, <3>4
  <2>9. CASE Patch(a)
    BY <2>9 DEF Patch
  <2>10. QED
    BY <1>2, <2>1, <2>2, <2>3, <2>4, <2>5, <2>6, <2>7, <2>8, <2>9 DEF Serve
<1>3. CASE Restart
  BY <1>3 DEF Restart, Spoil
<1>4. CASE UNCHANGED vars
  BY <1>4 DEF vars
<1>5. QED
  BY <1>1, <1>2, <1>3, <1>4 DEF Next

\* Type correctness: every reachable state of the site is well formed.
THEOREM TypeCorrect == Spec => []TypeOK
<1>1. Init => TypeOK
  BY SiteDeployAssumption DEF Init, TypeOK, JobStatuses, WorkerSteps, HandlerSteps, Columns, Current,
     Blank, Requests
<1>2. QED
  BY <1>1, TypeStep, PTL DEF Spec

-----------------------------------------------------------------------------
\* Every step keeps the jobs in the queue and at the worker known to the database.
LEMMA JobStep == TypeOK /\ JobInv /\ [Next]_vars => JobInv'
<1> SUFFICES ASSUME TypeOK, JobInv, [Next]_vars PROVE JobInv'
  OBVIOUS
<1> USE DEF TypeOK, JobInv, JobStatuses, WorkerSteps, rowVars, workerVars, reqVars, worldVars, certVars
<1>1. CASE Work
  <2>1. CASE Take
    BY <2>1 DEF Take
  <2>2. CASE Start
    BY <2>2 DEF Start, EndJob, GotoExpired, Verdict
  <2>3. CASE LoadSite
    BY <2>3 DEF LoadSite, EndJob, Load, Raise, Goto, GotoExpired, Verdict
  <2>4. CASE Build \/ WriteVhost \/ AddDns \/ CommitSite
    BY <2>4 DEF Build, WriteVhost, AddDns, CommitSite, Raise, Goto, GotoExpired
  <2>5. CASE CommitJob
    BY <2>5 DEF CommitJob, Raise, Goto, GotoExpired, Verdict
  <2>9. CASE Report
    BY <2>9 DEF Report, EndJob, Raise, Goto, GotoExpired
  <2>6. CASE Abort
    BY <2>6 DEF Abort, EndJob, Verdict
  <2>7. CASE DatabaseError \/ Crash
    BY <2>7 DEF DatabaseError, Crash, EndJob, GotoExpired
  <2>8. QED
    BY <1>1, <2>1, <2>2, <2>3, <2>4, <2>5, <2>6, <2>7, <2>9 DEF Work
<1>2. ASSUME NEW a \in Requests, Serve(a) PROVE JobInv'
  <2>1. ASSUME NEW k \in Kinds, Request(a, k) PROVE JobInv'
    BY <2>1 DEF Request
  <2>2. CASE DeleteRows(a)
    BY <2>2 DEF DeleteRows
  <2>3. CASE UNCHANGED <<status, workerVars>>
    BY <2>3
  <2>4. QED
    BY <1>2, <2>1, <2>2, <2>3 DEF Serve, Patch, BeginStop, BeginDelete, BeginCert, StopContainers,
       DeleteContainers, CommitStop, RemoveVhost, RemoveDns, OpenKey, FillKeyOpenCert, FillCert,
       IssueFails, CommitCert, WriteHttps, RequestError
<1>3. CASE Restart
  BY <1>3 DEF Restart
<1>4. CASE UNCHANGED vars
  BY <1>4 DEF vars
<1>5. QED
  BY <1>1, <1>2, <1>3, <1>4 DEF Next

\* No step turns TLS on, or comes to the point of it, before both files were whole; and a
\* file that was whole is not left otherwise unless the request that does so breaks off.
LEMMA CertStep == TypeOK /\ CertInv /\ [Next]_vars => CertInv'
<1> SUFFICES ASSUME TypeOK, CertInv, [Next]_vars PROVE CertInv'
  OBVIOUS
<1> USE DEF TypeOK, CertInv, HandlerSteps, Files, rowVars, workerVars, reqVars, worldVars, certVars
<1>m. ASSUME NEW a \in Requests, NEW pc \in HandlerSteps, hpc[a] \notin Files,
             hpc' = [hpc EXCEPT ![a] = pc], pc \notin {"commitCert", "https"},
             vhost' \in {vhost, "none"}, UNCHANGED certVars
      PROVE  CertInv'
  BY <1>m
<1>1. CASE Work
  <2>1. UNCHANGED <<hpc, certVars>>
    BY <1>1 DEF Work, Take, Start, LoadSite, Build, WriteVhost, AddDns, CommitSite, CommitJob,
       Report, Abort, DatabaseError, Crash
  <2>2. vhost' \in {vhost, "http"}
    BY <1>1 DEF Work, Take, Start, LoadSite, Build, WriteVhost, AddDns, CommitSite, CommitJob,
       Report, Abort, DatabaseError, Crash
  <2>3. QED
    BY <2>1, <2>2
<1>2. ASSUME NEW a \in Requests, Serve(a) PROVE CertInv'
  <2>1. CASE OpenKey(a)
    BY <2>1 DEF OpenKey, Step
  <2>2. CASE FillKeyOpenCert(a)
    BY <2>2 DEF FillKeyOpenCert, Step
  <2>3. CASE FillCert(a)
    BY <2>3 DEF FillCert, Step, Whole
  <2>4. CASE IssueFails(a)
    BY <2>4 DEF IssueFails, Issuing, Finish, Spoil
  <2>5. CASE CommitCert(a)
    BY <2>5 DEF CommitCert, Step, Finish
  <2>6. CASE WriteHttps(a)
    BY <2>6 DEF WriteHttps, Finish
  <2>7. CASE RequestError(a)
    BY <2>7, <1>m DEF RequestError, Finish
  <2>8. CASE RemoveVhost(a)
    BY <2>8, <1>m DEF RemoveVhost, Step
  <2>9. CASE (\E k \in Kinds : Request(a, k)) \/ Patch(a)
    BY <2>9 DEF Request, Patch
  <2>10. CASE BeginStop(a) \/ BeginDelete(a) \/ BeginCert(a)
    BY <2>10, <1>m DEF BeginStop, BeginDelete, BeginCert, Begin
  <2>11. CASE StopContainers(a) \/ DeleteContainers(a)
    BY <2>11, <1>m DEF StopContainers, DeleteContainers, RemoveContainers, Step, Finish
  <2>12. CASE CommitStop(a) \/ RemoveDns(a) \/ DeleteRows(a)
    BY <2>12, <1>m DEF CommitStop, RemoveDns, DeleteRows, Step, Finish
  <2>13. QED
    BY <1>2, <2>1, <2>2, <2>3, <2>4, <2>5, <2>6, <2>7, <2>8, <2>9, <2>10, <2>11, <2>12 DEF Serve
<1>3. CASE Restart
  BY <1>3 DEF Restart, Spoil
<1>4. CASE UNCHANGED vars
  BY <1>4 DEF vars
<1>5. QED
  BY <1>1, <1>2, <1>3, <1>4 DEF Next

\* No step brings containers or a vhost back behind a deletion that met nobody.
LEMMA QuietStep == TypeOK /\ QuietInv /\ [Next]_vars => QuietInv'
<1> SUFFICES ASSUME TypeOK, QuietInv, [Next]_vars PROVE QuietInv'
  OBVIOUS
<1> USE DEF TypeOK, QuietInv, HandlerSteps, WorkerSteps, Deleting, Certifying, Issuing, Acting,
        Requests, rowVars, workerVars, reqVars, worldVars, certVars
<1>1. CASE Work
  <2>1. CASE Take \/ Start \/ Report \/ Abort \/ Crash
    BY <2>1 DEF Take, Start, Report, Abort, Crash, EndJob, Raise, GotoExpired, Goto
  <2>7. CASE DatabaseError
    BY <2>7 DEF DatabaseError, EndJob, GotoExpired
  <2>2. CASE LoadSite
    BY <2>2 DEF LoadSite, EndJob, Load, Raise, Goto, GotoExpired
  <2>3. CASE Build
    BY <2>3 DEF Build, Raise, Goto, GotoExpired
  <2>4. CASE WriteVhost
    BY <2>4 DEF WriteVhost, Raise, Goto, GotoExpired
  <2>5. CASE AddDns \/ CommitSite \/ CommitJob
    BY <2>5 DEF AddDns, CommitSite, CommitJob, Raise, Goto, GotoExpired
  <2>6. QED
    BY <1>1, <2>1, <2>2, <2>3, <2>4, <2>5, <2>7 DEF Work
<1>2. ASSUME NEW a \in Requests, Serve(a) PROVE QuietInv'
  <2>1. CASE (\E k \in Kinds : Request(a, k)) \/ Patch(a) \/ BeginStop(a) \/ StopContainers(a)
             \/ CommitStop(a)
    BY <2>1 DEF Request, Patch, BeginStop, Begin, StopContainers, RemoveContainers, CommitStop, Step, Finish
  <2>2. CASE BeginDelete(a)
    BY <2>2 DEF BeginDelete, Begin, Busy
  <2>3. CASE DeleteContainers(a)
    BY <2>3 DEF DeleteContainers, RemoveContainers, Step, Finish
  <2>4. CASE RemoveVhost(a)
    BY <2>4, SiteDeployAssumption DEF RemoveVhost, Step
  <2>5. CASE RemoveDns(a)
    BY <2>5 DEF RemoveDns, Step
  <2>6. CASE DeleteRows(a)
    BY <2>6 DEF DeleteRows, Finish
  <2>7. CASE BeginCert(a)
    BY <2>7 DEF BeginCert, Begin
  <2>8. CASE OpenKey(a) \/ FillKeyOpenCert(a) \/ FillCert(a) \/ IssueFails(a) \/ CommitCert(a)
             \/ WriteHttps(a)
    BY <2>8 DEF OpenKey, FillKeyOpenCert, FillCert, IssueFails, CommitCert, WriteHttps, Step, Finish
  <2>r. CASE RequestError(a)
    BY <2>r DEF RequestError, Finish
  <2>9. QED
    BY <1>2, <2>1, <2>2, <2>3, <2>4, <2>5, <2>6, <2>7, <2>8, <2>r DEF Serve
<1>3. CASE Restart
  BY <1>3 DEF Restart
<1>4. CASE UNCHANGED vars
  BY <1>4 DEF vars
<1>5. QED
  BY <1>1, <1>2, <1>3, <1>4 DEF Next

\* Every step of an undisturbed job keeps its session and the site in agreement.
LEMMA VerdictStep == TypeOK /\ JobInv /\ VerdictInv /\ [Next]_vars => VerdictInv'
<1> SUFFICES ASSUME TypeOK, JobInv, VerdictInv, [Next]_vars PROVE VerdictInv'
  OBVIOUS
<1> USE DEF TypeOK, VerdictInv, HandlerSteps, WorkerSteps, Acting, At, IsUpdate, Raise, Goto, GotoExpired,
        rowVars, workerVars, reqVars, worldVars, certVars
<1>1. CASE Work
  <2>1. CASE Take
    BY <2>1 DEF Take
  <2>2. CASE Start
    BY <2>2 DEF Start, EndJob
  <2>3. CASE LoadSite
    BY <2>3 DEF LoadSite, EndJob, Load, Goto, Current
  <2>4. CASE Build
    BY <2>4 DEF Build, Goto, Current
  <2>5. CASE WriteVhost
    BY <2>5 DEF WriteVhost, Goto, Current
  <2>6. CASE AddDns
    BY <2>6 DEF AddDns, Goto, Current
  <2>7. CASE CommitSite
    BY <2>7 DEF CommitSite, Goto, Current, SaveSite, Flushed, Running, UpdateFails
  <2>8. CASE CommitJob
    BY <2>8 DEF CommitJob
  <2>9. CASE Report \/ Abort \/ Crash
    BY <2>9 DEF Report, Abort, Crash, EndJob
  <2>10. CASE DatabaseError
    BY <2>10 DEF DatabaseError, EndJob
  <2>11. QED
    BY <1>1, <2>1, <2>2, <2>3, <2>4, <2>5, <2>6, <2>7, <2>8, <2>9, <2>10 DEF Work
<1>2. ASSUME NEW a \in Requests, Serve(a) PROVE VerdictInv'
  <2>1. ASSUME NEW k \in Kinds, Request(a, k) PROVE VerdictInv'
    BY <2>1 DEF Request, JobInv, Current
  <2>2. CASE /\ hpc[a] # "idle" /\ UNCHANGED <<disturbed, wpc, wjob, kind>>
              /\ exists' \in {exists, "deleted"} /\ seen' = seen
    BY <2>2
  <2>3. ASSUME NEW pc \in HandlerSteps, Begin(a, pc), UNCHANGED workerVars PROVE VerdictInv'
    BY <2>3 DEF Begin
  <2>4. QED
    BY <1>2, <2>1, <2>2, <2>3 DEF Serve, Patch, BeginStop, BeginDelete, BeginCert, StopContainers,
       DeleteContainers, CommitStop, RemoveVhost, RemoveDns, DeleteRows, OpenKey,
       FillKeyOpenCert, FillCert, IssueFails, Issuing, CommitCert, WriteHttps, RequestError
<1>3. CASE Restart
  BY <1>3 DEF Restart
<1>4. CASE UNCHANGED vars
  BY <1>4 DEF vars, Current
<1>5. QED
  BY <1>1, <1>2, <1>3, <1>4 DEF Next

\* The inductive invariant holds in every reachable state.
THEOREM Invariant == Spec => []Inv
<1>1. Init => Inv
  BY SiteDeployAssumption
     DEF Init, Inv, TypeOK, JobInv, CertInv, QuietInv, VerdictInv, At,
         Acting, Deleting, JobStatuses, WorkerSteps, HandlerSteps, Columns, Current, Blank, Requests
<1>2. Inv /\ [Next]_vars => Inv'
  BY TypeStep, JobStep, CertStep, QuietStep, VerdictStep DEF Inv
<1>3. QED
  BY <1>1, <1>2, PTL DEF Spec

\* A TLS vhost never precedes a certificate, and finds its files whole unless one is being
\* renewed or a renewal broke off.
THEOREM CertificateCorrect == Spec => []CertificateBehindHttps
<1>1. Inv => CertificateBehindHttps
  BY DEF Inv, CertInv, CertificateBehindHttps
<1>2. QED
  BY <1>1, Invariant, PTL

\* A deletion that met no running job and no certificate request is complete.
THEOREM QuietDeleteCorrect == Spec => []QuietDeleteIsComplete
<1>1. Inv => QuietDeleteIsComplete
  BY DEF Inv, QuietInv, QuietDeleteIsComplete, Requests
<1>2. QED
  BY <1>1, Invariant, PTL

\* The verdict of an undisturbed job is true of its site.
THEOREM VerdictCorrect == Spec => VerdictIsTrue
<1> DEFINE True(j) == status'[j] # status[j] /\ disturbed = "no" =>
       /\ status'[j] = "succeeded" => Served /\ (kind[j] = "deploy" => dns = "present")
       /\ status'[j] = "failed" /\ wpc = "abort" => siteStatus' = "error"
<1>1. Inv /\ [Next]_vars => [\A j \in Jobs : True(j)]_vars
  <2> SUFFICES ASSUME Inv, Next, NEW j \in Jobs, status'[j] # status[j], disturbed = "no",
                      status'[j] \in {"succeeded", "failed"}
               PROVE  True(j)
    OBVIOUS
  <2> USE DEF Inv, TypeOK, rowVars, workerVars, reqVars, worldVars, certVars
  <2>1. CASE CommitJob
    <3>1. wpc = "commitJob" /\ j = wjob /\ status'[j] = "succeeded"
      BY <2>1 DEF CommitJob, Verdict, Goto
    <3>2. QED
      BY <3>1 DEF VerdictInv, At, Acting, IsUpdate, Served
  <2>2. CASE Abort
    <3>1. wpc = "abort" /\ exists = "present" /\ j = wjob /\ status'[j] = "failed"
      BY <2>2 DEF Abort, Verdict
    <3>2. siteStatus' = "error"
      BY <2>2, <3>1 DEF Abort, Flushed, VerdictInv, At, Current, Blank
    <3>3. QED
      BY <3>1, <3>2
  <2>3. CASE LoadSite
    <3>1. wpc = "load" /\ status'[j] # "succeeded"
      BY <2>3 DEF LoadSite, Verdict
    <3>2. QED
      BY <3>1
  <2>4. CASE UNCHANGED status
    BY <2>4
  <2>5. CASE Start
    BY <2>5 DEF Start, Verdict
  <2>6. ASSUME NEW a \in Requests, NEW k \in Kinds, Request(a, k) PROVE FALSE
    BY <2>6 DEF Request
  <2>7. ASSUME NEW a \in Requests, DeleteRows(a) PROVE FALSE
    BY <2>7 DEF DeleteRows
  <2>8. QED
    BY <2>1, <2>2, <2>3, <2>4, <2>5, <2>6, <2>7
       DEF Next, Work, Serve, Take, Build, WriteVhost, AddDns, CommitSite, Report, DatabaseError,
           Crash, Patch, BeginStop, BeginDelete, BeginCert, StopContainers, DeleteContainers,
           CommitStop, RemoveVhost, RemoveDns, OpenKey, FillKeyOpenCert, FillCert, IssueFails,
           CommitCert, WriteHttps, RequestError, Restart
<1>2. QED
  BY <1>1, Invariant, PTL DEF Spec, VerdictIsTrue
==============================================================================
