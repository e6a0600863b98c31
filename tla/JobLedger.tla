------------------------------ MODULE JobLedger ------------------------------
(***************************************************************************)
(* What a reader of GET /jobs/{id} may rely on.  A DeployJob row is the    *)
(* only account LinkHosting gives of a background deploy, so this abstract *)
(* specification says how that account may change and how it is tied to    *)
(* the one effect that matters, the rebuild of the site's containers:      *)
(*   - a row is created queued and becomes running at most once, by the    *)
(*     worker that has taken the job;                                      *)
(*   - that worker alone says succeeded, and only after the rebuild; as    *)
(*     long as it has not left the job it may take that back and say       *)
(*     failed, which ends the job;                                         *)
(*   - once the worker has left the job, and as soon as it says failed,    *)
(*     the verdict is final;                                               *)
(*   - containers are rebuilt only for a job whose row says running, or    *)
(*     whose row has been removed together with its site.                  *)
(* DeployQueue is shown to implement it.                                   *)
(***************************************************************************)
CONSTANTS Jobs, NoJob

VARIABLES status,   \* the row's status; "none" before the INSERT, "deleted" after the DELETE
          working,  \* the job the worker has taken, if any
          built     \* the jobs that have rebuilt their site's containers

ledgerVars == <<status, working, built>>

Statuses == {"none", "queued", "running", "succeeded", "failed", "deleted"}

LedgerInit == /\ status = [j \in Jobs |-> "none"]
              /\ working = NoJob
              /\ built = {}

\* A job moves from one of the statuses `from' to the status `to'.
Move(j, from, to) ==
  /\ status[j] \in from
  /\ status' = [status EXCEPT ![j] = to]
  /\ UNCHANGED built

Create(j) == Move(j, {"none"}, "queued") /\ UNCHANGED working

\* A job that could not be queued fails without having touched anything.
Refuse(j) == /\ j \notin built /\ working # j
             /\ Move(j, {"queued"}, "failed")
             /\ UNCHANGED working

\* No job that says more than queued is taken (again).
TakeUp(j) == /\ working = NoJob /\ status[j] \in {"queued", "deleted"}
             /\ working' = j
             /\ UNCHANGED <<status, built>>

Begin(j) == working = j /\ Move(j, {"queued"}, "running") /\ UNCHANGED working

Rebuild(j) == /\ working = j /\ status[j] \in {"running", "deleted"}
              /\ built' = built \cup {j}
              /\ UNCHANGED <<status, working>>

Succeed(j) == working = j /\ j \in built /\ Move(j, {"running"}, "succeeded") /\ UNCHANGED working

Fail(j) == working = j /\ Move(j, {"running", "succeeded"}, "failed") /\ working' = NoJob

\* The job function returns or raises, or its worker dies, and the row stays as it is.
LeaveOff == working' = NoJob /\ UNCHANGED <<status, built>>

\* Deleting a site removes the rows of all its jobs at once.
Remove(S) ==
  /\ status' = [j \in Jobs |-> IF j \in S THEN "deleted" ELSE status[j]]
  /\ UNCHANGED <<working, built>>

LedgerNext ==
  \/ \E j \in Jobs : \/ Create(j) \/ Refuse(j) \/ TakeUp(j) \/ Begin(j)
                     \/ Rebuild(j) \/ Succeed(j) \/ Fail(j)
  \/ \E S \in SUBSET {j \in Jobs : status[j] # "none"} : Remove(S)
  \/ LeaveOff

LedgerSpec == LedgerInit /\ [][LedgerNext]_ledgerVars

-----------------------------------------------------------------------------
\* The verdict has been given, and whoever gave it is through with the job.
Done(j) == status[j] \in {"succeeded", "failed"} /\ working # j

\* A verdict stands, until the row goes with its site, once the worker is through with the
\* job; failed stands from the moment it is written.
VerdictIsFinal ==
  [][\A j \in Jobs : Done(j) \/ status[j] = "failed" =>
       status'[j] = "deleted" \/ (status'[j] = status[j] /\ Done(j)')]_ledgerVars

\* A row says succeeded only of a job that has rebuilt its site's containers, and queued
\* only of one that has not.
SuccessIsEarned ==
  \A j \in Jobs : /\ status[j] = "succeeded" => j \in built
                  /\ status[j] \in {"none", "queued"} => j \notin built
==============================================================================
