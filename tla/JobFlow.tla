-------------------------------- MODULE JobFlow --------------------------------
(***************************************************************************)
(* What the deploy queue promises about the execution of jobs, where       *)
(* JobLedger says what their rows tell.  The code has no retry anywhere,   *)
(* and leaves the rest to RQ, so that:                                     *)
(*   - a job is pushed at most once and executed at most once, whatever    *)
(*     its handler, the worker or Redis live through in between;           *)
(*   - jobs are executed one at a time, in the order of their pushes.      *)
(* A job may get lost: before its push, when its request ends without it,  *)
(* or in the queue, when Redis loses its data.                             *)
(*                                                                         *)
(* DeployQueue implements this in detail.                                  *)
(***************************************************************************)
EXTENDS Integers, Sequences

CONSTANTS Jobs, NoJob

VARIABLES unpushed,   \* the jobs that may still be pushed
          waiting,    \* the queue
          working     \* the job being executed, if any

flowVars == <<unpushed, waiting, working>>

FlowInit == unpushed = Jobs /\ waiting = <<>> /\ working = NoJob

Push(j) ==
  /\ j \in unpushed
  /\ unpushed' = unpushed \ {j}
  /\ waiting' = Append(waiting, j)
  /\ UNCHANGED working

\* The requests that would have pushed the jobs in S end without having done so.
Forget(S) ==
  /\ unpushed' = unpushed \ S
  /\ UNCHANGED <<waiting, working>>

Execute ==
  /\ waiting # <<>> /\ working = NoJob
  /\ working' = Head(waiting) /\ waiting' = Tail(waiting)
  /\ UNCHANGED unpushed

\* The job ends, or whoever executes it dies.
End ==
  /\ working' = NoJob
  /\ UNCHANGED <<unpushed, waiting>>

LoseQueue ==
  /\ waiting' = <<>>
  /\ UNCHANGED <<unpushed, working>>

FlowNext ==
  \/ \E j \in Jobs : Push(j)
  \/ \E S \in SUBSET Jobs : Forget(S)
  \/ Execute \/ End \/ LoseQueue

FlowSpec == FlowInit /\ [][FlowNext]_flowVars

-----------------------------------------------------------------------------
\* Where a job is: not pushed yet, in the queue, being executed, past all that.
Waiting(j) == \E i \in 1..Len(waiting) : waiting[i] = j
Stage(j) ==
  CASE j \in unpushed -> 0 [] Waiting(j) -> 1 [] working = j -> 2 [] OTHER -> 3

\* A job never goes back: pushed once, it is not pushed again; taken once, it does not
\* return to the queue; ended or lost, it stays so.
NeverBack == [][\A j \in Jobs : Stage(j) <= Stage(j)']_flowVars

\* Why that is so: a job is in one place only.
OnePlace ==
  /\ waiting \in Seq(Jobs) /\ unpushed \subseteq Jobs /\ working \in Jobs \cup {NoJob}
  /\ working \notin unpushed
  /\ \A i \in 1..Len(waiting) : waiting[i] \notin unpushed \cup {working}
  /\ \A i, k \in 1..Len(waiting) : i # k => waiting[i] # waiting[k]
==============================================================================
