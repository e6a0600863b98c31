-------------------------- MODULE DeployQueue_proofs --------------------------
(***************************************************************************)
(* Theorems about DeployQueue for any number of jobs, sites and threads    *)
(* and any timing constants.                                               *)
(***************************************************************************)
EXTENDS DeployQueue, TLAPS

\* Ending a job leaves Redis and the worker well formed.
LEMMA EndJobTypes ==
  ASSUME TypeOK, wpc # "idle", NEW o \in {"finished", "failed"}, EndJob(o)
  PROVE  RedisTypes' /\ WorkerTypes'
  BY DeployQueueAssumption DEF TypeOK, RedisTypes, WorkerTypes, EndJob, Idle, RqStatuses,
     WorkerSteps, TooOld, Cutoff

\* Writing a verdict leaves the rows well formed.
LEMMA VerdictTypes ==
  ASSUME TypeOK, wpc # "idle", NEW v \in {"running", "succeeded", "failed"}, Verdict(v),
         UNCHANGED <<sites, kind, siteOf, rqId, age>>
  PROVE  RowTypes'
  BY DEF TypeOK, RowTypes, WorkerTypes, Verdict, JobStatuses, WorkerSteps

\* Inserting a job leaves rows and handlers well formed.
LEMMA InsertTypes ==
  ASSUME TypeOK, NEW a \in Requests, NEW s \in Sites, NEW k \in {"deploy", "update"},
         InsertJob(a, s, k), UNCHANGED recreate
  PROVE  RowTypes' /\ HandlerTypes'
<1>1. PICK j \in Jobs :
        /\ status' = [status EXCEPT ![j] = "queued"]
        /\ kind' = [kind EXCEPT ![j] = k]
        /\ siteOf' = [siteOf EXCEPT ![j] = s]
        /\ hjob' = [hjob EXCEPT ![a] = j]
  BY DEF InsertJob
<1>2. RowTypes'
  BY <1>1 DEF InsertJob, TypeOK, RowTypes, JobStatuses
<1>3. HandlerTypes'
  BY <1>1, DeployQueueAssumption DEF InsertJob, TypeOK, HandlerTypes, HandlerSteps
<1>4. QED
  BY <1>2, <1>3

\* Every step keeps every variable in its type.
LEMMA TypeStep == TypeOK /\ [Next]_vars => TypeOK'
<1> SUFFICES ASSUME TypeOK, [Next]_vars PROVE TypeOK'
  OBVIOUS
<1> USE DeployQueueAssumption DEF JobStatuses, RqStatuses, WorkerSteps, HandlerSteps, Requests,
        TooOld, Cutoff, rowVars, redisVars, workerVars, reqVars,
        TypeOK, RowTypes, RedisTypes, WorkerTypes, HandlerTypes
<1>1. CASE Work
  <2>1. CASE Take
    BY <2>1 DEF Take
  <2>2. CASE Start
    <3>1. RowTypes'
      BY <2>2, VerdictTypes DEF Start
    <3>2. RedisTypes' /\ WorkerTypes'
      BY <2>2, EndJobTypes DEF Start, Goto
    <3>3. HandlerTypes' /\ built' \subseteq Jobs
      BY <2>2 DEF Start
    <3>4. QED
      BY <3>1, <3>2, <3>3
  <2>3. CASE EnsureFreeDisk
    <3>1. RowTypes'
      BY <2>3, VerdictTypes DEF EnsureFreeDisk
    <3>2. RedisTypes' /\ WorkerTypes'
      BY <2>3, EndJobTypes DEF EnsureFreeDisk, Goto
    <3>3. HandlerTypes' /\ built' \subseteq Jobs
      BY <2>3 DEF EnsureFreeDisk
    <3>4. QED
      BY <3>1, <3>2, <3>3
  <2>4. CASE LoadSite
    BY <2>4 DEF LoadSite, Goto
  <2>5. CASE Build
    BY <2>5 DEF Build, Goto, AfterBuild
  <2>6. CASE Publish
    BY <2>6 DEF Publish, Goto, AfterPublish
  <2>7. CASE CommitSite
    BY <2>7 DEF CommitSite, Goto, AfterCommitSite
  <2>8. CASE CommitJob
    <3>1. RowTypes'
      BY <2>8, VerdictTypes DEF CommitJob
    <3>2. RedisTypes' /\ WorkerTypes' /\ HandlerTypes' /\ built' \subseteq Jobs
      BY <2>8 DEF CommitJob, Goto
    <3>3. QED
      BY <3>1, <3>2
  <2>9. CASE Abort
    <3>1. RowTypes'
      BY <2>9, VerdictTypes DEF Abort
    <3>2. RedisTypes' /\ WorkerTypes'
      BY <2>9, EndJobTypes DEF Abort, Goto
    <3>3. HandlerTypes' /\ built' \subseteq Jobs
      BY <2>9 DEF Abort
    <3>4. QED
      BY <3>1, <3>2, <3>3
  <2>10. CASE Alarm
    <3>1. CASE AlarmIsCaught
      BY <2>10, <3>1 DEF Alarm, AlarmIsCaught
    <3>2. CASE AlarmIsSwallowed
      BY <2>10, <3>2 DEF Alarm, AlarmIsSwallowed
    <3>3. CASE AlarmEscapes
      <4>1. RedisTypes' /\ WorkerTypes'
        BY <2>10, <3>3, EndJobTypes DEF Alarm, AlarmEscapes
      <4>2. QED
        BY <2>10, <3>3, <4>1 DEF Alarm, AlarmEscapes
    <3>4. QED
      BY <2>10, <3>1, <3>2, <3>3 DEF Alarm
  <2>11. CASE KillHorse
    BY <2>11 DEF EndJob, Idle, KillHorse
  <2>12. CASE Report
    <3>1. RedisTypes' /\ WorkerTypes'
      BY <2>12, EndJobTypes DEF Report, Goto
    <3>2. QED
      BY <2>12, <3>1 DEF Report
  <2>13. QED
    BY <1>1, <2>1, <2>2, <2>3, <2>4, <2>5, <2>6, <2>7, <2>8, <2>9, <2>10, <2>11, <2>12 DEF Work
<1>2. ASSUME NEW a \in Requests, Serve(a) PROVE TypeOK'
  <2>1. ASSUME NEW s \in Sites, Deploy(a, s) PROVE TypeOK'
    BY <2>1 DEF Deploy, InsertJob
  <2>2. ASSUME NEW s \in Sites, DeleteSite(a, s) PROVE TypeOK'
    BY <2>2 DEF DeleteSite
  <2>3. CASE Enqueue(a)
    <3>1. hjob[a] \in Jobs
      BY <2>3 DEF Enqueue
    <3>2. RedisTypes'
      <4>1. CASE UNCHANGED <<queue, rq>>
        BY <2>3, <4>1 DEF Enqueue
      <4>2. CASE /\ queue' = Append(queue, hjob[a])
                 /\ rq' = [rq EXCEPT ![hjob[a]] = "queued"]
        BY <2>3, <3>1, <4>2 DEF Enqueue
      <4>3. QED
        BY <2>3, <4>1, <4>2 DEF Enqueue
    <3>3. RowTypes' /\ WorkerTypes' /\ built' \subseteq Jobs
      BY <2>3 DEF Enqueue
    <3>4. HandlerTypes'
      <4>1. PICK step \in {"record", "refused"} : hpc' = [hpc EXCEPT ![a] = step]
        BY <2>3 DEF Enqueue
      <4>2. QED
        BY <2>3, <3>1, <4>1 DEF Enqueue
    <3>5. QED
      BY <3>2, <3>3, <3>4
  <2>4. CASE RecordId(a)
    BY <2>4 DEF RecordId, Finish
  <2>5. CASE GiveUp(a)
    BY <2>5 DEF GiveUp, Finish
  <2>6. CASE RequestError(a)
    BY <2>6 DEF RequestError, Finish
  <2>7. QED
    BY <1>2, <2>1, <2>2, <2>3, <2>4, <2>5, <2>6 DEF Serve
<1>3. CASE ServePanel
  <2>1. ASSUME NEW s \in Sites, CheckUpdate(s) PROVE TypeOK'
    BY <2>1 DEF CheckUpdate
  <2>2. CASE InsertUpdate
    <3>1. CASE Finish(Panel) /\ UNCHANGED rowVars
      BY <2>2, <3>1 DEF InsertUpdate, Finish
    <3>2. CASE hsite[Panel] \in sites /\ InsertJob(Panel, hsite[Panel], "update")
      BY <2>2, <3>2, InsertTypes DEF InsertUpdate
    <3>3. QED
      BY <2>2, <3>1, <3>2 DEF InsertUpdate
  <2>3. CASE CheckSelfUpdate
    BY <2>3 DEF CheckSelfUpdate
  <2>4. CASE LaunchRecreate
    BY <2>4 DEF LaunchRecreate, Finish
  <2>5. QED
    BY <1>3, <2>1, <2>2, <2>3, <2>4 DEF ServePanel
<1>4. CASE Environment
  <2>1. CASE DatabaseError
    <3>1. RowTypes' /\ HandlerTypes' /\ built' \subseteq Jobs
      BY <2>1 DEF DatabaseError
    <3>2. RedisTypes' /\ WorkerTypes'
      BY <2>1, EndJobTypes DEF DatabaseError, Goto
    <3>3. QED
      BY <3>1, <3>2
  <2>2. CASE Crash
    BY <2>2 DEF Crash, Idle
  <2>3. CASE RecreateWorker
    BY <2>3 DEF RecreateWorker, Idle
  <2>4. CASE RecreatePanel
    BY <2>4 DEF RecreatePanel
  <2>5. CASE RedisFails
    BY <2>5 DEF RedisFails
  <2>6. CASE RedisReturns
    BY <2>6 DEF RedisReturns
  <2>7. CASE RedisFlushed
    BY <2>7 DEF RedisFlushed
  <2>8. QED
    BY <1>4, <2>1, <2>2, <2>3, <2>4, <2>5, <2>6, <2>7 DEF Environment
<1>5. ASSUME NEW j \in Jobs, CleanRegistry(j) PROVE TypeOK'
  BY <1>5 DEF CleanRegistry
<1>6. CASE Tick
  <2>1. ran' \in 0..(Timeout + Grace)
    BY <1>6 DEF Tick
  <2>2. age' \in [Jobs -> 0..TooOld]
    BY <1>6 DEF Tick
  <2>3. QED
    BY <1>6, <2>1, <2>2 DEF Tick
<1>7. CASE UNCHANGED vars
  BY <1>7 DEF vars
<1>8. QED
  BY <1>1, <1>2, <1>3, <1>4, <1>5, <1>6, <1>7 DEF Next

\* Type correctness: every reachable state of the queue is well formed.
THEOREM TypeCorrect == Spec => []TypeOK
<1>1. Init => TypeOK
  BY DeployQueueAssumption DEF Init, TypeOK, RowTypes, RedisTypes, WorkerTypes, HandlerTypes, JobStatuses, RqStatuses, WorkerSteps, HandlerSteps,
     Requests, TooOld, Cutoff
<1>2. QED
  BY <1>1, TypeStep, PTL DEF Spec

-----------------------------------------------------------------------------
\* The conjuncts of Inv that speak of more than types and the queue alone.
Places == HandlerInv /\ QueueInv /\ WorkerInv /\ RowInv /\ FinishedJobsHaveVerdict

\* Appending a new element to a sequence without duplicates creates none.
LEMMA AppendDistinct ==
  ASSUME NEW S, NEW q \in Seq(S), NEW e \in S,
         \A i \in 1..Len(q) : q[i] # e,
         \A i, k \in 1..Len(q) : i # k => q[i] # q[k]
  PROVE  \A i, k \in 1..Len(Append(q, e)) : i # k => Append(q, e)[i] # Append(q, e)[k]
  OBVIOUS

\* Taking the head leaves every other job in the queue.
LEMMA TailKeeps ==
  ASSUME TypeOK, queue # <<>>, queue' = Tail(queue), NEW j \in Jobs, InQueue(j), j # Head(queue)
  PROVE  InQueue(j)'
<1>1. PICK i \in 1..Len(queue) : queue[i] = j
  BY DEF InQueue
<1>2. queue \in Seq(Jobs) /\ i # 1
  BY <1>1 DEF TypeOK, RedisTypes
<1>3. i - 1 \in 1..Len(queue') /\ queue'[i - 1] = j
  BY <1>1, <1>2
<1>4. QED
  BY <1>3 DEF InQueue

\* A push adds the job to the queue, and nothing else.
LEMMA AppendAdds ==
  ASSUME TypeOK, NEW e \in Jobs, queue' = Append(queue, e), NEW j \in Jobs
  PROVE  InQueue(j)' <=> InQueue(j) \/ j = e
<1>1. queue \in Seq(Jobs)
  BY DEF TypeOK, RedisTypes
<1>2. \A i \in 1..Len(queue) : i \in 1..Len(queue') /\ queue'[i] = queue[i]
  BY <1>1
<1>3. Len(queue') = Len(queue) + 1 /\ queue'[Len(queue')] = e
  BY <1>1
<1>4. \A i \in 1..Len(queue') : i \in 1..Len(queue) \/ i = Len(queue')
  BY <1>1, <1>3
<1>5. Len(queue') \in 1..Len(queue')
  BY <1>1, <1>3
<1>6. QED
  BY <1>2, <1>3, <1>4, <1>5 DEF InQueue

\* RQ calls a job queued only while it is in the queue.
LEMMA PlaceStep == TypeOK /\ PlaceInv /\ [Next]_vars => PlaceInv'
<1> SUFFICES ASSUME TypeOK, PlaceInv, [Next]_vars, NEW j \in Jobs, rq'[j] = "queued"
             PROVE  InQueue(j)'
  BY DEF PlaceInv
<1> USE DEF rowVars, redisVars, workerVars, reqVars, TypeOK, RedisTypes
<1>1. ASSUME UNCHANGED queue, rq[j] = "queued" PROVE InQueue(j)'
  BY <1>1 DEF PlaceInv, InQueue
<1>2. ASSUME NEW o \in {"finished", "failed"}, EndJob(o), wpc # "idle" PROVE InQueue(j)'
  BY <1>1, <1>2 DEF EndJob, WorkerTypes
<1>3. CASE Work
  <2>1. CASE Take
    <3>1. Head(queue) \in Jobs /\ queue # <<>> /\ queue' = Tail(queue)
      BY <2>1 DEF Take
    <3>2. j # Head(queue) /\ rq[j] = "queued"
      BY <2>1, <3>1 DEF Take
    <3>3. QED
      BY <3>1, <3>2, TailKeeps DEF PlaceInv
  <2>2. CASE Start \/ EnsureFreeDisk \/ Report \/ Abort \/ KillHorse
    BY <1>1, <1>2, <2>2 DEF Start, EnsureFreeDisk, Report, Abort, KillHorse
  <2>3. CASE LoadSite \/ Build \/ Publish \/ CommitSite \/ CommitJob
    BY <1>1, <2>3 DEF LoadSite, Build, Publish, CommitSite, CommitJob
  <2>4. CASE Alarm
    BY <1>1, <1>2, <2>4 DEF Alarm, AlarmIsCaught, AlarmIsSwallowed, AlarmEscapes
  <2>5. QED
    BY <1>3, <2>1, <2>2, <2>3, <2>4 DEF Work
<1>4. ASSUME NEW a \in Requests, Serve(a) PROVE InQueue(j)'
  <2>1. CASE Enqueue(a)
    <3>1. CASE UNCHANGED <<queue, rq>>
      BY <1>1, <3>1
    <3>2. CASE /\ queue' = Append(queue, hjob[a])
               /\ rq' = [rq EXCEPT ![hjob[a]] = "queued"]
      <4>1. hjob[a] \in Jobs
        BY <2>1 DEF Enqueue, HandlerTypes
      <4>2. j = hjob[a] \/ InQueue(j)
        BY <3>2 DEF PlaceInv
      <4>3. QED
        BY <3>2, <4>1, <4>2, AppendAdds
    <3>3. QED
      BY <2>1, <3>1, <3>2 DEF Enqueue
  <2>2. CASE \/ RecordId(a) \/ GiveUp(a) \/ RequestError(a)
             \/ \E s \in Sites : Deploy(a, s) \/ DeleteSite(a, s)
    BY <1>1, <2>2 DEF RecordId, GiveUp, RequestError, Deploy, DeleteSite
  <2>3. QED
    BY <1>4, <2>1, <2>2 DEF Serve
<1>5. CASE ServePanel
  BY <1>1, <1>5 DEF ServePanel, CheckUpdate, InsertUpdate, CheckSelfUpdate, LaunchRecreate
<1>6. CASE Environment
  <2>1. CASE DatabaseError
    BY <1>1, <1>2, <2>1 DEF DatabaseError
  <2>2. CASE RedisFlushed
    BY <2>2 DEF RedisFlushed
  <2>3. CASE Crash \/ RecreateWorker \/ RecreatePanel \/ RedisFails \/ RedisReturns
    BY <1>1, <2>3 DEF Crash, RecreateWorker, RecreatePanel, RedisFails, RedisReturns
  <2>4. QED
    BY <1>6, <2>1, <2>2, <2>3 DEF Environment
<1>7. ASSUME NEW i \in Jobs, CleanRegistry(i) PROVE InQueue(j)'
  BY <1>1, <1>7 DEF CleanRegistry
<1>8. CASE Tick \/ UNCHANGED vars
  BY <1>1, <1>8 DEF Tick, vars
<1>9. QED
  BY <1>3, <1>4, <1>5, <1>6, <1>7, <1>8 DEF Next

\* When the worker ends its job, with a verdict written now or before or with no row left
\* to write to, every remaining job keeps its place.
LEMMA EndPlaces ==
  ASSUME Inv, TypeOK', wpc # "idle", NEW o \in {"finished", "failed"}, EndJob(o),
         \/ /\ status[wjob] \notin {"none", "deleted"}
            /\ \E v \in {"succeeded", "failed"} : Verdict(v)
         \/ /\ status[wjob] \in {"succeeded", "deleted"} \/ GivenUp(wjob)
            /\ UNCHANGED status,
         UNCHANGED <<sites, kind, siteOf, rqId, age, reqVars, built>>
  PROVE  Places'
<1> USE DEF Inv, TypeOK, RowTypes, RedisTypes, WorkerTypes, HandlerTypes, reqVars,
        JobStatuses, RqStatuses, HandlerSteps, Requests
<1>1. wjob \in Jobs /\ wpc' = "idle" /\ wjob' = NoJob /\ UNCHANGED <<redis, queue>>
  BY DEF EndJob, Idle
<1>2. rq[wjob] \in {"started", "unknown"}
  BY DEF WorkerInv
<1>3. \A j \in Jobs : j # wjob => rq'[j] = rq[j] /\ status'[j] = status[j]
  BY <1>1 DEF EndJob, Verdict
<1>4. rq'[wjob] \in {"started", "unknown", "finished", "failed"}
  BY <1>1, <1>2 DEF EndJob
<1>5a. /\ status'[wjob] \in {"succeeded", "failed", "deleted"}
       /\ status'[wjob] = "deleted" => status[wjob] = "deleted"
  BY <1>1 DEF Verdict, GivenUp
<1>5. HandlerInv'
  <2>1. UNCHANGED <<hpc, hjob>>
    OBVIOUS
  <2>2. \A a \in Requests : Unpushed(a) => hjob[a] \in Jobs \ {wjob}
    BY DEF HandlerInv, Unpushed
  <2>3. \A a \in Requests : Unpushed(a)' => Unpushed(a) /\ hjob[a] # wjob'
    BY <1>1, <2>1, <2>2, DeployQueueAssumption DEF Unpushed
  <2>4. QED
    BY <1>3, <1>5a, <2>1, <2>2, <2>3 DEF HandlerInv
<1>6. QueueInv'
  BY <1>1, <1>2, <1>3 DEF QueueInv, NotBegun, GivenUp
<1>7. WorkerInv'
  BY <1>1 DEF WorkerInv
<1>8. RowInv'
  BY <1>1, <1>3, <1>4, <1>5a DEF RowInv
<1>9. FinishedJobsHaveVerdict'
  BY <1>1, <1>3, <1>4, <1>5a DEF FinishedJobsHaveVerdict
<1>10. QED
  BY <1>5, <1>6, <1>7, <1>8, <1>9 DEF Places

\* A newly inserted job is known to the handler that inserted it alone.
LEMMA InsertPlaces ==
  ASSUME Inv, NEW a \in Requests, NEW s \in Sites, NEW k \in {"deploy", "update"},
         hpc[a] \in {"idle", "insert"}, InsertJob(a, s, k),
         UNCHANGED <<recreate, redisVars, workerVars, built>>
  PROVE  Places'
<1> USE DEF Inv, TypeOK, RowTypes, RedisTypes, WorkerTypes, HandlerTypes, redisVars, workerVars,
        JobStatuses, RqStatuses, HandlerSteps
<1>1. PICK j \in Jobs :
        /\ status[j] = "none"
        /\ status' = [status EXCEPT ![j] = "queued"]
        /\ siteOf' = [siteOf EXCEPT ![j] = s]
        /\ hpc' = [hpc EXCEPT ![a] = "enqueue"]
        /\ hjob' = [hjob EXCEPT ![a] = j]
        /\ UNCHANGED <<age, rqId>>
  BY DEF InsertJob
<1>2. rq[j] = "unknown" /\ rqId[j] = "none"
  BY <1>1 DEF RowInv
<1>3. \A b \in Requests : hjob[b] # j
  BY <1>1, DeployQueueAssumption DEF HandlerInv
<1>4. hjob[a] = NoJob /\ \A b \in Requests : hjob'[b] = (IF b = a THEN j ELSE hjob[b])
  BY <1>1
<1>5. \A b \in Requests : hpc'[b] = (IF b = a THEN "enqueue" ELSE hpc[b])
  BY <1>1
<1>6. \A i \in Jobs : status'[i] = (IF i = j THEN "queued" ELSE status[i])
  BY <1>1
<1>7. wjob # j /\ \A i \in Jobs : i # j => kind'[i] = kind[i]
  <2>1. wpc # "idle" => status[wjob] # "none"
    BY DEF WorkerInv, NotBegun, GivenUp
  <2>2. QED
    BY <1>1, <2>1, DeployQueueAssumption DEF InsertJob
<1>8. HandlerInv'
  BY <1>1, <1>2, <1>3, <1>4, <1>5, <1>6, <1>7, DeployQueueAssumption DEF HandlerInv, Unpushed
<1>9. QueueInv'
  BY <1>1, <1>2, <1>6, <1>7 DEF QueueInv, NotBegun, GivenUp
<1>10. WorkerInv'
  BY <1>1, <1>6, <1>7 DEF WorkerInv, NotBegun, GivenUp
<1>11. RowInv'
  <2>1. \A i \in Jobs : i # j => siteOf'[i] = siteOf[i]
    BY <1>1
  <2>2. UNCHANGED <<sites, rq, built>>
    BY DEF InsertJob
  <2>3. QED
    BY <1>1, <1>2, <1>6, <2>1, <2>2 DEF RowInv
<1>12. FinishedJobsHaveVerdict'
  BY <1>2, <1>6 DEF FinishedJobsHaveVerdict
<1>13. QED
  BY <1>8, <1>9, <1>10, <1>11, <1>12 DEF Places

\* Every step keeps each job in its place, and rows and RQ in step with that place.
LEMMA InvStep == Inv /\ [Next]_vars => Inv'
<1> SUFFICES ASSUME Inv, [Next]_vars PROVE Inv'
  OBVIOUS
<1> USE DeployQueueAssumption
<1>t. TypeOK'
  BY TypeStep DEF Inv
<1>p. PlaceInv'
  BY PlaceStep DEF Inv
<1> SUFFICES Places'
  BY <1>t, <1>p DEF Inv, Places
<1> USE DEF JobStatuses, RqStatuses, WorkerSteps, HandlerSteps, Requests,
        TooOld, Cutoff, rowVars, redisVars, workerVars, reqVars,
        Inv, Places, TypeOK, RowTypes, RedisTypes, WorkerTypes, HandlerTypes,
        HandlerInv, QueueInv, WorkerInv, RowInv, FinishedJobsHaveVerdict,
        NotBegun, GivenUp, Unpushed
<1>1. CASE Work
  <2>1. CASE Take
    <3>0. PICK j \in Jobs : /\ j = queue[1] /\ j = Head(queue)
                           /\ rq[j] = "queued" /\ NotBegun(j)
                           /\ rq' = [rq EXCEPT ![j] = "started"]
      <4>1. 1 \in 1..Len(queue) /\ Head(queue) = queue[1] /\ queue[1] \in Jobs
        BY <2>1 DEF Take
      <4>2. rq[queue[1]] = "queued" /\ NotBegun(queue[1])
        BY <4>1
      <4>3. rq' = [rq EXCEPT ![queue[1]] = "started"]
        BY <2>1, <4>1 DEF Take
      <4>4. QED
        BY <4>1, <4>2, <4>3
    <3>1. HandlerInv'
      <4>1. \A i \in Jobs \ {j} : rq'[i] = rq[i]
        BY <3>0
      <4>2. UNCHANGED <<hpc, hjob, status, rqId>> /\ wjob' = j
        BY <2>1, <3>0 DEF Take
      <4>3. \A a \in Requests : Unpushed(a) => hjob[a] \in Jobs \ {j}
        BY <3>0
      <4>4. QED
        BY <4>1, <4>2, <4>3
    <3>2. QueueInv'
      BY <2>1 DEF Take
    <3>3. WorkerInv'
      BY <2>1, <3>0 DEF Take
    <3>4. RowInv' /\ FinishedJobsHaveVerdict'
      BY <2>1, <3>0 DEF Take
    <3>5. QED
      BY <3>1, <3>2, <3>3, <3>4
  <2>2. CASE Start
    <3>1. CASE RowGone
      BY <2>2, <3>1, <1>t, EndPlaces DEF Start, RowGone
    <3>2. CASE ~RowGone
      <4>1. /\ status[wjob] = "queued" \/ GivenUp(wjob)
            /\ rq[wjob] \in {"started", "unknown"} /\ wjob \in Jobs
            /\ status' = [status EXCEPT ![wjob] = "running"]
            /\ wpc' \in {"disk", "load"}
            /\ UNCHANGED <<sites, redisVars, wjob, ran, waited, kind, siteOf, rqId, age, reqVars, built>>
        BY <2>2, <3>2 DEF Start, Goto, Verdict, RowGone
      <4>2. \A j \in Jobs : status'[j] = (IF j = wjob THEN "running" ELSE status[j])
        BY <4>1
      <4>3. HandlerInv'
        BY <4>1, <4>2
      <4>4. QueueInv'
        BY <4>1, <4>2
      <4>5. WorkerInv' /\ RowInv' /\ FinishedJobsHaveVerdict'
        BY <4>1, <4>2
      <4>6. QED
        BY <4>3, <4>4, <4>5
    <3>3. QED
      BY <3>1, <3>2
  <2>3. CASE EnsureFreeDisk
    <3>1. CASE Goto("load") /\ UNCHANGED <<status, redisVars>>
      BY <2>3, <3>1 DEF EnsureFreeDisk, Goto
    <3>2. CASE \/ ~RowGone /\ Verdict("failed") /\ EndJob("finished")
               \/ RowGone /\ EndJob("failed") /\ UNCHANGED status
      BY <2>3, <3>2, <1>t, EndPlaces DEF EnsureFreeDisk, RowGone
    <3>3. QED
      BY <2>3, <3>1, <3>2 DEF EnsureFreeDisk
  <2>4. CASE LoadSite
    BY <2>4 DEF LoadSite, Goto
  <2>5. CASE Build
    BY <2>5 DEF Build, Goto, AfterBuild
  <2>6. CASE Publish
    BY <2>6 DEF Publish, Goto, AfterPublish
  <2>7. CASE CommitSite
    BY <2>7 DEF CommitSite, Goto, AfterCommitSite
  <2>8. CASE CommitJob
    <3>1. CASE RowGone
      BY <2>8, <3>1 DEF CommitJob, Goto
    <3>2. CASE ~RowGone
      <4>1. /\ status[wjob] = "running" \/ GivenUp(wjob)
            /\ wjob \in built /\ rq[wjob] \in {"started", "unknown"} /\ wjob \in Jobs
            /\ status' = [status EXCEPT ![wjob] = "succeeded"]
            /\ wpc' = "report"
            /\ UNCHANGED <<sites, redisVars, wjob, ran, waited, kind, siteOf, rqId, age, reqVars, built>>
        BY <2>8, <3>2 DEF CommitJob, Goto, Verdict, RowGone
      <4>2. \A j \in Jobs : status'[j] = (IF j = wjob THEN "succeeded" ELSE status[j])
        BY <4>1
      <4>3. HandlerInv'
        BY <4>1, <4>2
      <4>4. QueueInv'
        BY <4>1, <4>2
      <4>5. WorkerInv' /\ RowInv' /\ FinishedJobsHaveVerdict'
        BY <2>8, <4>1, <4>2 DEF CommitJob
      <4>6. QED
        BY <4>3, <4>4, <4>5
    <3>3. QED
      BY <3>1, <3>2
  <2>9. CASE Abort
    BY <2>9, <1>t, EndPlaces DEF Abort, RowGone
  <2>10. CASE Alarm
    <3>1. CASE AlarmIsCaught
      BY <2>10, <3>1 DEF Alarm, AlarmIsCaught
    <3>2. CASE AlarmIsSwallowed
      BY <2>10, <3>2 DEF Alarm, AlarmIsSwallowed
    <3>3. CASE AlarmEscapes
      BY <2>10, <3>3 DEF Alarm, AlarmEscapes, EndJob, Idle
    <3>4. QED
      BY <2>10, <3>1, <3>2, <3>3 DEF Alarm
  <2>11. CASE KillHorse
    BY <2>11 DEF EndJob, Idle, KillHorse
  <2>12. CASE Report
    <3>1. CASE RowGone
      BY <2>12, <3>1 DEF Report, Goto, RowGone
    <3>2. CASE ~RowGone
      BY <2>12, <3>2, <1>t, EndPlaces DEF Report
    <3>3. QED
      BY <3>1, <3>2
  <2>13. QED
    BY <1>1, <2>1, <2>2, <2>3, <2>4, <2>5, <2>6, <2>7, <2>8, <2>9, <2>10, <2>11, <2>12 DEF Work
<1>2. ASSUME NEW a \in Requests, Serve(a) PROVE Places'
  <2>1. ASSUME NEW s \in Sites, Deploy(a, s) PROVE Places'
    BY <2>1, InsertPlaces DEF Deploy
  <2>2. ASSUME NEW s \in Sites, DeleteSite(a, s) PROVE Places'
    <3>1. \A j \in Jobs : \/ status'[j] = status[j]
                          \/ status'[j] = "deleted" /\ status[j] # "none"
      BY <2>2, DeployQueueAssumption DEF DeleteSite
    <3>2. HandlerInv'
      BY <2>2, <3>1 DEF DeleteSite
    <3>3. QueueInv'
      BY <2>2, <3>1 DEF DeleteSite
    <3>4. WorkerInv' /\ FinishedJobsHaveVerdict'
      BY <2>2, <3>1 DEF DeleteSite
    <3>5. RowInv'
      BY <2>2, <3>1 DEF DeleteSite
    <3>6. QED
      BY <3>2, <3>3, <3>4, <3>5
  <2>3. CASE Enqueue(a)
    <3>1. PICK j \in Jobs : /\ j = hjob[a] /\ rq[j] = "unknown" /\ wjob # j
                           /\ status[j] \in {"queued", "deleted"}
      BY <2>3 DEF Enqueue
    <3>2. PICK step \in {"record", "refused"} :
            /\ hpc' = [hpc EXCEPT ![a] = step]
            /\ step = "record" \/ ~RepliesArrive \/ UNCHANGED <<queue, rq>>
      BY <2>3 DEF Enqueue, RepliesArrive
    <3>3. CASE UNCHANGED <<queue, rq>>
      BY <2>3, <3>1, <3>2, <3>3 DEF Enqueue
    <3>4. CASE /\ step = "record" \/ ~RepliesArrive
               /\ queue' = Append(queue, j)
               /\ rq' = [rq EXCEPT ![j] = "queued"]
      <4>1. HandlerInv'
        <5>1. \A b \in Requests : Unpushed(b)' => b # a /\ Unpushed(b) /\ hjob[b] # j
          BY <3>1, <3>2, <3>4, DeployQueueAssumption
        <5>2. \A i \in Jobs \ {j} : rq'[i] = rq[i]
          BY <3>4
        <5>3. UNCHANGED <<status, rqId, hjob, wjob>>
          BY <2>3 DEF Enqueue
        <5>4. QED
          BY <5>1, <5>2, <5>3
      <4>2. QueueInv'
        <5>1. \A i \in 1..Len(queue) : queue'[i] = queue[i] /\ queue[i] # j
          BY <3>1, <3>4
        <5>2. Len(queue') = Len(queue) + 1 /\ queue'[Len(queue')] = j
          BY <3>4
        <5>3. \A i \in Jobs : rq'[i] = IF i = j THEN "queued" ELSE rq[i]
          BY <3>4
        <5>4. \A i \in 1..Len(queue') : i \in 1..Len(queue) \/ i = Len(queue')
          BY <5>2
        <5>5. UNCHANGED <<status, kind>>
          BY <2>3 DEF Enqueue
        <5>6. ASSUME NEW i \in 1..Len(queue')
              PROVE  (rq[queue[i]] = "queued" /\ NotBegun(queue[i]))'
          <6>1. CASE i \in 1..Len(queue)
            <7>1. queue[i] \in Jobs
              BY <6>1
            <7>2. QED
              BY <6>1, <7>1, <5>1, <5>3, <5>5
          <6>2. CASE i = Len(queue')
            BY <3>1, <5>2, <5>3, <5>5, <6>2
          <6>3. QED
            BY <5>4, <6>1, <6>2
        <5>7. \A i, k \in 1..Len(queue') : i # k => queue'[i] # queue'[k]
          BY <3>4, <5>1, AppendDistinct
        <5>8. QED
          BY <5>6, <5>7
      <4>3. WorkerInv' /\ RowInv' /\ FinishedJobsHaveVerdict'
        BY <2>3, <3>1, <3>4 DEF Enqueue
      <4>4. QED
        BY <4>1, <4>2, <4>3
    <3>5. QED
      BY <2>3, <3>1, <3>2, <3>3, <3>4 DEF Enqueue
  <2>4. CASE RecordId(a)
    BY <2>4 DEF RecordId, Finish
  <2>5. CASE GiveUp(a)
    BY <2>5 DEF GiveUp, Finish
  <2>6. CASE RequestError(a)
    BY <2>6 DEF RequestError, Finish
  <2>7. QED
    BY <1>2, <2>1, <2>2, <2>3, <2>4, <2>5, <2>6 DEF Serve
<1>3. CASE ServePanel
  <2>1. ASSUME NEW s \in Sites, CheckUpdate(s) PROVE Places'
    BY <2>1 DEF CheckUpdate
  <2>2. CASE InsertUpdate
    <3>1. CASE Finish(Panel) /\ UNCHANGED rowVars
      BY <2>2, <3>1 DEF InsertUpdate, Finish
    <3>2. CASE hsite[Panel] \in sites /\ InsertJob(Panel, hsite[Panel], "update")
      BY <2>2, <3>2, InsertPlaces DEF InsertUpdate
    <3>3. QED
      BY <2>2, <3>1, <3>2 DEF InsertUpdate
  <2>3. CASE CheckSelfUpdate
    BY <2>3 DEF CheckSelfUpdate
  <2>4. CASE LaunchRecreate
    BY <2>4 DEF LaunchRecreate, Finish
  <2>5. QED
    BY <1>3, <2>1, <2>2, <2>3, <2>4 DEF ServePanel
<1>4. CASE Environment
  <2>1. CASE DatabaseError
    <3>1. CASE Caught /\ Goto("abort") /\ UNCHANGED redisVars
      BY <2>1, <3>1 DEF DatabaseError, Caught, Goto
    <3>2. CASE EndJob("failed")
      BY <2>1, <3>2 DEF DatabaseError, EndJob, Idle
    <3>3. QED
      BY <2>1, <3>1, <3>2 DEF DatabaseError
  <2>2. CASE Crash
    BY <2>2 DEF Crash, Idle
  <2>3. CASE RecreateWorker
    BY <2>3 DEF RecreateWorker, Idle
  <2>4. CASE RecreatePanel
    BY <2>4 DEF RecreatePanel
  <2>5. CASE RedisFails
    BY <2>5 DEF RedisFails
  <2>6. CASE RedisReturns
    BY <2>6 DEF RedisReturns
  <2>7. CASE RedisFlushed
    BY <2>7 DEF RedisFlushed, DataSurvives
  <2>8. QED
    BY <1>4, <2>1, <2>2, <2>3, <2>4, <2>5, <2>6, <2>7 DEF Environment
<1>5. ASSUME NEW j \in Jobs, CleanRegistry(j) PROVE Places'
  BY <1>5 DEF CleanRegistry
<1>6. CASE Tick
  <2>1. HandlerInv' /\ QueueInv' /\ RowInv' /\ FinishedJobsHaveVerdict'
    BY <1>6 DEF Tick
  <2>2. wpc # "start"
    BY <1>6 DEF Tick, Slow, Prunes
  <2>3. WorkerInv'
    BY <1>6, <2>2 DEF Tick
  <2>4. QED
    BY <2>1, <2>3
<1>7. CASE UNCHANGED vars
  BY <1>7 DEF vars
<1>8. QED
  BY <1>1, <1>2, <1>3, <1>4, <1>5, <1>6, <1>7 DEF Next

\* The inductive invariant, that each job is in one place and its row and RQ agree with that
\* place, holds in every reachable state.
THEOREM Invariant == Spec => []Inv
<1>1. Init => TypeOK
  BY DeployQueueAssumption DEF Init, TypeOK, RowTypes, RedisTypes, WorkerTypes, HandlerTypes,
     JobStatuses, RqStatuses, WorkerSteps, HandlerSteps, Requests, TooOld, Cutoff
<1>2. Init => Inv
  BY <1>1 DEF Init, Inv, HandlerInv, QueueInv, WorkerInv, RowInv, PlaceInv, FinishedJobsHaveVerdict, Unpushed,
     Requests
<1>3. Inv /\ [Next]_vars => Inv'
  BY InvStep
<1>4. QED
  BY <1>2, <1>3, PTL DEF Spec

\* The guard never overlooks a job that the queue still holds within the cutoff, or that
\* the worker executes after having waited no longer than the slack allows: whatever the
\* numbers of jobs, sites and threads, and whatever timeout, grace and slack are configured.
THEOREM GuardCorrect == DataSurvives => (Spec => []GuardSeesLiveJobs)
<1> SUFFICES ASSUME DataSurvives PROVE Spec => []GuardSeesLiveJobs
  OBVIOUS
<1>1. Inv => GuardSeesLiveJobs
  <2> SUFFICES ASSUME Inv, NEW j \in Jobs, status[j] \in {"queued", "running"},
                      \/ InQueue(j) /\ age[j] <= Cutoff
                      \/ wjob = j /\ waited + Grace <= Slack
               PROVE  Active(j)
    BY DEF GuardSeesLiveJobs
  <2>1. CASE InQueue(j) /\ age[j] <= Cutoff
    BY <2>1 DEF Inv, QueueInv, InQueue, Active, RqJobIsAlive
  <2>2. CASE wjob = j /\ waited + Grace <= Slack
    <3>1. wpc # "idle"
      BY <2>2, DeployQueueAssumption DEF Inv, TypeOK, WorkerTypes
    <3>2. rq[j] = "started" /\ age[j] <= waited + ran
      BY <2>2, <3>1 DEF Inv, WorkerInv, DataSurvives
    <3>3. age[j] <= Cutoff
      BY <2>2, <3>2, DeployQueueAssumption DEF Inv, TypeOK, WorkerTypes, RowTypes, Cutoff, TooOld
    <3>4. QED
      BY <3>2, <3>3 DEF Active, RqJobIsAlive
  <2>3. QED
    BY <2>1, <2>2
<1>2. QED
  BY <1>1, Invariant, PTL

\* RQ never files a job as finished whose row carries no verdict.
THEOREM VerdictCorrect == Spec => []FinishedJobsHaveVerdict
BY Invariant, PTL DEF Inv

\* A pushed job that has not settled is in the queue or among the started jobs, whatever
\* happens to Redis, the worker and the panel: what PushedJobsSettle relies on.
THEOREM UnsettledTracked == Spec => []UnsettledJobsAreTracked
<1>1. Inv => UnsettledJobsAreTracked
  BY DEF Inv, TypeOK, RedisTypes, RqStatuses, PlaceInv, FinishedJobsHaveVerdict,
     UnsettledJobsAreTracked, Settled
<1>2. QED
  BY <1>1, Invariant, PTL

\* A job in hand that is not overdue, and whose row is not gone, is active for the guard.
LEMMA InHandIsActive ==
  ASSUME RepliesArrive, DataSurvives, Inv, NEW j \in Jobs, InHand(j), ~Overdue(j),
         status[j] # "deleted"
  PROVE  Active(j)
<1> USE DeployQueueAssumption
    DEF Inv, TypeOK, RowTypes, WorkerTypes, NotBegun, GivenUp, DataSurvives, RepliesArrive
<1>1. age[j] <= Cutoff
  BY DEF Overdue, TooOld, Cutoff
<1>2. CASE InQueue(j)
  BY <1>1, <1>2 DEF QueueInv, InQueue, Active, RqJobIsAlive
<1>3. CASE wjob = j /\ status[j] # "succeeded"
  <2>1. wpc # "idle"
    BY <1>3
  <2>2. rq[j] = "started" /\ status[j] \in {"queued", "running"}
    BY <1>3, <2>1 DEF WorkerInv
  <2>3. QED
    BY <1>1, <2>2 DEF Active, RqJobIsAlive
<1>4. ASSUME NEW a \in Requests, hjob[a] = j, hpc[a] = "enqueue" PROVE Active(j)
  <2>1. rqId[j] = "none" /\ status[j] = "queued"
    BY <1>4 DEF HandlerInv, Unpushed
  <2>2. QED
    BY <1>1, <2>1 DEF Active, RqJobIsAlive
<1>5. QED
  BY <1>2, <1>3, <1>4 DEF InHand, Live

\* While Redis keeps its data and acknowledges pushes, no update is accepted next to another
\* job of its site and no self-update next to any job, unless that job is overdue: the guard
\* keeps what its docstring says up to the age it is told to look at.
THEOREM DuplicatesOverdue == RepliesArrive /\ DataSurvives => (Spec => DuplicatesAreOverdue)
<1> SUFFICES ASSUME RepliesArrive, DataSurvives PROVE Spec => DuplicatesAreOverdue
  OBVIOUS
<1>1. ASSUME Inv, NEW j \in Jobs, InHand(j), ~Overdue(j)
      PROVE  ~CheckUpdate(siteOf[j]) /\ (status[j] # "deleted" => ~CheckSelfUpdate)
  <2>1. CASE status[j] = "deleted"
    BY <1>1, <2>1 DEF Inv, RowInv, CheckUpdate
  <2>2. CASE status[j] # "deleted"
    BY <1>1, <2>2, InHandIsActive DEF CheckUpdate, CheckSelfUpdate
  <2>3. QED
    BY <2>1, <2>2
<1>2. Inv => \A j \in Jobs : InHand(j) /\ ~Overdue(j) =>
        /\ ~CheckUpdate(siteOf[j])
        /\ status[j] # "deleted" => ~CheckSelfUpdate
  BY <1>1
<1>3. QED
  BY <1>2, Invariant, PTL DEF DuplicatesAreOverdue

-----------------------------------------------------------------------------
\* Every step of the queue is a step of the ledger, or leaves its variables alone.
LEMMA LedgerStep ==
  RepliesArrive /\ Inv /\ [Next]_vars => [Ledger!LedgerNext]_(Ledger!ledgerVars)
<1> SUFFICES ASSUME RepliesArrive, Inv, [Next]_vars
             PROVE  Ledger!LedgerNext \/ UNCHANGED <<status, wjob, built>>
  BY DEF Ledger!ledgerVars
<1> USE DEF rowVars, redisVars, workerVars, reqVars, NotBegun, GivenUp
<1>w. wpc # "idle" => wjob \in Jobs
  BY DEF Inv, TypeOK, WorkerTypes
<1>r. status \in [Jobs -> JobStatuses]
  BY DEF Inv, TypeOK, RowTypes
<1>n. ASSUME NEW j \in Jobs,
             \/ Ledger!Create(j) \/ Ledger!Refuse(j) \/ Ledger!TakeUp(j) \/ Ledger!Begin(j)
             \/ Ledger!Rebuild(j) \/ Ledger!Succeed(j) \/ Ledger!Fail(j)
      PROVE  Ledger!LedgerNext
  BY <1>n DEF Ledger!LedgerNext
<1>c. ASSUME NEW a \in Requests, NEW s, NEW k, InsertJob(a, s, k), UNCHANGED <<wjob, built>>
      PROVE  Ledger!LedgerNext
  BY <1>c, <1>n DEF InsertJob, Ledger!Create, Ledger!Move
<1>e. ASSUME NEW o, EndJob(o), UNCHANGED <<status, built>>
      PROVE  Ledger!LedgerNext
  BY <1>e DEF EndJob, Idle, Ledger!LeaveOff, Ledger!LedgerNext
<1>f. ASSUME wpc \in {"disk", "abort"}, ~RowGone, Verdict("failed"), NEW o, EndJob(o), UNCHANGED built
      PROVE  Ledger!LedgerNext
  <2>1. status[wjob] \in {"running", "succeeded"} /\ wjob' = NoJob
    BY <1>f, <1>w DEF RowGone, Inv, WorkerInv, EndJob, Idle
  <2>2. Ledger!Fail(wjob)
    BY <1>f, <2>1 DEF Verdict, Ledger!Fail, Ledger!Move
  <2>3. QED
    BY <1>f, <1>w, <1>n, <2>2
<1>b. ASSUME wpc = "build", built' = built \cup {wjob}, UNCHANGED <<status, wjob>>
      PROVE  Ledger!LedgerNext
  BY <1>b, <1>w, <1>n DEF Inv, WorkerInv, Ledger!Rebuild
<1>1. CASE Work
  <2>1. CASE Take
    <3>1. PICK j \in Jobs : j = Head(queue) /\ status[j] \in {"queued", "deleted"}
      <4>1. 1 \in 1..Len(queue) /\ Head(queue) = queue[1] /\ queue[1] \in Jobs
        BY <2>1 DEF Take, Inv, TypeOK, RedisTypes
      <4>2. QED
        BY <4>1 DEF Inv, QueueInv
    <3>2. wjob = NoJob
      BY <2>1 DEF Take, Inv, TypeOK, WorkerTypes
    <3>3. Ledger!TakeUp(j)
      BY <2>1, <3>1, <3>2 DEF Take, Ledger!TakeUp
    <3>4. QED
      BY <3>3, <1>n
  <2>2. CASE Start
    <3>1. CASE RowGone
      BY <2>2, <3>1, <1>e DEF Start
    <3>2. CASE ~RowGone
      <4>1. status[wjob] = "queued"
        BY <2>2, <3>2 DEF Start, RowGone, Inv, WorkerInv
      <4>2. Ledger!Begin(wjob)
        BY <2>2, <3>2, <4>1 DEF Start, Goto, Verdict, Ledger!Begin, Ledger!Move
      <4>3. QED
        BY <2>2, <1>w, <1>n, <4>2 DEF Start
    <3>3. QED
      BY <3>1, <3>2
  <2>3. CASE EnsureFreeDisk
    BY <2>3, <1>e, <1>f DEF EnsureFreeDisk, Goto
  <2>4. CASE Build
    BY <2>4, <1>b DEF Build, Goto
  <2>5. CASE CommitJob
    <3>1. CASE RowGone
      BY <2>5, <3>1 DEF CommitJob, Goto
    <3>2. CASE ~RowGone
      <4>1. status[wjob] = "running" /\ wjob \in built
        BY <2>5, <3>2 DEF CommitJob, RowGone, Inv, WorkerInv
      <4>2. Ledger!Succeed(wjob)
        BY <2>5, <3>2, <4>1 DEF CommitJob, Goto, Verdict, Ledger!Succeed, Ledger!Move
      <4>3. QED
        BY <2>5, <1>w, <1>n, <4>2 DEF CommitJob
    <3>3. QED
      BY <3>1, <3>2
  <2>6. CASE Report
    BY <2>6, <1>e DEF Report, Goto
  <2>7. CASE Abort
    BY <2>7, <1>e, <1>f DEF Abort
  <2>8. CASE Alarm
    <3>1. CASE AlarmIsCaught
      BY <2>8, <3>1, <1>b DEF Alarm, AlarmIsCaught
    <3>2. CASE AlarmIsSwallowed
      BY <2>8, <3>2 DEF Alarm, AlarmIsSwallowed
    <3>3. CASE AlarmEscapes
      BY <2>8, <3>3, <1>e DEF Alarm, AlarmEscapes
    <3>4. QED
      BY <2>8, <3>1, <3>2, <3>3 DEF Alarm
  <2>9. CASE KillHorse
    BY <2>9, <1>e DEF KillHorse
  <2>10. CASE LoadSite \/ Publish \/ CommitSite
    BY <2>10 DEF LoadSite, Publish, CommitSite, Goto
  <2>11. QED
    BY <1>1, <2>1, <2>2, <2>3, <2>4, <2>5, <2>6, <2>7, <2>8, <2>9, <2>10 DEF Work
<1>2. ASSUME NEW a \in Requests, Serve(a)
      PROVE  Ledger!LedgerNext \/ UNCHANGED <<status, wjob, built>>
  <2>1. ASSUME NEW s \in Sites, Deploy(a, s) PROVE Ledger!LedgerNext
    BY <2>1, <1>c DEF Deploy
  <2>2. ASSUME NEW s \in Sites, DeleteSite(a, s) PROVE Ledger!LedgerNext
    <3>1. PICK S \in SUBSET {j \in Jobs : status[j] # "none"} : S = {j \in Jobs : siteOf[j] = s}
      BY DeployQueueAssumption DEF Inv, RowInv
    <3>2. status' = [j \in Jobs |-> IF j \in S THEN "deleted" ELSE status[j]]
      BY <2>2, <3>1 DEF DeleteSite
    <3>3. Ledger!Remove(S)
      BY <2>2, <3>2 DEF DeleteSite, Ledger!Remove
    <3>4. QED
      BY <3>3 DEF Ledger!LedgerNext
  <2>3. CASE GiveUp(a)
    <3>1. CASE UNCHANGED status
      BY <2>3, <3>1 DEF GiveUp
    <3>2. CASE /\ status[hjob[a]] # "deleted"
               /\ status' = [status EXCEPT ![hjob[a]] = "failed"]
      <4>1. /\ hjob[a] \in Jobs /\ status[hjob[a]] = "queued" /\ hjob[a] \notin built
            /\ wjob # hjob[a]
        BY <2>3, <3>2 DEF GiveUp, Inv, TypeOK, HandlerTypes, HandlerInv, RowInv, Unpushed
      <4>2. Ledger!Refuse(hjob[a])
        BY <2>3, <3>2, <4>1 DEF GiveUp, Ledger!Refuse, Ledger!Move
      <4>3. QED
        BY <4>1, <4>2, <1>n
    <3>3. QED
      BY <2>3, <3>1, <3>2 DEF GiveUp
  <2>4. CASE Enqueue(a) \/ RecordId(a) \/ RequestError(a)
    BY <2>4 DEF Enqueue, RecordId, RequestError
  <2>5. QED
    BY <1>2, <2>1, <2>2, <2>3, <2>4 DEF Serve
<1>3. CASE ServePanel
  <2>1. CASE InsertUpdate
    BY <2>1, <1>c DEF InsertUpdate, Requests
  <2>2. ASSUME NEW s \in Sites, CheckUpdate(s) PROVE UNCHANGED <<status, wjob, built>>
    BY <2>2 DEF CheckUpdate
  <2>3. CASE CheckSelfUpdate \/ LaunchRecreate
    BY <2>3 DEF CheckSelfUpdate, LaunchRecreate
  <2>4. QED
    BY <1>3, <2>1, <2>2, <2>3 DEF ServePanel
<1>4. CASE Environment
  <2>1. CASE DatabaseError
    BY <2>1, <1>e DEF DatabaseError, Goto
  <2>2. CASE Crash \/ RecreateWorker
    BY <2>2 DEF Crash, RecreateWorker, Idle, Ledger!LeaveOff, Ledger!LedgerNext
  <2>3. QED
    BY <1>4, <2>1, <2>2 DEF Environment, RecreatePanel, RedisFails, RedisReturns, RedisFlushed
<1>5. ASSUME NEW j \in Jobs, CleanRegistry(j) PROVE UNCHANGED <<status, wjob, built>>
  BY <1>5 DEF CleanRegistry
<1>6. CASE Tick
  BY <1>6 DEF Tick
<1>7. CASE UNCHANGED vars
  BY <1>7 DEF vars
<1>8. QED
  BY <1>1, <1>2, <1>3, <1>4, <1>5, <1>6, <1>7 DEF Next

\* The rows are an honest account of the jobs: the queue implements JobLedger, so a success
\* may be taken back only by the worker that wrote it, before it leaves the job, and
\* containers are rebuilt only for a job whose row says running.
THEOREM LedgerRefinement == RepliesArrive => (Spec => ImplementsLedger)
<1> SUFFICES ASSUME RepliesArrive PROVE Spec => ImplementsLedger
  OBVIOUS
<1>1. Init => Ledger!LedgerInit
  BY DEF Init, Ledger!LedgerInit
<1>2. Inv /\ [Next]_vars => [Ledger!LedgerNext]_(Ledger!ledgerVars)
  BY LedgerStep
<1>3. QED
  BY <1>1, <1>2, Invariant, PTL DEF Spec, ImplementsLedger, Ledger!LedgerSpec

\* What JobLedger promises of verdicts is true of JobLedger, and so of the queue: a verdict
\* is final once the worker is through with the job.
THEOREM VerdictsStand ==
  RepliesArrive => (Spec => []Ledger!SuccessIsEarned /\ Ledger!VerdictIsFinal)
<1> DEFINE L == /\ status \in [Jobs -> Ledger!Statuses]
                /\ \A j \in Jobs : status[j] = "failed" => wjob # j
                /\ Ledger!SuccessIsEarned
           Final == \A j \in Jobs : Ledger!Done(j) \/ status[j] = "failed" =>
                      status'[j] = "deleted" \/ (status'[j] = status[j] /\ Ledger!Done(j)')
<1> USE DeployQueueAssumption
<1>1. Ledger!LedgerInit => L
  BY DEF Ledger!LedgerInit, Ledger!Statuses, Ledger!SuccessIsEarned
<1>2. L /\ [Ledger!LedgerNext]_(Ledger!ledgerVars) => L' /\ [Final]_(Ledger!ledgerVars)
  <2> SUFFICES ASSUME L, [Ledger!LedgerNext]_(Ledger!ledgerVars) PROVE L' /\ Final
    OBVIOUS
  <2> USE DEF Ledger!Statuses, Ledger!SuccessIsEarned, Ledger!Done
  <2>1. ASSUME NEW j \in Jobs, Ledger!Create(j) PROVE L' /\ Final
    BY <2>1 DEF Ledger!Create, Ledger!Move
  <2>2. ASSUME NEW j \in Jobs, Ledger!TakeUp(j) PROVE L' /\ Final
    BY <2>2 DEF Ledger!TakeUp
  <2>3. ASSUME NEW j \in Jobs, Ledger!Begin(j) PROVE L' /\ Final
    BY <2>3 DEF Ledger!Begin, Ledger!Move
  <2>4. ASSUME NEW j \in Jobs, Ledger!Refuse(j) PROVE L' /\ Final
    BY <2>4 DEF Ledger!Refuse, Ledger!Move
  <2>5. ASSUME NEW j \in Jobs, Ledger!Fail(j) PROVE L' /\ Final
    BY <2>5 DEF Ledger!Fail, Ledger!Move
  <2>6. ASSUME NEW j \in Jobs, Ledger!Succeed(j) PROVE L' /\ Final
    BY <2>6 DEF Ledger!Succeed, Ledger!Move
  <2>7. ASSUME NEW j \in Jobs, Ledger!Rebuild(j) PROVE L' /\ Final
    BY <2>7 DEF Ledger!Rebuild
  <2>8. ASSUME NEW S \in SUBSET {j \in Jobs : status[j] # "none"}, Ledger!Remove(S)
        PROVE  L' /\ Final
    BY <2>8 DEF Ledger!Remove
  <2>9. CASE Ledger!LeaveOff
    BY <2>9 DEF Ledger!LeaveOff
  <2>10. CASE UNCHANGED Ledger!ledgerVars
    BY <2>10 DEF Ledger!ledgerVars
  <2>11. QED
    BY <2>1, <2>2, <2>3, <2>4, <2>5, <2>6, <2>7, <2>8, <2>9, <2>10 DEF Ledger!LedgerNext
<1>3. L => Ledger!SuccessIsEarned
  OBVIOUS
<1>4. Ledger!LedgerSpec => []Ledger!SuccessIsEarned /\ Ledger!VerdictIsFinal
  BY <1>1, <1>2, <1>3, PTL DEF Ledger!LedgerSpec, Ledger!VerdictIsFinal
<1>5. QED
  BY <1>4, LedgerRefinement, PTL DEF ImplementsLedger

-----------------------------------------------------------------------------
\* Every step of the queue is a step of JobFlow, or leaves the flow of jobs alone.
LEMMA FlowStep == Inv /\ [Next]_vars => [Flow!FlowNext]_(Flow!flowVars)
<1> SUFFICES ASSUME Inv, [Next]_vars
             PROVE  Flow!FlowNext \/ UNCHANGED <<NotPushed, queue, wjob>>
  BY DEF Flow!flowVars
<1> USE DeployQueueAssumption
    DEF rowVars, redisVars, workerVars, reqVars, Inv, TypeOK, RowTypes, RedisTypes, WorkerTypes,
        HandlerTypes
<1>w. wpc # "idle" => wjob \in Jobs /\ status[wjob] # "none"
  BY DEF WorkerInv, NotBegun, GivenUp
<1>s. ASSUME \A j \in Jobs : status'[j] = "none" <=> status[j] = "none", UNCHANGED <<hpc, hjob>>
      PROVE  NotPushed' = NotPushed
  BY <1>s DEF NotPushed
<1>v. ASSUME wpc # "idle", NEW v \in {"running", "succeeded", "failed"}, Verdict(v)
      PROVE  \A j \in Jobs : status'[j] = "none" <=> status[j] = "none"
  BY <1>v, <1>w DEF Verdict
<1>e. ASSUME NEW o, EndJob(o), NotPushed' = NotPushed PROVE Flow!FlowNext
  BY <1>e DEF EndJob, Idle, Flow!FlowNext, Flow!End
<1>i. ASSUME NEW a \in Requests, NEW s, NEW k, InsertJob(a, s, k), hpc[a] \in {"idle", "insert"},
             UNCHANGED <<redisVars, workerVars>>
      PROVE  UNCHANGED <<NotPushed, queue, wjob>>
  <2>1. PICK i \in Jobs : /\ status[i] = "none"
                          /\ status' = [status EXCEPT ![i] = "queued"]
                          /\ hpc' = [hpc EXCEPT ![a] = "enqueue"]
                          /\ hjob' = [hjob EXCEPT ![a] = i]
    BY <1>i DEF InsertJob
  <2>2. \A j \in Jobs : j # i => (j \in NotPushed' <=> j \in NotPushed)
    BY <1>i, <2>1 DEF NotPushed
  <2>3. i \in NotPushed /\ i \in NotPushed'
    BY <1>i, <2>1 DEF NotPushed
  <2>4. NotPushed' \subseteq Jobs /\ NotPushed \subseteq Jobs
    BY DEF NotPushed
  <2>5. \A j \in Jobs : j \in NotPushed' <=> j \in NotPushed
    BY <2>2, <2>3, Zenon
  <2>6. NotPushed' = NotPushed
    BY <2>4, <2>5, Zenon
  <2>7. QED
    BY <1>i, <2>6
\* The step of a handler that is not about to push, and will not be.
<1>h. ASSUME NEW a \in Requests, hpc[a] # "enqueue", UNCHANGED <<queue, wjob>>,
             NEW pc, pc # "enqueue", hpc' = [hpc EXCEPT ![a] = pc],
             \A b \in Requests : b # a => hjob'[b] = hjob[b],
             \A j \in Jobs : status'[j] = "none" <=> status[j] = "none"
      PROVE  UNCHANGED <<NotPushed, queue, wjob>>
  <2>1. \A b \in Requests : /\ hpc[b] = "enqueue" <=> hpc'[b] = "enqueue"
                            /\ hpc[b] = "enqueue" => hjob'[b] = hjob[b]
    BY <1>h
  <2>2. ASSUME NEW j \in Jobs PROVE j \in NotPushed' <=> j \in NotPushed
    <3>1. (\E b \in Requests : hpc'[b] = "enqueue" /\ hjob'[b] = j)
          <=> (\E b \in Requests : hpc[b] = "enqueue" /\ hjob[b] = j)
      BY <2>1, Zenon
    <3>2. status'[j] = "none" <=> status[j] = "none"
      BY <1>h
    <3>3. QED
      BY <3>1, <3>2, Zenon DEF NotPushed
  <2>3. NotPushed' \subseteq Jobs /\ NotPushed \subseteq Jobs
    BY DEF NotPushed
  <2>4. NotPushed' = NotPushed
    BY <2>2, <2>3, Zenon
  <2>5. QED
    BY <1>h, <2>4
<1>1. CASE Work
  <2>1. CASE Take
    BY <2>1, <1>s DEF Take, Flow!FlowNext, Flow!Execute
  <2>2. CASE Start \/ EnsureFreeDisk \/ CommitJob \/ Report \/ Abort \/ KillHorse
    <3>1. NotPushed' = NotPushed
      BY <2>2, <1>s, <1>v DEF Start, EnsureFreeDisk, CommitJob, Report, Abort, KillHorse
    <3>2. QED
      BY <2>2, <3>1, <1>e DEF Start, EnsureFreeDisk, CommitJob, Report, Abort, KillHorse, Goto
  <2>3. CASE LoadSite \/ Build \/ Publish \/ CommitSite
    BY <2>3, <1>s DEF LoadSite, Build, Publish, CommitSite, Goto
  <2>4. CASE Alarm
    <3>1. NotPushed' = NotPushed
      BY <2>4, <1>s DEF Alarm
    <3>2. QED
      BY <2>4, <3>1, <1>e DEF Alarm, AlarmIsCaught, AlarmIsSwallowed, AlarmEscapes
  <2>5. QED
    BY <1>1, <2>1, <2>2, <2>3, <2>4 DEF Work
<1>2. ASSUME NEW a \in Requests, Serve(a)
      PROVE  Flow!FlowNext \/ UNCHANGED <<NotPushed, queue, wjob>>
  <2>1. ASSUME NEW s \in Sites, Deploy(a, s) PROVE UNCHANGED <<NotPushed, queue, wjob>>
    BY <2>1, <1>i DEF Deploy
  <2>2. ASSUME NEW s \in Sites, DeleteSite(a, s) PROVE UNCHANGED <<NotPushed, queue, wjob>>
    BY <2>2, <1>s DEF DeleteSite, RowInv
  <2>3. CASE Enqueue(a)
    <3>1. hjob[a] \in Jobs /\ status[hjob[a]] # "none" /\ hpc[a] = "enqueue"
      BY <2>3 DEF Enqueue, HandlerInv
    <3>2. PICK pc \in {"record", "refused"} : hpc' = [hpc EXCEPT ![a] = pc]
      BY <2>3 DEF Enqueue
    <3>3. UNCHANGED <<hjob, status, wjob>>
      BY <2>3 DEF Enqueue
    <3>4. hjob[a] \in NotPushed /\ NotPushed' = NotPushed \ {hjob[a]}
      BY <3>1, <3>2, <3>3 DEF NotPushed, HandlerInv
    <3>5. CASE queue' = Append(queue, hjob[a])
      BY <3>1, <3>3, <3>4, <3>5 DEF Flow!FlowNext, Flow!Push
    <3>6. CASE UNCHANGED queue
      <4>1. Flow!Forget({hjob[a]})
        BY <3>3, <3>4, <3>6 DEF Flow!Forget
      <4>2. {hjob[a]} \in SUBSET Jobs
        BY <3>1
      <4>3. QED
        BY <4>1, <4>2, Zenon DEF Flow!FlowNext
    <3>7. QED
      BY <2>3, <3>5, <3>6 DEF Enqueue
  <2>4. CASE RecordId(a)
    BY <2>4, <1>h DEF RecordId, Finish
  <2>5. CASE GiveUp(a)
    <3>1. \A j \in Jobs : status'[j] = "none" <=> status[j] = "none"
      BY <2>5 DEF GiveUp, HandlerInv
    <3>2. QED
      BY <2>5, <3>1, <1>h DEF GiveUp, Finish
  <2>6. CASE RequestError(a)
    <3>1. CASE hpc[a] = "enqueue"
      <4>1. hjob[a] \in Jobs /\ status[hjob[a]] # "none"
        BY <2>6, <3>1 DEF RequestError, HandlerInv
      <4>2. /\ UNCHANGED <<status, queue, wjob>>
            /\ hpc' = [hpc EXCEPT ![a] = "idle"] /\ hjob' = [hjob EXCEPT ![a] = NoJob]
        BY <2>6 DEF RequestError, Finish
      <4>3. NotPushed' = NotPushed \ {hjob[a]}
        BY <3>1, <4>1, <4>2 DEF NotPushed, HandlerInv
      <4>4. Flow!Forget({hjob[a]}) /\ {hjob[a]} \in SUBSET Jobs
        BY <4>1, <4>2, <4>3 DEF Flow!Forget
      <4>5. QED
        BY <4>4, Zenon DEF Flow!FlowNext
    <3>2. CASE hpc[a] # "enqueue"
      BY <2>6, <3>2, <1>h DEF RequestError, Finish
    <3>3. QED
      BY <3>1, <3>2
  <2>7. QED
    BY <1>2, <2>1, <2>2, <2>3, <2>4, <2>5, <2>6 DEF Serve
<1>3. CASE ServePanel
  <2>1. Panel \in Requests
    BY DEF Requests
  <2>2. ASSUME NEW s \in Sites, CheckUpdate(s) PROVE UNCHANGED <<NotPushed, queue, wjob>>
    BY <2>1, <2>2, <1>h DEF CheckUpdate
  <2>3. CASE InsertUpdate
    <3>1. CASE InsertJob(Panel, hsite[Panel], "update")
      BY <2>1, <2>3, <3>1, <1>i DEF InsertUpdate
    <3>2. CASE Finish(Panel) /\ UNCHANGED rowVars
      BY <2>1, <2>3, <3>2, <1>h DEF InsertUpdate, Finish
    <3>3. QED
      BY <2>3, <3>1, <3>2 DEF InsertUpdate
  <2>4. CASE CheckSelfUpdate
    BY <2>1, <2>4, <1>h DEF CheckSelfUpdate
  <2>5. CASE LaunchRecreate
    BY <2>1, <2>5, <1>h DEF LaunchRecreate, Finish
  <2>6. QED
    BY <1>3, <2>2, <2>3, <2>4, <2>5 DEF ServePanel
<1>4. CASE Environment
  <2>1. CASE DatabaseError
    BY <2>1, <1>s, <1>e DEF DatabaseError, Goto
  <2>2. CASE Crash \/ RecreateWorker
    <3>1. NotPushed' = NotPushed
      BY <2>2, <1>s DEF Crash, RecreateWorker
    <3>2. QED
      BY <2>2, <3>1 DEF Crash, RecreateWorker, Idle, Flow!FlowNext, Flow!End
  <2>3. CASE RecreatePanel
    <3>1. NotPushed' \subseteq NotPushed /\ NotPushed \subseteq Jobs
      BY <2>3 DEF RecreatePanel, NotPushed
    <3>2. NotPushed' = NotPushed \ (NotPushed \ NotPushed')
      BY <3>1
    <3>3. Flow!Forget(NotPushed \ NotPushed')
      BY <2>3, <3>2, Zenon DEF RecreatePanel, Flow!Forget, redisVars, workerVars
    <3>4. NotPushed \ NotPushed' \in SUBSET Jobs
      BY <3>1
    <3>5. QED
      BY <3>3, <3>4, Zenon DEF Flow!FlowNext
  <2>4. CASE RedisFlushed
    BY <2>4, <1>s DEF RedisFlushed, Flow!FlowNext, Flow!LoseQueue
  <2>5. CASE RedisFails \/ RedisReturns
    BY <2>5, <1>s DEF RedisFails, RedisReturns
  <2>6. QED
    BY <1>4, <2>1, <2>2, <2>3, <2>4, <2>5 DEF Environment
<1>5. ASSUME NEW j \in Jobs, CleanRegistry(j) PROVE UNCHANGED <<NotPushed, queue, wjob>>
  BY <1>5, <1>s DEF CleanRegistry
<1>6. CASE Tick \/ UNCHANGED vars
  BY <1>6, <1>s DEF Tick, vars
<1>7. QED
  BY <1>1, <1>2, <1>3, <1>4, <1>5, <1>6 DEF Next

\* In every environment each job is pushed at most once and executed at most once, one at a
\* time and in the order of the pushes: no crash, lost reply, outage, loss of data or self-
\* update makes the queue run a job again.
THEOREM FlowRefinement == Spec => ImplementsFlow
<1>1. Init => Flow!FlowInit
  BY DEF Init, NotPushed, Flow!FlowInit
<1>2. Inv /\ [Next]_vars => [Flow!FlowNext]_(Flow!flowVars)
  BY FlowStep
<1>3. QED
  BY <1>1, <1>2, Invariant, PTL DEF Spec, ImplementsFlow, Flow!FlowSpec

\* What JobFlow promises is true of JobFlow, and so of the queue: in every environment a job
\* that was pushed is never pushed again, and one that was taken is never taken again.
THEOREM JobsNeverGoBack == Spec => Flow!NeverBack
<1> DEFINE Forward == \A j \in Jobs : Flow!Stage(j) <= Flow!Stage(j)'
<1> USE DeployQueueAssumption
<1>1. Flow!FlowInit => Flow!OnePlace
  BY DEF Flow!FlowInit, Flow!OnePlace
<1>2. Flow!OnePlace /\ [Flow!FlowNext]_(Flow!flowVars) => Flow!OnePlace' /\ [Forward]_(Flow!flowVars)
  <2> SUFFICES ASSUME Flow!OnePlace, [Flow!FlowNext]_(Flow!flowVars) PROVE Flow!OnePlace' /\ Forward
    OBVIOUS
  <2> USE DEF Flow!OnePlace, Flow!Stage, Flow!Waiting
  <2>1. ASSUME NEW j \in Jobs, Flow!Push(j) PROVE Flow!OnePlace' /\ Forward
    BY <2>1 DEF Flow!Push
  <2>2. ASSUME NEW S \in SUBSET Jobs, Flow!Forget(S) PROVE Flow!OnePlace' /\ Forward
    BY <2>2 DEF Flow!Forget
  <2>3. CASE Flow!Execute
    <3>1. /\ queue # <<>> /\ queue \in Seq(Jobs) /\ wjob = NoJob
          /\ wjob' = Head(queue) /\ queue' = Tail(queue) /\ NotPushed' = NotPushed
      BY <2>3 DEF Flow!Execute
    <3>2. /\ Len(queue') = Len(queue) - 1 /\ Head(queue) = queue[1] /\ 1 \in 1..Len(queue)
          /\ \A i \in 1..Len(queue') : i + 1 \in 1..Len(queue) /\ queue'[i] = queue[i + 1]
      BY <3>1
    <3>3. \A i \in 1..Len(queue') : queue'[i] # Head(queue)
      BY <3>2
    <3>4. Flow!OnePlace'
      BY <3>1, <3>2, <3>3
    <3>5. ASSUME NEW j \in Jobs PROVE Flow!Stage(j) <= Flow!Stage(j)'
      <4>1. CASE j \in NotPushed
        BY <3>1, <4>1
      <4>2. CASE j = Head(queue)
        BY <3>1, <3>2, <3>3, <4>2
      <4>3. CASE j \notin NotPushed /\ j # Head(queue) /\ Flow!Waiting(j)
        <5>1. PICK i \in 1..Len(queue) : queue[i] = j
          BY <4>3
        <5>2. i - 1 \in 1..Len(queue') /\ queue'[i - 1] = j
          BY <3>1, <3>2, <4>3, <5>1
        <5>3. QED
          BY <3>1, <4>3, <5>2
      <4>4. CASE j \notin NotPushed /\ j # Head(queue) /\ ~Flow!Waiting(j)
        <5>1. ~Flow!Waiting(j)'
          BY <3>2, <4>4
        <5>2. QED
          BY <3>1, <4>4, <5>1
      <4>5. QED
        BY <4>1, <4>2, <4>3, <4>4
    <3>6. QED
      BY <3>4, <3>5
  <2>4. CASE Flow!End
    BY <2>4 DEF Flow!End
  <2>5. CASE Flow!LoseQueue
    BY <2>5 DEF Flow!LoseQueue
  <2>6. CASE UNCHANGED Flow!flowVars
    BY <2>6 DEF Flow!flowVars
  <2>7. QED
    BY <2>1, <2>2, <2>3, <2>4, <2>5, <2>6 DEF Flow!FlowNext
<1>3. Flow!FlowSpec => Flow!NeverBack
  BY <1>1, <1>2, PTL DEF Flow!FlowSpec, Flow!NeverBack
<1>4. QED
  BY <1>3, FlowRefinement, PTL DEF ImplementsFlow

-----------------------------------------------------------------------------
\* Neither Redis nor the panel goes away, and requests can write to the database.
Steady == DataSurvives /\ Events \cap {"redis", "selfupdate", "paneldb"} = {}

\* What is then always so.
SteadyInv == redis = "up" /\ recreate = {} /\ \A a \in Requests : hpc[a] # "pull"

\* No step takes Redis or the panel away.
LEMMA SteadyStep == Steady /\ TypeOK /\ SteadyInv /\ [Next]_vars => SteadyInv'
<1> SUFFICES ASSUME Steady, TypeOK, SteadyInv, [Next]_vars PROVE SteadyInv'
  OBVIOUS
<1> USE DEF Steady, DataSurvives, SteadyInv, TypeOK, HandlerTypes, redisVars, reqVars
<1>1. CASE Work
  BY <1>1 DEF Work, Take, Start, EnsureFreeDisk, LoadSite, Build, Publish, CommitSite, CommitJob,
     Report, Abort, Alarm, AlarmIsCaught, AlarmIsSwallowed, AlarmEscapes, KillHorse, EndJob
<1>2. ASSUME NEW a \in Requests, Serve(a) PROVE SteadyInv'
  BY <1>2 DEF Serve, Deploy, DeleteSite, InsertJob, Enqueue, RecordId, GiveUp, RequestError, Finish
<1>3. CASE ServePanel
  BY <1>3 DEF ServePanel, CheckUpdate, InsertUpdate, InsertJob, CheckSelfUpdate, LaunchRecreate,
     Finish, Requests
<1>4. CASE Environment
  BY <1>4 DEF Environment, DatabaseError, EndJob, Goto, Crash, RecreateWorker, RecreatePanel, RedisFails,
     RedisReturns, RedisFlushed
<1>5. ASSUME NEW j \in Jobs, CleanRegistry(j) PROVE SteadyInv'
  BY <1>5 DEF CleanRegistry
<1>6. CASE Tick
  BY <1>6 DEF Tick
<1>7. CASE UNCHANGED vars
  BY <1>7 DEF vars
<1>8. QED
  BY <1>1, <1>2, <1>3, <1>4, <1>5, <1>6, <1>7 DEF Next

\* A queued row changes hands (handler, queue, worker) without being dropped, unless its
\* worker fails before it says running.
LEMMA OwnedStep == Steady /\ Inv /\ SteadyInv /\ QueuedRowsAreOwned /\ [Next]_vars => QueuedRowsAreOwned'
<1> DEFINE Held(j) == \/ InQueue(j) \/ wjob = j
                      \/ \E a \in Requests : hjob[a] = j /\ hpc[a] = "enqueue"
                      \/ LostAtStart(j)
<1> SUFFICES ASSUME Steady, Inv, SteadyInv, QueuedRowsAreOwned, [Next]_vars
             PROVE  QueuedRowsAreOwned'
  OBVIOUS
<1> SUFFICES ASSUME NEW j \in Jobs, status'[j] = "queued"
             PROVE  Held(j)'
  <2>1. Inv'
    BY InvStep
  <2>2. ASSUME NEW j \in Jobs, status'[j] = "queued", Held(j)'
        PROVE  (Owned(j) \/ LostAtStart(j))'
    <3>1. CASE wjob' = j
      <4>1. wpc' # "idle"
        BY <2>1, <3>1, DeployQueueAssumption DEF Inv, TypeOK, WorkerTypes
      <4>2. wpc' = "start"
        BY <2>1, <2>2, <3>1, <4>1 DEF Inv, WorkerInv, GivenUp
      <4>3. QED
        BY <3>1, <4>2 DEF Owned
    <3>2. CASE wjob' # j
      BY <2>2, <3>2 DEF Owned
    <3>3. QED
      BY <3>1, <3>2
  <2>3. QED
    BY <2>2 DEF QueuedRowsAreOwned
<1> USE DeployQueueAssumption
    DEF Inv, TypeOK, RowTypes, RedisTypes, WorkerTypes, HandlerTypes, SteadyInv, Steady, LostAtStart,
        NotBegun, GivenUp, DataSurvives, rowVars, redisVars, workerVars, reqVars
<1>0. status[j] = "queued" => Held(j)
  BY DEF QueuedRowsAreOwned, Owned
<1>1. CASE UNCHANGED <<status, queue, rq, wjob, hpc, hjob>>
  BY <1>0, <1>1 DEF InQueue
<1>2. ASSUME NEW o \in {"finished", "failed"}, EndJob(o), UNCHANGED reqVars, wpc # "idle",
             status[j] = "queued", j = wjob => o = "failed" /\ WorkerMayFail
      PROVE  Held(j)'
  <2>1. wjob' # j /\ UNCHANGED queue
    BY <1>2 DEF EndJob, Idle
  <2>2. CASE j = wjob
    BY <1>2, <2>1, <2>2 DEF EndJob, WorkerInv
  <2>3. CASE j # wjob
    BY <1>0, <1>2, <2>1, <2>3 DEF EndJob, InQueue
  <2>4. QED
    BY <2>2, <2>3
\* Past its first step the worker's row is not queued.
<1>q. wpc \notin {"idle", "start"} => wjob \in Jobs /\ status[wjob] # "queued"
  BY DEF WorkerInv
<1>3. CASE Work
  <2>1. CASE Take
    <3>1. /\ UNCHANGED <<status, hpc, hjob>> /\ queue # <<>> /\ queue' = Tail(queue)
          /\ wjob = NoJob /\ wjob' = queue[1] /\ rq' = [rq EXCEPT ![queue[1]] = "started"]
      BY <2>1 DEF Take
    <3>2. InQueue(j) => j = wjob' \/ InQueue(j)'
      BY <3>1, TailKeeps
    <3>3. j # wjob' => rq'[j] = rq[j]
      BY <3>1
    <3>4. QED
      BY <1>0, <3>1, <3>2, <3>3
  <2>2. CASE Start
    <3>1. CASE RowGone
      BY <2>2, <3>1, <1>2 DEF Start, RowGone
    <3>2. CASE ~RowGone
      BY <1>0, <2>2, <3>2 DEF Start, Verdict, Goto, InQueue
    <3>3. QED
      BY <3>1, <3>2
  <2>3. CASE EnsureFreeDisk
    BY <1>0, <1>1, <1>2, <1>q, <2>3 DEF EnsureFreeDisk, RowGone, Verdict, Goto
  <2>4. CASE CommitJob
    BY <1>0, <1>1, <1>q, <2>4 DEF CommitJob, Verdict, Goto, InQueue
  <2>5. CASE Abort
    BY <1>0, <1>1, <1>2, <1>q, <2>5 DEF Abort, RowGone, Verdict
  <2>6. CASE KillHorse
    <3>1. wpc # "start"
      BY <2>6 DEF KillHorse, WorkerInv
    <3>2. QED
      BY <1>2, <1>q, <2>6, <3>1 DEF KillHorse
  <2>7. CASE LoadSite \/ Build \/ Publish \/ CommitSite
    BY <1>1, <2>7 DEF LoadSite, Build, Publish, CommitSite, Goto
  <2>9. CASE Report
    BY <1>1, <1>2, <1>q, <2>9 DEF Report, Goto
  <2>10. CASE Alarm
    BY <1>1, <1>2, <1>q, <2>10 DEF Alarm, AlarmIsCaught, AlarmIsSwallowed, AlarmEscapes
  <2>8. QED
    BY <1>3, <2>1, <2>2, <2>3, <2>4, <2>5, <2>6, <2>7, <2>9, <2>10 DEF Work
<1>4. ASSUME NEW a \in Requests, NEW s, NEW k, InsertJob(a, s, k), hpc[a] \in {"idle", "insert"},
             UNCHANGED <<redisVars, workerVars>>
      PROVE  Held(j)'
  <2>1. PICK i \in Jobs : /\ status' = [status EXCEPT ![i] = "queued"]
                          /\ hpc' = [hpc EXCEPT ![a] = "enqueue"]
                          /\ hjob' = [hjob EXCEPT ![a] = i]
    BY <1>4 DEF InsertJob
  <2>2. CASE j = i
    BY <2>1, <2>2 DEF Owned
  <2>3. CASE j # i
    BY <1>0, <1>4, <2>1, <2>3 DEF InQueue
  <2>4. QED
    BY <2>2, <2>3
<1>5. ASSUME NEW a \in Requests, Serve(a) PROVE Held(j)'
  <2>1. ASSUME NEW s \in Sites, Deploy(a, s) PROVE Held(j)'
    BY <1>4, <2>1 DEF Deploy
  <2>2. ASSUME NEW s \in Sites, DeleteSite(a, s) PROVE Held(j)'
    BY <1>0, <2>2 DEF DeleteSite, InQueue
  <2>3. CASE Enqueue(a)
    <3>1. CASE CanPush(hjob[a])
      <4>1. queue' = Append(queue, hjob[a]) /\ hjob[a] \in Jobs /\ hpc[a] = "enqueue"
        BY <2>3, <3>1 DEF Enqueue
      <4>2. \A i \in Jobs : InQueue(i)' <=> InQueue(i) \/ i = hjob[a]
        BY <4>1, AppendAdds
      <4>3. /\ \A i \in Jobs : i # hjob[a] => rq'[i] = rq[i]
            /\ UNCHANGED <<status, wjob, hjob>>
            /\ \A b \in Requests : b # a => hpc'[b] = hpc[b]
        BY <2>3, <3>1 DEF Enqueue
      <4>4. QED
        BY <1>0, <4>2, <4>3
    <3>2. CASE ~CanPush(hjob[a])
      <4>1. status[hjob[a]] = "deleted"
        BY <3>2 DEF CanPush
      <4>2. /\ UNCHANGED <<status, queue, rq, wjob, hjob>>
            /\ \A b \in Requests : b # a => hpc'[b] = hpc[b]
        BY <2>3, <3>2 DEF Enqueue
      <4>3. QED
        BY <1>0, <4>1, <4>2 DEF InQueue
    <3>3. QED
      BY <3>1, <3>2
  <2>4. CASE RecordId(a)
    BY <1>0, <2>4 DEF RecordId, Finish, InQueue
  <2>5. CASE GiveUp(a)
    BY <1>0, <2>5 DEF GiveUp, Finish, InQueue
  <2>6. CASE RequestError(a)
    BY <2>6 DEF RequestError
  <2>7. QED
    BY <1>5, <2>1, <2>2, <2>3, <2>4, <2>5, <2>6 DEF Serve
<1>6. CASE ServePanel
  <2>1. ASSUME NEW s \in Sites, CheckUpdate(s) PROVE Held(j)'
    BY <1>0, <2>1 DEF CheckUpdate, InQueue, Requests
  <2>2. CASE InsertUpdate
    <3>1. CASE InsertJob(Panel, hsite[Panel], "update")
      BY <1>4, <2>2, <3>1 DEF InsertUpdate, Requests
    <3>2. CASE Finish(Panel) /\ UNCHANGED rowVars
      BY <1>0, <2>2, <3>2 DEF InsertUpdate, Finish, InQueue, Requests
    <3>3. QED
      BY <2>2, <3>1, <3>2 DEF InsertUpdate
  <2>3. QED
    BY <1>6, <2>1, <2>2 DEF ServePanel, CheckSelfUpdate, LaunchRecreate, Requests
<1>7. CASE Environment
  <2>1. CASE DatabaseError
    BY <1>1, <1>2, <2>1 DEF DatabaseError, Goto, WorkerMayFail
  <2>2. CASE Crash
    <3>1. WorkerMayFail
      BY <2>2 DEF Crash, WorkerMayFail
    <3>2. wjob = j => rq[j] = "started"
      BY <2>2 DEF Crash, WorkerInv
    <3>3. QED
      BY <1>0, <2>2, <3>1, <3>2 DEF Crash, Idle, InQueue
  <2>3. QED
    BY <1>7, <2>1, <2>2 DEF Environment, RecreateWorker, RecreatePanel, RedisFails, RedisReturns,
       RedisFlushed
<1>8. ASSUME NEW i \in Jobs, CleanRegistry(i) PROVE Held(j)'
  BY <1>0, <1>8 DEF CleanRegistry, InQueue
<1>9. CASE Tick
  BY <1>1, <1>9 DEF Tick
<1>10. CASE UNCHANGED vars
  BY <1>1, <1>10 DEF vars
<1>11. QED
  BY <1>3, <1>5, <1>6, <1>7, <1>8, <1>9, <1>10 DEF Next

\* As long as Redis and the panel stay and requests can write to the database, a queued row
\* has somebody who will act on it, whatever replies get lost and sites deleted; and where
\* the worker may die or lose the database, the only rows that do not are those it had been
\* handed when that happened before it said running.
THEOREM OwnedCorrect == Steady => (Spec => []QueuedRowsAreOwned)
<1> SUFFICES ASSUME Steady PROVE Spec => []QueuedRowsAreOwned
  OBVIOUS
<1>1. Spec => []Inv
  BY Invariant
<1>2. Init => SteadyInv /\ QueuedRowsAreOwned
  BY DEF Init, SteadyInv, QueuedRowsAreOwned
<1>3. Inv /\ SteadyInv /\ [Next]_vars => SteadyInv'
  BY SteadyStep DEF Inv
<1>4. Inv /\ SteadyInv /\ QueuedRowsAreOwned /\ [Next]_vars => QueuedRowsAreOwned'
  BY OwnedStep
<1>5. QED
  BY <1>1, <1>2, <1>3, <1>4, PTL DEF Spec
==============================================================================
