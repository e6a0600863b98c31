---------------------------- MODULE PlainSite_proofs ----------------------------
(***************************************************************************)
(* Theorems about PlainSite for any number of containers and threads and   *)
(* every choice of events.                                                 *)
(***************************************************************************)
EXTENDS PlainSite, TLAPS

\* What a handler loads from the row is a row.
LEMMA LoadedType ==
  ASSUME TypeOK, NEW pc \in Deploys \cup {"cert", "clone", "stop", "delete"}
  PROVE  Loaded(pc) \in Columns
BY PlainSiteAssumption DEF TypeOK, Loaded, Deploys, Columns, Current, Blank, Ids, SiteStatuses, SiteTypes

\* What may happen in a behaviour is settled at its start.
LEMMA EventsKept == Next => UNCHANGED events
<1> SUFFICES ASSUME Next PROVE UNCHANGED events
  OBVIOUS
<1>1. ASSUME NEW a \in Requests, DeployStep(a) PROVE UNCHANGED events
  BY <1>1 DEF DeployStep, BeginDeploy, Enqueue, BeginPull, Begin, Pull, RemoveExisting, Run,
     CommitDeploy, WriteVhost, AddDns, Fail
<1>2. ASSUME NEW a \in Requests, ChangeStep(a) PROVE UNCHANGED events
  BY <1>2 DEF ChangeStep, Patch, BeginCert, Begin, CommitCert, WriteHttps, BeginImport, Import
<1>3. ASSUME NEW a \in Requests, StopStep(a) \/ DeleteStep(a) PROVE UNCHANGED events
  BY <1>3 DEF StopStep, BeginStop, Begin, Stop, StopContainers, CommitStop, DeleteStep, BeginDelete,
     DeleteContainers, RemoveVhost, DeleteRow
<1>4. QED
  BY <1>1, <1>2, <1>3 DEF Next, ComposeJob, Restart

\* Every step keeps every variable in its type.
LEMMA TypeStep == TypeOK /\ [Next]_vars => TypeOK'
<1> SUFFICES ASSUME TypeOK, [Next]_vars PROVE TypeOK'
  OBVIOUS
<1> USE PlainSiteAssumption DEF TypeOK, HandlerSteps, Columns, SiteStatuses, SiteTypes, Ids, Current,
        Blank, Requests, rowVars, worldVars, dockVars, reqVars, Distrust, Step, Finish, End, Idle
<1>0. ASSUME UNCHANGED events,
             NEW a \in Requests, NEW pc \in Deploys \cup {"cert", "clone", "stop", "delete"},
             NEW tls \in {"never", "no", "yes"}, Begin(a, pc, tls)
      PROVE  TypeOK'
  <2>1. Loaded(pc) \in Columns
    BY LoadedType
  <2>2. QED
    BY <1>0, <2>1 DEF Begin, Deploys
<1>s. ASSUME UNCHANGED events, NEW a \in Requests, NEW next \in {"commitStop", "unvhost"},
              StopContainers(a, next)
      PROVE  TypeOK'
  <2>1. CASE Step(a, next)
    <3>1. live' \in used' \cup {NoContainer} /\ project' \in BOOLEAN /\ trust' \in {"row", "deploy", "none"}
      BY <1>s DEF StopContainers
    <3>2. hpc' \in [Requests -> HandlerSteps] /\ UNCHANGED <<hseen, hcid, htls, early>>
      BY <1>s, <2>1
    <3>3. UNCHANGED <<rowVars, certs, used, vhost, queued>>
      BY <1>s DEF StopContainers
    <3>4. QED
      BY <1>s, <3>1, <3>2, <3>3
  <2>2. CASE Finish(a) /\ ~Step(a, next)
    BY <1>s, <2>2 DEF StopContainers
  <2>3. QED
    BY <1>s, <2>1, <2>2 DEF StopContainers
<1>1. ASSUME UNCHANGED events, NEW a \in Requests, DeployStep(a) PROVE TypeOK'
  <2>1. CASE BeginDeploy(a)
    BY <1>0, <1>1, <2>1 DEF BeginDeploy, Deploys
  <2>2. CASE Enqueue(a)
    BY <1>1, <2>2 DEF Enqueue
  <2>3. CASE BeginPull(a)
    BY <1>0, <1>1, <2>3 DEF BeginPull, Deploys
  <2>4. CASE Pull(a)
    BY <1>1, <2>4 DEF Pull
  <2>5. CASE RemoveExisting(a)
    BY <1>1, <2>5 DEF RemoveExisting
  <2>6. CASE Run(a)
    BY <1>1, <2>6 DEF Run, Create
  <2>7. CASE CommitDeploy(a)
    BY <1>1, <2>7 DEF CommitDeploy, SaveSite, Flushed
  <2>8. CASE WriteVhost(a)
    BY <1>1, <2>8 DEF WriteVhost
  <2>9. CASE AddDns(a)
    BY <1>1, <2>9 DEF AddDns
  <2>10. CASE Fail(a)
    BY <1>1, <2>10 DEF Fail, SaveSite, Flushed
  <2>11. QED
    BY <1>1, <2>1, <2>2, <2>3, <2>4, <2>5, <2>6, <2>7, <2>8, <2>9, <2>10 DEF DeployStep
<1>2. ASSUME UNCHANGED events, NEW a \in Requests, ChangeStep(a) PROVE TypeOK'
  <2>1. CASE Patch(a)
    BY <1>2, <2>1 DEF Patch
  <2>2. CASE BeginCert(a)
    BY <1>0, <1>2, <2>2 DEF BeginCert
  <2>3. CASE CommitCert(a)
    <3>1. CASE Finish(a) /\ UNCHANGED certs
      BY <1>2, <2>3, <3>1 DEF CommitCert
    <3>2. CASE ~(Finish(a) /\ UNCHANGED certs)
      <4>1. certs' \in BOOLEAN /\ early' \subseteq Requests
        BY <2>3, <3>2 DEF CommitCert
      <4>2. hpc' \in [Requests -> HandlerSteps] /\ hseen' \in [Requests -> Columns]
        BY <2>3, <3>2 DEF CommitCert
      <4>3. UNCHANGED <<rowVars, dockVars, vhost, queued, trust, hcid, htls>>
        BY <2>3, <3>2 DEF CommitCert
      <4>4. QED
        BY <1>2, <4>1, <4>2, <4>3
    <3>3. QED
      BY <3>1, <3>2
  <2>4. CASE WriteHttps(a)
    BY <1>2, <2>4 DEF WriteHttps
  <2>5. CASE BeginImport(a)
    BY <1>0, <1>2, <2>5 DEF BeginImport
  <2>6. CASE Import(a)
    BY <1>2, <2>6 DEF Import, SaveSite, Flushed
  <2>7. QED
    BY <1>2, <2>1, <2>2, <2>3, <2>4, <2>5, <2>6 DEF ChangeStep
<1>3. ASSUME UNCHANGED events, NEW a \in Requests, StopStep(a) PROVE TypeOK'
  <2>1. CASE BeginStop(a)
    BY <1>0, <1>3, <2>1 DEF BeginStop
  <2>2. CASE Stop(a)
    BY <1>3, <1>s, <2>2 DEF Stop
  <2>3. CASE CommitStop(a)
    BY <1>3, <2>3 DEF CommitStop, SaveSite, Flushed
  <2>4. QED
    BY <1>3, <2>1, <2>2, <2>3 DEF StopStep
<1>4. ASSUME UNCHANGED events, NEW a \in Requests, DeleteStep(a) PROVE TypeOK'
  <2>1. CASE BeginDelete(a)
    BY <1>0, <1>4, <2>1 DEF BeginDelete
  <2>2. CASE DeleteContainers(a)
    BY <1>4, <1>s, <2>2 DEF DeleteContainers
  <2>3. CASE RemoveVhost(a)
    BY <1>4, <2>3 DEF RemoveVhost
  <2>4. CASE DeleteRow(a)
    BY <1>4, <2>4 DEF DeleteRow
  <2>5. QED
    BY <1>4, <2>1, <2>2, <2>3, <2>4 DEF DeleteStep
<1>5. ASSUME UNCHANGED events, ComposeJob PROVE TypeOK'
  BY <1>5 DEF ComposeJob
<1>6. ASSUME UNCHANGED events, Restart PROVE TypeOK'
  BY <1>6 DEF Restart
<1>7. CASE UNCHANGED vars
  BY <1>7 DEF vars
<1>8. QED
  BY EventsKept, <1>1, <1>2, <1>3, <1>4, <1>5, <1>6, <1>7 DEF Next

\* The site starts well formed.
LEMMA TypeInit == Init => TypeOK
<1> SUFFICES ASSUME Init PROVE TypeOK
  OBVIOUS
<1>1. Blank \in Columns /\ Current \in Columns /\ NoContainer \in Ids
  BY DEF Init, Columns, SiteStatuses, SiteTypes, Ids, Current, Blank
<1>2. QED
  BY <1>1 DEF Init, TypeOK, HandlerSteps

\* Type correctness: every reachable state of the site is well formed.
THEOREM TypeCorrect == Spec => []TypeOK
BY TypeInit, TypeStep, PTL DEF Spec

-----------------------------------------------------------------------------
\* Beginning a request is the only step by which a handler stops being idle, and it ends
\* the trust in whoever was already at work.
LEMMA AloneKept == TypeOK /\ AloneInv /\ [Next]_vars => AloneInv'
<1> SUFFICES ASSUME TypeOK, AloneInv, [Next]_vars PROVE AloneInv'
  OBVIOUS
<1> USE DEF TypeOK, AloneInv, Idle
<1> HIDE DEF Requests
<1>1. ASSUME NEW a \in Requests, NEW pc, NEW tls, Begin(a, pc, tls) PROVE AloneInv'
  BY <1>1 DEF Begin, Alone
<1>2. ASSUME NEW a \in Requests, ~Idle(a), trust # "none" \/ trust' = "none",
             \A b \in Requests : b # a => hpc'[b] = hpc[b]
      PROVE  AloneInv'
  BY <1>2
<1>3. ASSUME UNCHANGED reqVars, trust # "none" \/ trust' = "none" PROVE AloneInv'
  BY <1>3 DEF reqVars
<1>4. ASSUME NEW a \in Requests, DeployStep(a) PROVE AloneInv'
  <2>1. CASE BeginDeploy(a) \/ BeginPull(a)
    BY <2>1, <1>1 DEF BeginDeploy, BeginPull
  <2>2. CASE Enqueue(a)
    BY <2>2, <1>3 DEF Enqueue
  <2>3. CASE Pull(a) \/ RemoveExisting(a) \/ Run(a) \/ CommitDeploy(a)
    BY <1>2, <2>3 DEF Pull, RemoveExisting, Run, CommitDeploy, Step, Finish, End, Distrust
  <2>4. CASE WriteVhost(a) \/ AddDns(a) \/ Fail(a)
    BY <1>2, <2>4 DEF WriteVhost, AddDns, Fail, Step, Finish, End, Distrust
  <2>5. QED
    BY <1>4, <2>1, <2>2, <2>3, <2>4 DEF DeployStep
<1>5. ASSUME NEW a \in Requests, ChangeStep(a) PROVE AloneInv'
  <2>1. CASE Patch(a)
    BY <2>1, <1>3 DEF Patch, Distrust
  <2>2. CASE BeginCert(a) \/ BeginImport(a)
    BY <2>2, <1>1 DEF BeginCert, BeginImport
  <2>3. CASE CommitCert(a) \/ WriteHttps(a)
    BY <1>2, <2>3 DEF CommitCert, WriteHttps, Finish, End
  <2>4. CASE Import(a)
    BY <1>2, <2>4 DEF Import, Finish, End
  <2>5. QED
    BY <1>5, <2>1, <2>2, <2>3, <2>4 DEF ChangeStep
<1>6. ASSUME NEW a \in Requests, StopStep(a) PROVE AloneInv'
  BY <1>1, <1>2, <1>6 DEF StopStep, BeginStop, Stop, StopContainers, CommitStop, Step, Finish, End,
     Distrust
<1>7. ASSUME NEW a \in Requests, DeleteStep(a) PROVE AloneInv'
  BY <1>1, <1>2, <1>7 DEF DeleteStep, BeginDelete, DeleteContainers, StopContainers, RemoveVhost,
     DeleteRow, Step, Finish, End, Distrust
<1>8. CASE ComposeJob
  BY <1>8 DEF ComposeJob, reqVars
<1>9. CASE Restart
  BY <1>9 DEF Restart, Distrust
<1>10. CASE UNCHANGED vars
  BY <1>10, <1>3 DEF vars
<1>11. QED
  BY <1>4, <1>5, <1>6, <1>7, <1>8, <1>9, <1>10 DEF Next

-----------------------------------------------------------------------------
\* A vhost has TLS only with a certificate, and a handler that is about to write one without
\* has looked before there was a certificate.
LEMMA TlsKept == TypeOK /\ TlsInv /\ [Next]_vars => TlsInv'
<1> SUFFICES ASSUME TypeOK, TlsInv, [Next]_vars, exists' = "present" PROVE TlsInv'
  BY DEF TlsInv
<1> USE DEF TypeOK, Reached
<1> HIDE DEF Requests
<1>1. ASSUME exists = "present", UNCHANGED certs, vhost' = "https" => vhost = "https",
             \A b \in Requests :
                \/ hpc'[b] = hpc[b] /\ htls'[b] = htls[b] /\ (b \in early => b \in early')
                \/ hpc'[b] \notin {"remove", "run", "commit", "vhost", "https"} /\ htls'[b] = "never"
                \/ /\ hpc[b] \in {"remove", "run", "commit", "vhost"} /\ hpc'[b] # "https"
                   /\ htls'[b] = htls[b] /\ (b \in early => b \in early')
                \/ /\ hpc'[b] \notin {"remove", "run", "commit", "vhost", "https"} /\ htls'[b] = htls[b]
      PROVE  TlsInv'
  BY <1>1 DEF TlsInv
<1>2. ASSUME NEW a \in Requests, NEW pc, NEW tls, Begin(a, pc, tls),
             pc # "https", tls = "yes" => certs,
             pc \in {"run", "commit", "vhost", "remove"} /\ certs => tls # "no"
      PROVE  TlsInv'
  BY <1>2 DEF Begin, TlsInv, rowVars, worldVars
<1>3. ASSUME UNCHANGED <<certs, vhost, reqVars>>, exists = "present" PROVE TlsInv'
  BY <1>3 DEF reqVars, TlsInv
<1>4. ASSUME NEW a \in Requests, DeployStep(a) PROVE TlsInv'
  <2>1. CASE BeginDeploy(a)
    BY <2>1, <1>2 DEF BeginDeploy
  <2>2. CASE BeginPull(a)
    BY <2>2, <1>2 DEF BeginPull
  <2>3. CASE Enqueue(a)
    BY <2>3, <1>3 DEF Enqueue
  <2>4. CASE Pull(a)
    BY <2>4 DEF Pull, Finish, End, rowVars, worldVars, TlsInv
  <2>5. CASE RemoveExisting(a)
    BY <2>5, <1>1 DEF RemoveExisting, Step, rowVars
  <2>6. CASE Run(a)
    BY <2>6, <1>1 DEF Run, Step, rowVars
  <2>7. CASE CommitDeploy(a)
    BY <2>7, <1>1 DEF CommitDeploy, Step, Finish, End, rowVars, worldVars, SaveSite
  <2>8. CASE WriteVhost(a)
    BY <2>8 DEF WriteVhost, rowVars, TlsInv
  <2>9. CASE AddDns(a)
    BY <2>9, <1>1 DEF AddDns, Step, Finish, End, rowVars, worldVars
  <2>10. CASE Fail(a)
    BY <2>10, <1>1 DEF Fail, SaveSite, Finish, End, rowVars, worldVars
  <2>11. QED
    BY <1>4, <2>1, <2>2, <2>3, <2>4, <2>5, <2>6, <2>7, <2>8, <2>9, <2>10 DEF DeployStep
<1>5. ASSUME NEW a \in Requests, ChangeStep(a) PROVE TlsInv'
  <2>1. CASE Patch(a)
    BY <2>1, <1>3 DEF Patch, worldVars
  <2>2. CASE BeginCert(a)
    BY <2>2, <1>2 DEF BeginCert
  <2>3. CASE BeginImport(a)
    BY <2>3, <1>2 DEF BeginImport
  <2>4. CASE CommitCert(a)
    <3>1. CASE Finish(a) /\ UNCHANGED certs
      BY <2>4, <3>1, <1>1 DEF CommitCert, Finish, End, rowVars
    <3>2. CASE ~(Finish(a) /\ UNCHANGED certs)
      <4>1. /\ certs' = TRUE /\ UNCHANGED <<vhost, htls>> /\ exists = "present"
            /\ early' = early \cup {b \in Requests : hpc[b] \in {"remove", "run", "commit", "vhost"} /\ ~certs}
            /\ \A b \in Requests : hpc'[b] = hpc[b] \/ hpc'[b] \in {"https", "idle"}
        BY <2>4, <3>2 DEF CommitCert
      <4>2. QED
        BY <4>1 DEF TlsInv
    <3>3. QED
      BY <3>1, <3>2
  <2>5. CASE WriteHttps(a)
    BY <2>5 DEF WriteHttps, Finish, End, rowVars, TlsInv
  <2>6. CASE Import(a)
    BY <2>6, <1>1 DEF Import, SaveSite, Finish, End, rowVars, worldVars
  <2>7. QED
    BY <1>5, <2>1, <2>2, <2>3, <2>4, <2>5, <2>6 DEF ChangeStep
<1>6. ASSUME NEW a \in Requests, StopStep(a) PROVE TlsInv'
  <2>1. CASE BeginStop(a)
    BY <2>1, <1>2 DEF BeginStop
  <2>2. CASE Stop(a)
    BY <2>2, <1>1 DEF Stop, StopContainers, Step, Finish, End, rowVars
  <2>3. CASE CommitStop(a)
    BY <2>3, <1>1 DEF CommitStop, SaveSite, Finish, End, rowVars, worldVars
  <2>4. QED
    BY <1>6, <2>1, <2>2, <2>3 DEF StopStep
<1>7. ASSUME NEW a \in Requests, DeleteStep(a) PROVE TlsInv'
  <2>1. CASE BeginDelete(a)
    BY <2>1, <1>2 DEF BeginDelete
  <2>2. CASE DeleteContainers(a)
    BY <2>2, <1>1 DEF DeleteContainers, StopContainers, Step, Finish, End, rowVars
  <2>3. CASE RemoveVhost(a)
    BY <2>3, <1>1 DEF RemoveVhost, Step, Finish, End, rowVars
  <2>4. CASE DeleteRow(a)
    BY <2>4, <1>1 DEF DeleteRow, Finish, End
  <2>5. QED
    BY <1>7, <2>1, <2>2, <2>3, <2>4 DEF DeleteStep
<1>8. CASE ComposeJob
  BY <1>8, <1>1 DEF ComposeJob, reqVars
<1>9. CASE Restart
  BY <1>9, <1>1 DEF Restart, End, rowVars, worldVars
<1>10. CASE UNCHANGED vars
  BY <1>10, <1>3 DEF vars, rowVars, worldVars
<1>11. QED
  BY <1>4, <1>5, <1>6, <1>7, <1>8, <1>9, <1>10 DEF Next

-----------------------------------------------------------------------------
\* A lone step that leaves the row, Docker and the vhost alone keeps what is known of a row
\* that is trusted.
LEMMA QuietStep ==
  ASSUME TypeOK, AloneInv, RowInv, trust = "row",
         UNCHANGED <<exists, siteStatus, containerId, siteType, live, project>>,
         vhost' = vhost \/ (vhost' # "none" /\ exists = "present" /\ hpc' # hpc),
         NEW a \in Requests, Alone(a),
         Reached(a, Deploys \cup Changes \cup {"idle", "stop", "delete"}),
         Reached(a, Deploys \cup Changes \cup {"idle", "stop", "delete"})',
         Reached(a, Deploys)' => siteType = "plain",
         Reached(a, {"https"})' => containerId # NoContainer,
         exists = "deleted" => hpc'[a] = "idle",
         Reached(a, Deploys \cup {"clone", "stop", "delete"})' => hseen'[a] = Loaded(hpc'[a]),
         \A b \in Requests : b # a => hpc'[b] = hpc[b] /\ hseen'[b] = hseen[b]
  PROVE  RowInv'
<1> USE DEF Alone, Idle, Reached, RowInv, Stray, Agrees, Changes, Deploys
<1> HIDE DEF Requests
<1>2. \A b \in Requests : Reached(b, Deploys \cup Changes \cup {"idle", "stop", "delete"})
  OBVIOUS
<1>3. exists = "present" => Agrees
  BY <1>2 DEF TypeOK
<1>4. exists = "present" => Agrees'
  BY <1>3
<1>5. (exists = "deleted" => live = NoContainer /\ ~project /\ vhost = "none" /\ \A b \in Requests : hpc[b] = "idle")'
  BY DEF TypeOK
<1>6. (exists = "present" => ~Stray)'
  BY <1>4
<1>7. \A b \in Requests : hpc'[b] \in Deploys \cup Changes \cup {"idle", "stop", "delete"}
  BY <1>2
<1>8. \A b \in Requests :
        Reached(b, Deploys \cup {"clone", "stop", "delete"})' => hseen'[b] = Loaded(hpc[b])'
  BY DEF Loaded, Current
<1>9. \A b \in Requests : (Reached(b, Deploys)' => siteType' = "plain")
                       /\ (Reached(b, {"https"})' => containerId' # NoContainer)
  OBVIOUS
<1>10. QED
  BY <1>4, <1>5, <1>6, <1>7, <1>8, <1>9

\* A row that may be trusted stays true through every step of a lone request.
LEMMA RowKept == TypeOK /\ AloneInv /\ RowInv /\ DeployInv /\ [Next]_vars => RowInv'
<1> SUFFICES ASSUME TypeOK, AloneInv, RowInv, DeployInv, [Next]_vars, trust' = "row" PROVE RowInv'
  BY DEF RowInv
<1> USE DEF Idle, Reached
<1> HIDE DEF Requests
<1>0. \A a \in Requests : trust = "row" /\ ~Idle(a) => Alone(a)
  BY DEF AloneInv, Alone
<1>1. ASSUME NEW a \in Requests, NEW pc \in Deploys \cup {"cert", "clone", "stop", "delete"}, NEW tls,
             Begin(a, pc, tls)
      PROVE  RowInv'
  <2>1. trust = "row" /\ Alone(a) /\ (pc \in Deploys => siteType = "plain")
    BY <1>1 DEF Begin, TypeOK, Columns, Current, SiteTypes
  <2>2. /\ UNCHANGED <<exists, siteStatus, containerId, siteType, live, project, vhost>>
        /\ exists = "present" /\ hpc[a] = "idle" /\ hpc'[a] = pc /\ hseen'[a] = Loaded(pc)
        /\ \A b \in Requests : b # a => hpc'[b] = hpc[b] /\ hseen'[b] = hseen[b]
    BY <1>1 DEF Begin, rowVars, worldVars, dockVars, TypeOK
  <2>3. QED
    BY <2>1, <2>2, QuietStep DEF Deploys, Changes
<1>2. ASSUME NEW a \in Requests, DeployStep(a) PROVE RowInv'
  <2>1. CASE BeginDeploy(a) \/ BeginPull(a)
    BY <2>1, <1>1 DEF BeginDeploy, BeginPull, Deploys
  <2>2. CASE Enqueue(a)
    BY <2>2 DEF Enqueue, RowInv, Agrees, Stray, Loaded, Current, rowVars, dockVars, reqVars
  <2>3. CASE Pull(a)
    <3>1. trust = "row" /\ Alone(a) /\ hpc[a] = "pull" /\ exists = "present" /\ siteType = "plain"
      BY <2>3, <1>0 DEF Pull, Finish, End, RowInv, TypeOK, Deploys
    <3>2. /\ UNCHANGED <<exists, siteStatus, containerId, siteType, live, project, vhost>>
          /\ \A b \in Requests : b # a => hpc'[b] = hpc[b] /\ hseen'[b] = hseen[b]
      BY <2>3 DEF Pull, Finish, End, rowVars, worldVars, dockVars, TypeOK
    <3>3. hpc'[a] = "idle" \/ (hpc'[a] = "remove" /\ hseen'[a] = hseen[a])
      BY <2>3 DEF Pull, Finish, End, TypeOK
    <3>4. hseen[a] = Loaded("pull") /\ Loaded("pull") = Loaded("remove")
      BY <3>1 DEF RowInv, Loaded, Deploys
    <3>5. QED
      BY <3>1, <3>2, <3>3, <3>4, QuietStep DEF Deploys, Changes
  <2>4. CASE RemoveExisting(a)
    BY <2>4 DEF RemoveExisting, Distrust, TypeOK
  <2>5. CASE Run(a)
    BY <2>5 DEF Run, Distrust, RowInv, Deploys, Changes
  <2>6. CASE CommitDeploy(a)
    BY <2>6 DEF CommitDeploy, Distrust, RowInv, Deploys, Changes
  <2>7. CASE WriteVhost(a)
    BY <2>7 DEF WriteVhost, Distrust, RowInv, Deploys, Changes
  <2>8. CASE Fail(a)
    BY <2>8 DEF Fail, RowInv, Deploys, Changes
  <2>9. CASE AddDns(a)
    <3>1. trust = "deploy"
      BY <2>9 DEF AddDns, Distrust, RowInv, Deploys, Changes, TypeOK
    <3>2. /\ exists = "present" /\ siteType = "plain" /\ ~project /\ siteStatus = "running"
          /\ containerId = live /\ live # NoContainer /\ vhost # "none"
          /\ \A b \in Requests : b # a => hpc[b] = "idle"
      BY <2>9, <3>1 DEF AddDns, DeployInv, AloneInv
    <3>3. UNCHANGED <<exists, siteStatus, containerId, siteType, live, project, vhost>>
      BY <2>9 DEF AddDns, rowVars, worldVars, dockVars
    <3>4. \A b \in Requests : hpc'[b] = "idle"
      BY <2>9, <3>2 DEF AddDns, Finish, End, Distrust
    <3>5. QED
      BY <3>2, <3>3, <3>4 DEF RowInv, Agrees, Stray, Deploys
  <2>10. QED
    BY <1>2, <2>1, <2>2, <2>3, <2>4, <2>5, <2>6, <2>7, <2>8, <2>9 DEF DeployStep
<1>3. ASSUME NEW a \in Requests, ChangeStep(a) PROVE RowInv'
  <2>1. CASE Patch(a)
    BY <2>1 DEF Patch, Distrust
  <2>2. CASE BeginCert(a) \/ BeginImport(a)
    BY <2>2, <1>1 DEF BeginCert, BeginImport
  <2>3. CASE CommitCert(a)
    <3>1. trust = "row" /\ Alone(a) /\ hpc[a] = "cert" /\ exists = "present"
      BY <2>3, <1>0 DEF CommitCert, RowInv, TypeOK
    <3>2. /\ UNCHANGED <<exists, siteStatus, containerId, siteType, live, project, vhost>>
          /\ \A b \in Requests : b # a => hpc'[b] = hpc[b] /\ hseen'[b] = hseen[b]
      BY <2>3 DEF CommitCert, Finish, End, rowVars, dockVars, TypeOK
    <3>3. hpc'[a] = "idle" \/ (hpc'[a] = "https" /\ containerId # NoContainer)
      BY <2>3 DEF CommitCert, Finish, End, TypeOK
    <3>4. QED
      BY <3>1, <3>2, <3>3, QuietStep DEF Deploys, Changes
  <2>4. CASE WriteHttps(a)
    <3>1. trust = "row" /\ Alone(a) /\ hpc[a] = "https" /\ exists = "present"
      BY <2>4, <1>0 DEF WriteHttps, RowInv, TypeOK
    <3>2. /\ UNCHANGED <<exists, siteStatus, containerId, siteType, live, project>>
          /\ \A b \in Requests : b # a => hpc'[b] = hpc[b] /\ hseen'[b] = hseen[b]
      BY <2>4 DEF WriteHttps, Finish, End, rowVars, dockVars
    <3>3. hpc'[a] = "idle" /\ (vhost' = vhost \/ vhost' = "https")
      BY <2>4 DEF WriteHttps, Finish, End, TypeOK
    <3>4. QED
      BY <3>1, <3>2, <3>3, QuietStep DEF Deploys, Changes
  <2>5. CASE Import(a)
    <3>1. trust = "row" /\ Alone(a) /\ hpc[a] = "clone" /\ exists = "present"
      BY <2>5, <1>0 DEF Import, RowInv, TypeOK
    <3>2. /\ UNCHANGED <<exists, live, project, vhost>>
          /\ \A b \in Requests : hpc'[b] = "idle"
      BY <2>5, <3>1 DEF Import, SaveSite, Finish, End, rowVars, worldVars, dockVars, Alone
    <3>3. Agrees
      BY <3>1 DEF RowInv, Alone, Changes
    <3>4. \/ UNCHANGED <<siteStatus, containerId, siteType>>
          \/ siteType' \in SiteTypes /\ UNCHANGED <<siteStatus, containerId>> /\ live = NoContainer /\ ~project
      BY <2>5, <3>1 DEF Import, SaveSite, Flushed, rowVars, TypeOK, Columns, Current
    <3>5. Agrees' /\ ~Stray'
      BY <3>2, <3>3, <3>4 DEF Agrees, Stray, SiteTypes, TypeOK, Columns, Current
    <3>6. QED
      BY <3>1, <3>2, <3>5 DEF RowInv, Deploys
  <2>6. QED
    BY <1>3, <2>1, <2>2, <2>3, <2>4, <2>5 DEF ChangeStep
<1>4. ASSUME NEW a \in Requests, NEW pc \in {"stop", "delete"}, hpc[a] = pc,
             NEW next \in {"commitStop", "unvhost"}, pc = "stop" <=> next = "commitStop",
             StopContainers(a, next)
      PROVE  RowInv'
  <2>1. trust = "row" /\ Alone(a) /\ exists = "present" /\ Agrees /\ hseen[a] = Loaded(pc)
    BY <1>4, <1>0 DEF StopContainers, Distrust, RowInv, Alone, TypeOK
  <2>2. /\ UNCHANGED <<exists, siteStatus, containerId, siteType, vhost>> /\ UNCHANGED hseen
        /\ hpc'[a] = next /\ \A b \in Requests : b # a => hpc'[b] = "idle"
    BY <1>4, <2>1 DEF StopContainers, Step, Distrust, rowVars, Alone, TypeOK
  <2>3. hseen[a].type = siteType /\ hseen[a].container = containerId
        /\ (pc = "stop" => hseen[a] = Current)
    BY <2>1 DEF Loaded, Current, Blank, Deploys
  <2>4. live' = NoContainer /\ project' = FALSE
    BY <1>4, <2>1, <2>3 DEF StopContainers, Distrust, Agrees, Stray, TypeOK
  <2>5. pc = "stop" => (Loaded("stop") = hseen[a])'
    BY <2>2, <2>3 DEF Loaded, Current, Deploys
  <2>6. QED
    BY <1>4, <2>1, <2>2, <2>4, <2>5 DEF RowInv, Stray, Deploys, Changes
<1>5. ASSUME NEW a \in Requests, StopStep(a) PROVE RowInv'
  <2>1. CASE BeginStop(a)
    BY <2>1, <1>1 DEF BeginStop
  <2>2. CASE Stop(a)
    BY <2>2, <1>4 DEF Stop
  <2>3. CASE CommitStop(a)
    <3>1. trust = "row" /\ Alone(a) /\ exists = "present" /\ live = NoContainer /\ ~project
          /\ hseen[a] = Current
      BY <2>3, <1>0 DEF CommitStop, Distrust, RowInv, TypeOK, Loaded, Deploys
    <3>2. /\ UNCHANGED <<exists, live, project, vhost, siteType>>
          /\ \A b \in Requests : hpc'[b] = "idle"
      BY <2>3, <3>1 DEF CommitStop, SaveSite, Flushed, Current, Distrust, Finish, End, worldVars,
         dockVars, Alone
    <3>3. siteStatus' = "stopped" /\ containerId' = NoContainer
      BY <2>3, <3>1 DEF CommitStop, SaveSite, Flushed, Distrust, Current
    <3>4. QED
      BY <3>1, <3>2, <3>3 DEF RowInv, Agrees, Stray, Deploys
  <2>4. QED
    BY <1>5, <2>1, <2>2, <2>3 DEF StopStep
<1>6. ASSUME NEW a \in Requests, DeleteStep(a) PROVE RowInv'
  <2>1. CASE BeginDelete(a)
    BY <2>1, <1>1 DEF BeginDelete
  <2>2. CASE DeleteContainers(a)
    BY <2>2, <1>4 DEF DeleteContainers
  <2>3. CASE RemoveVhost(a)
    <3>1. trust = "row" /\ Alone(a) /\ exists = "present" /\ live = NoContainer /\ ~project
      BY <2>3, <1>0 DEF RemoveVhost, Distrust, RowInv, TypeOK
    <3>2. /\ UNCHANGED <<exists, live, project, siteType>> /\ vhost' = "none"
          /\ hpc'[a] = "unrow" /\ \A b \in Requests : b # a => hpc'[b] = "idle"
      BY <2>3, <3>1 DEF RemoveVhost, Step, Distrust, rowVars, dockVars, Alone, TypeOK
    <3>3. QED
      BY <3>1, <3>2 DEF RowInv, Stray, Deploys, Changes
  <2>4. CASE DeleteRow(a)
    <3>1. trust = "row" /\ Alone(a) /\ live = NoContainer /\ ~project /\ vhost = "none"
      BY <2>4, <1>0 DEF DeleteRow, Distrust, RowInv, TypeOK
    <3>2. /\ UNCHANGED <<live, project, vhost>> /\ exists' = "deleted"
          /\ \A b \in Requests : hpc'[b] = "idle"
      BY <2>4, <3>1 DEF DeleteRow, Finish, End, Distrust, dockVars, Alone
    <3>3. QED
      BY <3>1, <3>2 DEF RowInv, Deploys
  <2>5. QED
    BY <1>6, <2>1, <2>2, <2>3, <2>4 DEF DeleteStep
<1>7. CASE ComposeJob
  <2>1. /\ \A b \in Requests : hpc'[b] = "idle"
        /\ exists' = "present" /\ siteType' = "compose" /\ live' = NoContainer
        /\ siteStatus' = "running"
    BY <1>7 DEF ComposeJob, Stray, reqVars
  <2>2. project' = TRUE /\ vhost' = "http" /\ containerId' = Project
    BY <1>7, <2>1 DEF ComposeJob
  <2>3. QED
    BY <2>1, <2>2, PlainSiteAssumption DEF RowInv, Agrees, Stray, Deploys
<1>8. CASE Restart
  BY <1>8 DEF Restart, Distrust
<1>9. CASE UNCHANGED vars
  BY <1>9 DEF vars, RowInv, Agrees, Stray, Loaded, Current, rowVars, worldVars, dockVars, reqVars
<1>10. QED
  BY <1>2, <1>3, <1>5, <1>6, <1>7, <1>8, <1>9 DEF Next

-----------------------------------------------------------------------------
\* A lone deploy restores the row step by step.
LEMMA DeployKept == TypeOK /\ AloneInv /\ RowInv /\ DeployInv /\ [Next]_vars => DeployInv'
<1> SUFFICES ASSUME TypeOK, AloneInv, RowInv, DeployInv, [Next]_vars, trust' = "deploy"
             PROVE  DeployInv'
  BY DEF DeployInv
<1> USE DEF Idle, Reached
<1> HIDE DEF Requests
<1>0. \A a \in Requests : trust = "deploy" /\ ~Idle(a) =>
        hpc[a] \in {"pull", "remove", "run", "commit", "vhost", "dns"} /\ \A b \in Requests : b # a => Idle(b)
  BY DEF AloneInv, DeployInv
<1>1. ASSUME NEW a \in Requests, NEW pc \in Deploys \cup {"cert", "clone", "stop", "delete"}, NEW tls,
             Begin(a, pc, tls)
      PROVE  DeployInv'
  <2>1. trust # "deploy"
    BY <1>1 DEF Begin, Alone, DeployInv
  <2>2. /\ exists = "present" /\ pc \in Deploys /\ siteType = "plain" /\ ~project
        /\ \A b \in Requests : b # a => hpc[b] = "idle"
    BY <1>1, <2>1 DEF Begin, Alone, Stray
  <2>3. /\ UNCHANGED <<exists, siteType, project, siteStatus, containerId>>
        /\ hpc'[a] = pc /\ hseen'[a] = Loaded(pc)
        /\ \A b \in Requests : b # a => hpc'[b] = "idle"
    BY <1>1, <2>2 DEF Begin, rowVars, worldVars, dockVars, TypeOK
  <2>4. hseen'[a] = Loaded("remove")'
    BY <2>2, <2>3 DEF Loaded, Deploys
  <2>5. QED
    BY <2>2, <2>3, <2>4 DEF DeployInv, Deploys
<1>2. ASSUME NEW a \in Requests, DeployStep(a) PROVE DeployInv'
  <2>1. CASE BeginDeploy(a) \/ BeginPull(a)
    BY <2>1, <1>1 DEF BeginDeploy, BeginPull, Deploys
  <2>2. CASE Enqueue(a)
    BY <2>2 DEF Enqueue, DeployInv, Loaded, Deploys, rowVars, dockVars, reqVars
  <2>3. CASE Pull(a)
    <3>1. /\ trust = "deploy" /\ exists = "present" /\ siteType = "plain" /\ ~project
          /\ hseen[a] = Loaded("remove")
      BY <2>3 DEF Pull, DeployInv, TypeOK
    <3>2. /\ UNCHANGED <<exists, siteStatus, containerId, siteType, project, hseen>>
          /\ hpc'[a] = "remove" /\ \A b \in Requests : b # a => hpc'[b] = "idle"
      BY <2>3, <3>1, <1>0 DEF Pull, rowVars, worldVars, dockVars, TypeOK
    <3>3. (Loaded("remove") = hseen[a])'
      BY <3>1, <3>2 DEF Loaded, Deploys
    <3>4. QED
      BY <3>1, <3>2, <3>3 DEF DeployInv
  <2>4. CASE RemoveExisting(a)
    <3>1. /\ hpc[a] = "remove" /\ exists = "present" /\ siteType = "plain" /\ ~project
          /\ hseen[a] = Loaded("remove") /\ \A b \in Requests : b # a => Idle(b)
      BY <2>4, <1>0 DEF RemoveExisting, Distrust, DeployInv, RowInv, AloneInv, Stray, Deploys, TypeOK
    <3>2. /\ UNCHANGED <<exists, siteStatus, containerId, siteType, project, hseen>>
          /\ hpc'[a] = "run" /\ \A b \in Requests : b # a => hpc'[b] = "idle"
      BY <2>4, <3>1 DEF RemoveExisting, Distrust, Step, rowVars, TypeOK
    <3>3. (Loaded("remove") = hseen[a])'
      BY <3>1, <3>2 DEF Loaded, Deploys
    <3>4. QED
      BY <3>1, <3>2, <3>3 DEF DeployInv
  <2>5. CASE Run(a)
    <3>1. /\ trust = "deploy" /\ exists = "present" /\ siteType = "plain" /\ ~project
          /\ hseen[a] = Loaded("remove") /\ \A b \in Requests : b # a => Idle(b)
      BY <2>5, <1>0 DEF Run, Distrust, DeployInv
    <3>2. PICK c \in Containers : Create(c) /\ hcid' = [hcid EXCEPT ![a] = c]
      BY <2>5 DEF Run, Distrust
    <3>3. /\ UNCHANGED <<exists, siteStatus, containerId, siteType, project, hseen>>
          /\ hpc'[a] = "commit" /\ \A b \in Requests : b # a => hpc'[b] = "idle"
      BY <2>5, <3>1 DEF Run, Distrust, rowVars, TypeOK
    <3>4. live' = c /\ hcid'[a] = c /\ c # NoContainer
      BY <3>2, PlainSiteAssumption DEF Create, TypeOK
    <3>5. (Loaded("remove") = hseen[a])'
      BY <3>1, <3>3 DEF Loaded, Deploys
    <3>6. QED
      BY <3>1, <3>3, <3>4, <3>5 DEF DeployInv
  <2>6. CASE CommitDeploy(a)
    <3>1. /\ trust = "deploy" /\ exists = "present" /\ siteType = "plain" /\ ~project
          /\ hseen[a] = Loaded("remove") /\ live = hcid[a] /\ live # NoContainer
          /\ \A b \in Requests : b # a => Idle(b)
      BY <2>6, <1>0 DEF CommitDeploy, Distrust, DeployInv
    <3>2. /\ SaveSite(hseen[a], [hseen[a] EXCEPT !.status = "running", !.container = hcid[a]])
          /\ Step(a, "vhost") /\ UNCHANGED worldVars
      BY <2>6 DEF CommitDeploy, Distrust
    <3>3. siteStatus' = "running" /\ containerId' = live /\ siteType' = siteType /\ exists' = exists
      BY <3>1, <3>2 DEF SaveSite, Flushed, Loaded, Deploys, Blank
    <3>4. QED
      BY <3>1, <3>2, <3>3 DEF DeployInv, Step, worldVars, dockVars, TypeOK
  <2>7. CASE WriteVhost(a)
    <3>1. /\ trust = "deploy" /\ exists = "present" /\ siteType = "plain" /\ ~project
          /\ siteStatus = "running" /\ containerId = live /\ live # NoContainer
          /\ \A b \in Requests : b # a => Idle(b)
      BY <2>7, <1>0 DEF WriteVhost, Distrust, DeployInv
    <3>2. /\ UNCHANGED <<exists, siteStatus, containerId, siteType, project, live>> /\ vhost' # "none"
          /\ hpc'[a] = "dns" /\ \A b \in Requests : b # a => hpc'[b] = "idle"
      BY <2>7, <3>1 DEF WriteVhost, Distrust, rowVars, dockVars, TypeOK
    <3>3. QED
      BY <3>1, <3>2 DEF DeployInv
  <2>8. CASE AddDns(a)
    BY <2>8 DEF AddDns, Distrust
  <2>9. CASE Fail(a)
    BY <2>9, <1>0 DEF Fail
  <2>10. QED
    BY <1>2, <2>1, <2>2, <2>3, <2>4, <2>5, <2>6, <2>7, <2>8, <2>9 DEF DeployStep
<1>3. ASSUME NEW a \in Requests, ChangeStep(a) PROVE DeployInv'
  <2>1. CASE BeginCert(a) \/ BeginImport(a)
    BY <2>1, <1>1 DEF BeginCert, BeginImport
  <2>2. CASE CommitCert(a) \/ WriteHttps(a) \/ Import(a)
    BY <2>2, <1>0 DEF CommitCert, WriteHttps, Import
  <2>3. QED
    BY <1>3, <2>1, <2>2 DEF ChangeStep, Patch, Distrust
<1>4. ASSUME NEW a \in Requests, StopStep(a) PROVE DeployInv'
  BY <1>0, <1>1, <1>4 DEF StopStep, BeginStop, Stop, StopContainers, CommitStop, Distrust
<1>5. ASSUME NEW a \in Requests, DeleteStep(a) PROVE DeployInv'
  BY <1>0, <1>1, <1>5 DEF DeleteStep, BeginDelete, DeleteContainers, StopContainers, RemoveVhost,
     DeleteRow, Distrust
<1>6. CASE ComposeJob \/ Restart
  BY <1>6 DEF ComposeJob, Restart, Distrust
<1>7. CASE UNCHANGED vars
  BY <1>7 DEF vars, DeployInv, Loaded, Deploys, rowVars, worldVars, dockVars, reqVars
<1>8. QED
  BY <1>2, <1>3, <1>4, <1>5, <1>6, <1>7 DEF Next

-----------------------------------------------------------------------------
\* The inductive invariant holds in every reachable state.
THEOREM Invariant == Spec => []Inv
<1>1. Init => Inv
  <2>1. Init => AloneInv /\ RowInv /\ DeployInv /\ TlsInv
    BY DEF Init, AloneInv, RowInv, DeployInv, TlsInv, Agrees, Stray, Idle, Reached, Deploys
  <2>2. QED
    BY <2>1, TypeInit DEF Inv
<1>2. Inv /\ [Next]_vars => Inv'
  BY TypeStep, AloneKept, RowKept, DeployKept, TlsKept DEF Inv
<1>3. QED
  BY <1>1, <1>2, PTL DEF Spec

\* A lone deploy makes the row true, and lone requests keep it true, whatever the type of the
\* site and of the repositories imported into it.
THEOREM RowCorrect == Spec => []RowIsTrue
<1>1. Inv => RowIsTrue
  BY DEF Inv, TypeOK, RowInv, RowIsTrue, Idle, Reached
<1>2. QED
  BY <1>1, Invariant, PTL

\* A vhost loses TLS only to whoever never looks for a certificate or looked too early.
THEOREM HttpsKept == Spec => HttpsIsKept
<1> DEFINE Excused == \/ \E a \in Requests : hpc[a] = "vhost" /\ (htls[a] = "never" \/ a \in early)
                      \/ queued /\ ~queued'
<1>1. ASSUME Inv, Next, vhost = "https", vhost' = "http" PROVE Excused
  <2>1. ASSUME NEW a \in Requests, WriteVhost(a) PROVE Excused
    <3>1. hpc[a] = "vhost" /\ exists = "present" /\ htls[a] # "yes"
      BY <1>1, <2>1 DEF WriteVhost
    <3>2. htls[a] = "never" \/ a \in early
      BY <1>1, <3>1 DEF Inv, TypeOK, TlsInv, Reached
    <3>3. QED
      BY <3>1, <3>2
  <2>2. ASSUME NEW a \in Requests, DeployStep(a), ~WriteVhost(a) PROVE FALSE
    BY <1>1, <2>2 DEF DeployStep, BeginDeploy, BeginPull, Begin, Enqueue, Pull, RemoveExisting, Run,
       CommitDeploy, AddDns, Fail, worldVars
  <2>3. ASSUME NEW a \in Requests, ChangeStep(a) \/ StopStep(a) \/ DeleteStep(a) PROVE FALSE
    BY <1>1, <2>3 DEF ChangeStep, StopStep, DeleteStep, Patch, BeginCert, BeginImport, BeginStop,
       BeginDelete, Begin, CommitCert, WriteHttps, Import, Stop, DeleteContainers, StopContainers,
       CommitStop, RemoveVhost, DeleteRow, worldVars
  <2>4. ComposeJob => Excused
    BY DEF ComposeJob
  <2>5. Restart => FALSE
    BY <1>1 DEF Restart, worldVars
  <2>6. QED
    BY <1>1, <2>1, <2>2, <2>3, <2>4, <2>5 DEF Next
<1>2. Inv /\ [Next]_vars => [vhost = "https" /\ vhost' = "http" => Excused]_vars
  BY <1>1
<1>3. QED
  BY <1>2, Invariant, PTL DEF Spec, HttpsIsKept
=============================================================================
