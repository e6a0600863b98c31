-------------------------- MODULE SiteDatabases_proofs --------------------------
(***************************************************************************)
(* Theorems about SiteDatabases for any number of passwords, requests and  *)
(* births of the site, and every choice of faults.                         *)
(***************************************************************************)
EXTENDS SiteDatabases, TLAPS

\* Every step keeps every variable in its type.
LEMMA TypeStep == TypeOK /\ [Next]_vars => TypeOK'
<1> SUFFICES ASSUME TypeOK, [Next]_vars PROVE TypeOK'
  OBVIOUS
<1> USE SiteDatabasesAssumption DEF TypeOK, HandlerSteps, Maybe, siteVars, serverVars, reqVars,
        Distrust, Step, Finish, FirstStep
<1>1. ASSUME NEW a \in Requests, Refused(a) PROVE TypeOK'
  BY <1>1 DEF Refused
<1>2. ASSUME NEW a \in Requests, CreateStep(a) PROVE TypeOK'
  <2>1. CASE BeginCreate(a)
    BY <2>1 DEF BeginCreate, Begin
  <2>2. CASE CreateRole(a) \/ CreateBase(a) \/ Grant(a)
    BY <2>2, <1>1 DEF CreateRole, CreateBase, Grant
  <2>3. CASE Commit(a)
    BY <2>3 DEF Commit
  <2>4. CASE Refresh(a)
    BY <2>4 DEF Refresh
  <2>5. QED
    BY <1>2, <2>1, <2>2, <2>3, <2>4 DEF CreateStep
<1>3. ASSUME NEW a \in Requests, DropStep(a) PROVE TypeOK'
  <2>1. CASE BeginDelete(a)
    BY <2>1 DEF BeginDelete, Begin
  <2>2. CASE DropBase(a, "undoBase", "undoRole") \/ DropBase(a, "dropBase", "dropRole")
    BY <2>2, <1>1 DEF DropBase
  <2>3. ASSUME NEW at \in HandlerSteps, DropRole(a, at) PROVE TypeOK'
    <3>1. CASE ~Refused(a)
      <4>1. /\ role' = NoPassword /\ granted' = FALSE
            /\ UNCHANGED <<engine, siteVars, row, base, used, trust>>
            /\ Finish(a) \/ Step(a, "deleteRow")
        BY <2>3, <3>1 DEF DropRole
      <4>2. hpc' \in [Requests -> HandlerSteps] /\ hpw' \in [Requests -> Maybe]
        BY <4>1
      <4>3. hbirth' \in [Requests -> 0..MaxBirths]
        BY <4>1
      <4>4. QED
        BY <4>1, <4>2, <4>3
    <3>2. QED
      BY <3>1, <1>1
  <2>4. CASE DeleteRow(a)
    BY <2>4 DEF DeleteRow
  <2>5. QED
    BY <1>3, <2>1, <2>2, <2>3, <2>4 DEF DropStep
<1>4. CASE DeleteSite \/ CreateSite \/ Restart
  BY <1>4 DEF DeleteSite, CreateSite, Restart
<1>5. CASE UNCHANGED vars
  BY <1>5 DEF vars
<1>6. QED
  BY <1>2, <1>3, <1>4, <1>5 DEF Next

\* Every history starts well formed.
LEMMA TypeInit == Init => TypeOK
<1> SUFFICES ASSUME Init PROVE TypeOK
  OBVIOUS
<1>1. hpc \in [Requests -> HandlerSteps] /\ hpw \in [Requests -> Maybe]
  BY DEF Init, HandlerSteps, Maybe
<1>2. births \in 1..MaxBirths /\ hbirth \in [Requests -> 0..MaxBirths]
  BY SiteDatabasesAssumption DEF Init
<1>3. QED
  BY <1>1, <1>2 DEF Init, TypeOK, Maybe

\* Type correctness: every reachable state of the database and its row is well formed.
THEOREM TypeCorrect == Spec => []TypeOK
BY TypeInit, TypeStep, PTL DEF Spec

-----------------------------------------------------------------------------
\* Beginning a request is the only step by which a handler stops being idle, and it ends
\* the trust in the row unless nobody else is at work.
LEMMA AloneKept == TypeOK /\ AloneInv /\ [Next]_vars => AloneInv'
<1> SUFFICES ASSUME TypeOK, AloneInv, [Next]_vars PROVE AloneInv'
  OBVIOUS
<1> USE DEF TypeOK, AloneInv, Idle, siteVars, serverVars, reqVars
<1>1. ASSUME NEW a \in Requests, ~Idle(a), trust # "none" \/ trust' = "none",
             \A b \in Requests : b # a => hpc'[b] = hpc[b]
      PROVE  AloneInv'
  BY <1>1
<1>2. ASSUME NEW a \in Requests, Refused(a) PROVE AloneInv'
  BY <1>2 DEF Refused, Distrust
<1>3. ASSUME NEW a \in Requests, CreateStep(a) PROVE AloneInv'
  <2>1. CASE BeginCreate(a)
    BY <2>1 DEF BeginCreate, Begin, Alone
  <2>2. CASE CreateRole(a) \/ CreateBase(a) \/ Grant(a) \/ Commit(a)
             \/ Refresh(a)
    BY <2>2, <1>1, <1>2
       DEF CreateRole, CreateBase, Grant, Commit, Refresh, Distrust, Step, Finish
  <2>3. QED
    BY <1>3, <2>1, <2>2 DEF CreateStep
<1>4. ASSUME NEW a \in Requests, DropStep(a) PROVE AloneInv'
  <2>1. CASE BeginDelete(a)
    BY <2>1 DEF BeginDelete, Begin, Alone
  <2>2. ASSUME NEW at \in HandlerSteps \ {"idle"}, NEW next, DropBase(a, at, next)
        PROVE  AloneInv'
    BY <2>2, <1>1, <1>2 DEF DropBase, Step
  <2>3. ASSUME NEW at \in HandlerSteps \ {"idle"}, DropRole(a, at) PROVE AloneInv'
    BY <2>3, <1>1, <1>2 DEF DropRole, Step, Finish
  <2>4. CASE DeleteRow(a)
    BY <2>4, <1>1 DEF DeleteRow, Finish, Distrust
  <2>5. QED
    BY <1>4, <2>1, <2>2, <2>3, <2>4 DEF DropStep, HandlerSteps
<1>5. CASE DeleteSite \/ CreateSite \/ Restart
  BY <1>5 DEF DeleteSite, CreateSite, Restart, Distrust
<1>6. CASE UNCHANGED vars
  BY <1>6 DEF vars
<1>7. QED
  BY <1>3, <1>4, <1>5, <1>6 DEF Next

\* What the steps of a lone creation have done is what its place in the sequence says.
LEMMA CreateKept ==
  TypeOK /\ AloneInv /\ CreateInv /\ RowIsBacked /\ [Next]_vars => CreateInv'
<1> SUFFICES ASSUME TypeOK, AloneInv, CreateInv, RowIsBacked, [Next]_vars, trust' = "row"
             PROVE  CreateInv'
  BY DEF CreateInv
<1> USE DEF TypeOK, AloneInv, CreateInv, Idle, At, Creating, HandlerSteps, Engines, Maybe,
        FirstStep, Opens, Nothing, siteVars, serverVars, reqVars
<1>1. ASSUME NEW a \in Requests, Refused(a) PROVE CreateInv'
  BY <1>1 DEF Refused, Distrust
<1>2. ASSUME NEW a \in Requests, CreateStep(a) PROVE CreateInv'
  <2>1. CASE BeginCreate(a)
    BY <2>1, SiteDatabasesAssumption DEF BeginCreate, Begin, Alone, RowIsBacked
  <2>2. CASE CreateRole(a)
    BY <2>2, <1>1 DEF CreateRole, Step
  <2>3. CASE CreateBase(a)
    BY <2>3, <1>1 DEF CreateBase, Step
  <2>4. CASE Grant(a)
    BY <2>4, <1>1 DEF Grant, Step
  <2>5. CASE Commit(a)
    BY <2>5 DEF Commit, Step
  <2>6. CASE Refresh(a)
    BY <2>6 DEF Refresh, Finish, Step, Distrust
  <2>7. QED
    BY <1>2, <2>1, <2>2, <2>3, <2>4, <2>5, <2>6 DEF CreateStep
<1>3. ASSUME NEW a \in Requests, DropStep(a) PROVE CreateInv'
  <2>1. CASE BeginDelete(a)
    BY <2>1 DEF BeginDelete, Begin, Alone
  <2>2. CASE DropBase(a, "undoBase", "undoRole") \/ DropBase(a, "dropBase", "dropRole")
    BY <2>2, <1>1 DEF DropBase, Step
  <2>3. CASE DropRole(a, "undoRole") \/ DropRole(a, "dropRole")
    BY <2>3, <1>1 DEF DropRole, Step, Finish
  <2>4. CASE DeleteRow(a)
    BY <2>4 DEF DeleteRow, Finish, Distrust
  <2>5. QED
    BY <1>3, <2>1, <2>2, <2>3, <2>4 DEF DropStep
<1>4. CASE DeleteSite \/ CreateSite \/ Restart
  BY <1>4 DEF DeleteSite, CreateSite, Restart, Distrust
<1>5. CASE UNCHANGED vars
  BY <1>5 DEF vars
<1>6. QED
  BY <1>2, <1>3, <1>4, <1>5 DEF Next

\* A lone deletion has dropped what its place in the sequence says, and the row is the one
\* it loaded; as long as it is what the trust rests on, it is under way.
LEMMA DeleteKept ==
  TypeOK /\ AloneInv /\ DeleteInv /\ LoneDelete /\ [Next]_vars => DeleteInv' /\ LoneDelete'
<1> SUFFICES ASSUME TypeOK, AloneInv, DeleteInv, LoneDelete, [Next]_vars, trust' # "none"
             PROVE  DeleteInv' /\ LoneDelete'
  BY DEF DeleteInv, LoneDelete
<1> USE DEF TypeOK, AloneInv, DeleteInv, LoneDelete, Idle, At, Deleting, HandlerSteps, Maybe,
        Nothing, siteVars, serverVars, reqVars
<1>1. ASSUME NEW a \in Requests, Refused(a) PROVE DeleteInv' /\ LoneDelete'
  BY <1>1 DEF Refused, Distrust
<1>2. ASSUME NEW a \in Requests, CreateStep(a) PROVE DeleteInv' /\ LoneDelete'
  <2>1. CASE BeginCreate(a)
    BY <2>1 DEF BeginCreate, Begin, Alone, FirstStep
  <2>2. CASE CreateRole(a) \/ CreateBase(a) \/ Grant(a)
    BY <2>2, <1>1 DEF CreateRole, CreateBase, Grant, Step
  <2>3. CASE Commit(a)
    BY <2>3 DEF Commit, Step
  <2>4. CASE Refresh(a)
    BY <2>4 DEF Refresh, Finish, Step, Distrust
  <2>5. QED
    BY <1>2, <2>1, <2>2, <2>3, <2>4 DEF CreateStep
<1>3. ASSUME NEW a \in Requests, DropStep(a) PROVE DeleteInv' /\ LoneDelete'
  <2>1. CASE BeginDelete(a)
    BY <2>1 DEF BeginDelete, Begin, Alone
  <2>2. CASE DropBase(a, "undoBase", "undoRole") \/ DropBase(a, "dropBase", "dropRole")
    BY <2>2, <1>1 DEF DropBase, Step
  <2>3. CASE DropRole(a, "undoRole") \/ DropRole(a, "dropRole")
    BY <2>3, <1>1 DEF DropRole, Step, Finish
  <2>4. CASE DeleteRow(a)
    BY <2>4 DEF DeleteRow, Finish, Distrust
  <2>5. QED
    BY <1>3, <2>1, <2>2, <2>3, <2>4 DEF DropStep
<1>4. CASE DeleteSite \/ CreateSite \/ Restart
  BY <1>4 DEF DeleteSite, CreateSite, Restart, Distrust
<1>5. CASE UNCHANGED vars
  BY <1>5 DEF vars
<1>6. QED
  BY <1>2, <1>3, <1>4, <1>5 DEF Next

\* Whoever finishes with the row trusted leaves it backed.
LEMMA BackedKept ==
  /\ TypeOK /\ AloneInv /\ CreateInv /\ DeleteInv /\ LoneDelete /\ RowIsBacked
  /\ [Next]_vars
  => RowIsBacked'
<1> SUFFICES ASSUME TypeOK, AloneInv, CreateInv, DeleteInv, LoneDelete, RowIsBacked, [Next]_vars,
                    trust' = "row", \A b \in Requests : hpc'[b] = "idle"
             PROVE  RowIsBacked'
  BY DEF RowIsBacked, Idle
<1> USE DEF TypeOK, AloneInv, RowIsBacked, Idle, At, Creating, Deleting, HandlerSteps, Maybe,
        Opens, Nothing, siteVars, serverVars, reqVars
<1>1. ASSUME NEW a \in Requests, NEW pc \in HandlerSteps \ {"idle"}, Step(a, pc) PROVE FALSE
  BY <1>1 DEF Step
<1>2. ASSUME NEW a \in Requests, Refused(a) PROVE FALSE
  BY <1>2 DEF Refused, Distrust
<1>3. ASSUME NEW a \in Requests, CreateStep(a) PROVE RowIsBacked'
  <2>1. CASE BeginCreate(a)
    BY <2>1 DEF BeginCreate, Begin, FirstStep
  <2>2. CASE CreateRole(a) \/ CreateBase(a) \/ Grant(a)
    BY <2>2, <1>1, <1>2 DEF CreateRole, CreateBase, Grant
  <2>3. CASE Commit(a)
    BY <2>3, <1>1 DEF Commit
  <2>4. CASE Refresh(a)
    BY <2>4, <1>1 DEF Refresh, Finish, CreateInv
  <2>5. QED
    BY <1>3, <2>1, <2>2, <2>3, <2>4 DEF CreateStep
<1>4. ASSUME NEW a \in Requests, DropStep(a) PROVE RowIsBacked'
  <2>1. CASE BeginDelete(a)
    BY <2>1 DEF BeginDelete, Begin
  <2>2. CASE DropBase(a, "undoBase", "undoRole") \/ DropBase(a, "dropBase", "dropRole")
    BY <2>2, <1>1, <1>2 DEF DropBase
  <2>3. CASE DropRole(a, "undoRole")
    BY <2>3, <1>2 DEF DropRole, Finish, CreateInv
  <2>4. CASE DropRole(a, "dropRole")
    BY <2>4, <1>1, <1>2 DEF DropRole
  <2>5. CASE DeleteRow(a)
    BY <2>5 DEF DeleteRow, Finish, Distrust, DeleteInv
  <2>6. QED
    BY <1>4, <2>1, <2>2, <2>3, <2>4, <2>5 DEF DropStep
<1>5. CASE DeleteSite
  BY <1>5 DEF DeleteSite
<1>6. CASE CreateSite \/ Restart
  BY <1>6 DEF CreateSite, Restart, Distrust
<1>7. CASE UNCHANGED vars
  BY <1>7 DEF vars
<1>8. QED
  BY <1>3, <1>4, <1>5, <1>6, <1>7 DEF Next

\* The inductive invariant holds in every reachable state.
THEOREM Invariant == Spec => []Inv
<1>1. Init => Inv
  BY TypeInit
     DEF Init, Inv, AloneInv, CreateInv, DeleteInv, LoneDelete, RowIsBacked, Idle, At, Creating,
         Deleting, Nothing
<1>2. Inv /\ [Next]_vars => Inv'
  BY TypeStep, AloneKept, CreateKept, DeleteKept, BackedKept DEF Inv
<1>3. QED
  BY <1>1, <1>2, PTL DEF Spec

\* As long as requests neither meet nor are refused by the server, and no SELECT fails right
\* after a commit, every row is backed; and a lone deletion makes that so again.
THEOREM BackedCorrect == Spec => []RowIsBacked
<1>1. Inv => RowIsBacked
  BY DEF Inv
<1>2. QED
  BY <1>1, Invariant, PTL
=============================================================================
