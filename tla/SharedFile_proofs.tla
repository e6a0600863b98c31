---------------------------- MODULE SharedFile_proofs ----------------------------
(***************************************************************************)
(* Theorems about SharedFile for any number of keys, passwords and         *)
(* threads and every choice of faults.                                     *)
(***************************************************************************)
EXTENDS SharedFile, TLAPS

\* What leaving clears keeps its type.
LEMMA ClearType ==
  ASSUME TypeOK, NEW S \in SUBSET Requests, Clear(S)
  PROVE  /\ hkey' \in [Requests -> Keys \cup {NoKey}]
         /\ hval' \in [Requests -> Values] /\ hold' \in [Requests -> Values]
         /\ hcopy' \in [Requests -> Contents] /\ hgone' \in [Requests -> BOOLEAN]
BY DEF Clear, TypeOK, Contents, Values, Blank

\* Every step keeps every variable in its type.
LEMMA TypeStep == TypeOK /\ KeyInv /\ [Next]_vars => TypeOK'
<1> SUFFICES ASSUME TypeOK, KeyInv, [Next]_vars PROVE TypeOK'
  OBVIOUS
<1> DEFINE Typed ==
      /\ hpc' \in [Requests -> HandlerSteps]
      /\ hkey' \in [Requests -> Keys \cup {NoKey}]
      /\ hval' \in [Requests -> Values] /\ hold' \in [Requests -> Values]
      /\ hcopy' \in [Requests -> Contents] /\ hgone' \in [Requests -> BOOLEAN]
<1> USE DEF fileVars, reqVars
<1>l. ASSUME NEW a \in Requests, NEW pc \in HandlerSteps, LeaveFor(a, pc) PROVE Typed
  BY <1>l, ClearType DEF LeaveFor, TypeOK
<1>1. ASSUME NEW a \in Requests, Leave(a) PROVE Typed
  BY <1>1, <1>l DEF Leave, HandlerSteps
<1>2. ASSUME NEW a \in Requests, NEW pc \in HandlerSteps, Step(a, pc) PROVE Typed
  BY <1>2 DEF Step, TypeOK
<1>3. ASSUME NEW S \in SUBSET Requests, Cut(S) PROVE trusted' \subseteq Keys
  BY <1>3 DEF Cut, TypeOK
<1>4. ASSUME NEW a \in Requests, hkey[a] \in Keys, Done(a) PROVE Typed /\ trusted' \subseteq Keys
  BY <1>1, <1>4 DEF Done, TypeOK
<1>5. ASSUME NEW a \in Requests, NEW k \in Keys, NEW new \in Values, NEW old \in Values,
             Begin(a, k, new, old)
      PROVE  TypeOK'
  BY <1>5 DEF Begin, Meet, Quiet, Busy, TypeOK, HandlerSteps
<1>6. ASSUME NEW a \in Requests, Account(a) PROVE TypeOK'
  <2>1. CASE CreateAccount(a)
    BY <2>1, <1>5 DEF CreateAccount, Values
  <2>2. CASE DeleteAccount(a)
    BY <2>2, <1>5 DEF DeleteAccount, Values, TypeOK, Contents
  <2>3. CASE Commit(a)
    <3>1. hkey[a] \in Keys
      BY <2>3 DEF Commit, KeyInv, Busy, TypeOK, Kinds
    <3>2. owed' \in Contents
      BY <2>3, <3>1 DEF Commit, Commits, TypeOK, Contents, Values
    <3>3. Typed /\ trusted' \subseteq Keys
      BY <2>3, <3>1, <1>1, <1>3, <1>4 DEF Commit
    <3>4. QED
      BY <2>3, <3>2, <3>3 DEF Commit, TypeOK
  <2>4. QED
    BY <1>6, <2>1, <2>2, <2>3 DEF Account
<1>7. ASSUME NEW a \in Requests, Rewrite(a) PROVE TypeOK'
  <2>1. CASE AddRecord(a) \/ RemoveRecord(a)
    BY <2>1, <1>5 DEF AddRecord, RemoveRecord, Values
  <2>2. CASE Read(a)
    <3>1. hkey[a] \in Keys
      BY <2>2 DEF Read, KeyInv, Busy, TypeOK
    <3>2. owed' \in Contents
      BY <2>2, <3>1 DEF Read, TypeOK, Contents, Values
    <3>3. CASE Done(a)
      BY <2>2, <3>1, <3>2, <3>3, <1>4 DEF Read, TypeOK
    <3>4. CASE hcopy' = [hcopy EXCEPT ![a] = [file EXCEPT ![hkey[a]] = hval[a]]]
               /\ hpc' = [hpc EXCEPT ![a] = "open"]
               /\ UNCHANGED <<owed, hkey, hval, hold, hgone, trusted>>
      BY <2>2, <3>4 DEF Read, TypeOK, HandlerSteps, Contents
    <3>5. QED
      BY <2>2, <3>3, <3>4 DEF Read
  <2>3. CASE Open(a)
    BY <2>3, <1>2 DEF Open, TypeOK, HandlerSteps, Contents, Values, Blank
  <2>4. CASE Write(a)
    <3>1. file' \in Contents
      BY <2>4 DEF Write, Written, TypeOK, Contents
    <3>2. CASE Step(a, "commit") /\ UNCHANGED <<owed, trusted>>
      BY <2>4, <3>1, <3>2, <1>2 DEF Write, TypeOK, HandlerSteps
    <3>3. CASE Leave(a) /\ UNCHANGED <<owed, trusted>>
      BY <2>4, <3>1, <3>3, <1>1 DEF Write, TypeOK
    <3>4. CASE hkey[a] # NoKey /\ Done(a) /\ owed' = [owed EXCEPT ![hkey[a]] = hval[a]]
      <4>1. hkey[a] \in Keys
        BY <3>4 DEF TypeOK
      <4>2. owed' \in Contents
        BY <3>4, <4>1 DEF TypeOK, Contents
      <4>3. QED
        BY <2>4, <3>1, <3>4, <4>1, <4>2, <1>4 DEF Write, TypeOK
    <3>5. QED
      BY <2>4, <3>2, <3>3, <3>4 DEF Write, TypeOK, Kinds
  <2>5. CASE WriteFails(a)
    <3>1. PICK pc \in HandlerSteps : LeaveFor(a, pc)
      BY <2>5 DEF WriteFails, HandlerSteps
    <3>2. Typed
      BY <3>1, <1>l
    <3>3. file' \in Contents
      BY <2>5 DEF WriteFails, Written, TypeOK, Contents
    <3>4. /\ trusted' = {}
          /\ UNCHANGED <<kind, there, owed, solo>>
      BY <2>5 DEF WriteFails
    <3>5. QED
      BY <3>2, <3>3, <3>4 DEF TypeOK
  <2>6. QED
    BY <1>7, <2>1, <2>2, <2>3, <2>4, <2>5 DEF Rewrite
<1>8. CASE Boot
  BY <1>8, <1>2 DEF Boot, Meet, Quiet, Busy, TypeOK, HandlerSteps, Requests
<1>9. CASE Crash
  BY <1>9, <1>1, <1>3 DEF Crash, TypeOK, Requests
<1>10. CASE Restart
  BY <1>10, ClearType, <1>3 DEF Restart, TypeOK, HandlerSteps
<1>11. CASE DeleteSite
  BY <1>11 DEF DeleteSite, TypeOK, Contents, Values
<1>12. CASE UNCHANGED vars
  BY <1>12 DEF vars, TypeOK
<1>13. QED
  BY <1>6, <1>7, <1>8, <1>9, <1>10, <1>11, <1>12 DEF Next

\* Handlers take up a key when they begin and put it down when they leave.
LEMMA KeyKept == TypeOK /\ KeyInv /\ FileInv /\ [Next]_vars => KeyInv'
<1> SUFFICES ASSUME TypeOK, KeyInv, FileInv, [Next]_vars PROVE KeyInv'
  OBVIOUS
<1> USE SharedFileAssumption DEF TypeOK, KeyInv, Busy, HandlerSteps, fileVars, reqVars
<1>l. ASSUME NEW a \in Requests, NEW pc \in {"boot", "idle"}, LeaveFor(a, pc), UNCHANGED kind
      PROVE  KeyInv'
  BY <1>l DEF LeaveFor, Clear
<1>1. ASSUME NEW a \in Requests, Leave(a), UNCHANGED kind PROVE KeyInv'
  BY <1>1, <1>l DEF Leave
<1>2. ASSUME NEW a \in Requests, NEW k \in Keys, NEW new, NEW old, Begin(a, k, new, old)
      PROVE  KeyInv'
  BY <1>2 DEF Begin
<1>3. ASSUME NEW a \in Requests, Account(a) PROVE KeyInv'
  BY <1>1, <1>2, <1>3 DEF Account, CreateAccount, DeleteAccount, Commit, Done
<1>4. ASSUME NEW a \in Requests, Rewrite(a) PROVE KeyInv'
  <2>1. CASE AddRecord(a) \/ RemoveRecord(a)
    BY <2>1, <1>2 DEF AddRecord, RemoveRecord
  <2>2. CASE Read(a) /\ Done(a)
    BY <2>2, <1>1 DEF Read, Done
  <2>3. CASE Read(a) /\ ~Done(a)
    BY <2>3 DEF Read
  <2>4. CASE Open(a)
    BY <2>4 DEF Open, Step
  <2>5. CASE Write(a)
    <3>1. CASE kind = "users" /\ Step(a, "commit")
      BY <2>5, <3>1 DEF Write, Step
    <3>2. CASE Leave(a)
      BY <2>5, <3>2, <1>1 DEF Write
    <3>3. QED
      BY <2>5, <3>1, <3>2 DEF Write, Done, Kinds
  <2>6. CASE WriteFails(a)
    BY <2>6, <1>l DEF WriteFails
  <2>7. QED
    BY <1>4, <2>1, <2>2, <2>3, <2>4, <2>5, <2>6 DEF Rewrite
<1>5. CASE Boot
  BY <1>5 DEF Boot, Step, Requests
<1>6. CASE Crash
  BY <1>6, <1>1 DEF Crash, Requests
<1>7. CASE Restart
  BY <1>7 DEF Restart, Clear, Requests
<1>8. CASE DeleteSite
  BY <1>8 DEF DeleteSite
<1>9. CASE UNCHANGED vars
  BY <1>9 DEF vars
<1>10. QED
  BY <1>3, <1>4, <1>5, <1>6, <1>7, <1>8, <1>9 DEF Next

\* A file that is not there has no entries, and only the panel boots.
LEMMA FileKept == TypeOK /\ FileInv /\ KeyInv /\ [Next]_vars => FileInv'
<1> SUFFICES ASSUME TypeOK, FileInv, KeyInv, [Next]_vars PROVE FileInv'
  OBVIOUS
<1>w. Worker \in Requests
  BY DEF Requests
<1> USE <1>w, SharedFileAssumption DEF TypeOK, FileInv, HandlerSteps, fileVars, reqVars
<1>1. ASSUME NEW a \in Requests, hpc' = [hpc EXCEPT ![a] = "idle"], UNCHANGED fileVars PROVE FileInv'
  BY <1>1
<1>2. ASSUME NEW a \in Requests, NEW pc \in {"read", "open"}, hpc' = [hpc EXCEPT ![a] = pc],
             UNCHANGED fileVars
      PROVE  FileInv'
  BY <1>2
<1>3. ASSUME NEW a \in Requests, Account(a) PROVE FileInv'
  <2>1. CASE CreateAccount(a) \/ DeleteAccount(a)
    BY <2>1, <1>2 DEF CreateAccount, DeleteAccount, Begin
  <2>2. CASE Commit(a)
    BY <2>2, <1>1 DEF Commit, Done, Leave, LeaveFor
  <2>3. QED
    BY <1>3, <2>1, <2>2 DEF Account
<1>4. ASSUME NEW a \in Requests, Rewrite(a) PROVE FileInv'
  <2>1. CASE AddRecord(a) \/ RemoveRecord(a)
    BY <2>1, <1>2 DEF AddRecord, RemoveRecord, Begin
  <2>2. CASE Read(a)
    BY <2>2, <1>1, <1>2 DEF Read, Done, Leave, LeaveFor
  <2>3. CASE Open(a)
    BY <2>3 DEF Open, Step
  <2>4. CASE Write(a)
    <3>1. there /\ there'
      BY <2>4 DEF Write
    <3>2. QED
      BY <2>4, <3>1 DEF Write, Step, Done, Leave, LeaveFor
  <2>5. CASE WriteFails(a)
    <3>1. hkey[a] = NoKey => a = Panel
      BY <2>5 DEF WriteFails, KeyInv, Busy
    <3>2. there /\ there'
      BY <2>5 DEF WriteFails
    <3>3. QED
      BY <2>5, <3>1, <3>2 DEF WriteFails, LeaveFor
  <2>6. QED
    BY <1>4, <2>1, <2>2, <2>3, <2>4, <2>5 DEF Rewrite
<1>5. CASE Boot
  BY <1>5 DEF Boot, Step, Requests
<1>6. CASE Crash \/ DeleteSite
  BY <1>6, <1>1 DEF Crash, DeleteSite, Leave, LeaveFor, Requests
<1>7. CASE Restart
  BY <1>7 DEF Restart, Requests
<1>8. CASE UNCHANGED vars
  BY <1>8 DEF vars
<1>9. QED
  BY <1>3, <1>4, <1>5, <1>6, <1>7, <1>8 DEF Next

\* Only beginning makes a handler busy, and notices who else is.
LEMMA SoloKept == TypeOK /\ SoloInv /\ FileInv /\ [Next]_vars => SoloInv'
<1> SUFFICES ASSUME TypeOK, SoloInv, FileInv, [Next]_vars PROVE SoloInv'
  OBVIOUS
<1> USE SharedFileAssumption DEF TypeOK, SoloInv, Busy, Quiet, HandlerSteps, fileVars, reqVars
<1>1. ASSUME NEW a \in Requests, NEW pc \in HandlerSteps, Meet, hpc' = [hpc EXCEPT ![a] = pc]
      PROVE  SoloInv'
  BY <1>1 DEF Meet
<1>2. ASSUME \A a \in Requests : hpc'[a] \notin {"boot", "idle"} => hpc[a] \notin {"boot", "idle"},
             UNCHANGED solo, ~solo => trusted' \subseteq trusted
      PROVE  SoloInv'
  BY <1>2
<1>3. ASSUME NEW a \in Requests, NEW k, NEW new, NEW old, Begin(a, k, new, old) PROVE SoloInv'
  BY <1>1, <1>3 DEF Begin
<1>4. ASSUME NEW a \in Requests, Account(a) PROVE SoloInv'
  BY <1>2, <1>3, <1>4
     DEF Account, CreateAccount, DeleteAccount, Commit, Done, Leave, LeaveFor, Cut
<1>5. ASSUME NEW a \in Requests, Rewrite(a) PROVE SoloInv'
  BY <1>2, <1>3, <1>5
     DEF Rewrite, AddRecord, RemoveRecord, Read, Open, Write, WriteFails, Done, Leave, LeaveFor, Step
<1>6. CASE Boot
  <2>1. CASE Meet /\ Step(Panel, "open")
    BY <2>1, <1>1 DEF Step, Requests
  <2>2. CASE Step(Panel, "idle") /\ UNCHANGED <<trusted, solo>>
    BY <2>2, <1>2 DEF Step, Requests
  <2>3. QED
    BY <1>6, <2>1, <2>2 DEF Boot
<1>7. CASE Crash \/ Restart \/ DeleteSite
  BY <1>7, <1>2 DEF Crash, Restart, DeleteSite, Leave, LeaveFor, Cut, Requests
<1>8. CASE UNCHANGED vars
  BY <1>8 DEF vars
<1>9. QED
  BY <1>4, <1>5, <1>6, <1>7, <1>8 DEF Next

\* A lone request carries the trusted entries of the others through the rewriting.
LEMMA CopyKept ==
  /\ TypeOK /\ SoloInv /\ FileInv /\ KeyInv /\ CopyInv /\ EntriesAreTrue
  /\ [Next]_vars
  => CopyInv'
<1> SUFFICES ASSUME TypeOK, SoloInv, FileInv, KeyInv, CopyInv, EntriesAreTrue, [Next]_vars, solo'
             PROVE  CopyInv'
  BY DEF CopyInv
<1> USE SharedFileAssumption DEF fileVars, reqVars
\* Nobody is at work any more.
<1>1. ASSUME \A a \in Requests : ~Busy(a)' PROVE CopyInv'
  BY <1>1 DEF CopyInv
\* The one at work leaves.
<1>l. ASSUME NEW a \in Requests, NEW pc \in {"boot", "idle"}, Busy(a), solo, LeaveFor(a, pc)
      PROVE  CopyInv'
  BY <1>1, <1>l DEF LeaveFor, SoloInv, Busy, TypeOK
<1>2. ASSUME NEW a \in Requests, Busy(a), solo, Leave(a) PROVE CopyInv'
  BY <1>2, <1>l DEF Leave
\* Somebody else does something.
<1>3. ASSUME solo, UNCHANGED <<kind, file, owed>>, trusted' \subseteq trusted,
             \A a \in Requests : Busy(a)' =>
                hpc'[a] = hpc[a] /\ hkey'[a] = hkey[a] /\ hval'[a] = hval[a]
                /\ hold'[a] = hold[a] /\ hcopy'[a] = hcopy[a]
      PROVE  CopyInv'
  BY <1>3 DEF CopyInv, Busy
<1>4. ASSUME NEW a \in Requests, NEW k \in Keys, NEW new, NEW old, Begin(a, k, new, old),
             kind = "users" /\ new = Absent => old = owed[k]
      PROVE  CopyInv'
  BY <1>4 DEF CopyInv, Begin, Meet, Quiet, Busy, EntriesAreTrue, TypeOK
<1>5. ASSUME NEW a \in Requests, Account(a) PROVE CopyInv'
  <2>1. CASE CreateAccount(a)
    BY <2>1, <1>4 DEF CreateAccount
  <2>2. CASE DeleteAccount(a)
    BY <2>2, <1>4 DEF DeleteAccount
  <2>3. CASE Commit(a)
    BY <2>3, <1>2 DEF Commit, Done, Busy
  <2>4. QED
    BY <1>5, <2>1, <2>2, <2>3 DEF Account
<1>6. ASSUME NEW a \in Requests, Rewrite(a) PROVE CopyInv'
  <2>1. CASE AddRecord(a) \/ RemoveRecord(a)
    BY <2>1, <1>4 DEF AddRecord, RemoveRecord
  <2>2. CASE Read(a)
    <3>1. CASE Done(a)
      BY <2>2, <3>1, <1>2 DEF Read, Done, Busy
    <3>2. CASE ~Done(a)
      <4>1. hkey[a] \in Keys /\ Busy(a)
        BY <2>2 DEF Read, KeyInv, Busy, TypeOK
      <4>2. \A b \in Requests : Busy(b)' => b = a
        BY <2>2, <3>2, <4>1 DEF Read, SoloInv, Busy, TypeOK
      <4>3. QED
        BY <2>2, <3>2, <4>1, <4>2 DEF Read, CopyInv, Busy, TypeOK, Contents
    <3>3. QED
      BY <3>1, <3>2
  <2>3. CASE Open(a)
    <3>1. \A b \in Requests : Busy(b)' => b = a
      BY <2>3 DEF Open, Step, SoloInv, Busy, TypeOK
    <3>2. QED
      BY <2>3, <3>1 DEF Open, Step, CopyInv, Busy, TypeOK
  <2>4. CASE Write(a)
    <3>1. CASE Step(a, "commit") /\ kind = "users" /\ UNCHANGED <<owed, trusted>>
      <4>1. \A b \in Requests : Busy(b)' => b = a
        BY <2>4, <3>1 DEF Write, Step, SoloInv, Busy, TypeOK
      <4>2. file' = hcopy[a] /\ hkey[a] # NoKey
        BY <2>4, <3>1 DEF Write, CopyInv, KeyInv, Busy
      <4>3. QED
        BY <2>4, <3>1, <4>1, <4>2 DEF Write, Step, CopyInv, Busy, TypeOK
    <3>2. CASE Leave(a)
      BY <2>4, <3>2, <1>2 DEF Write, Busy
    <3>3. QED
      BY <2>4, <3>1, <3>2 DEF Write, Done
  <2>5. CASE WriteFails(a)
    BY <2>5, <1>l DEF WriteFails, Busy
  <2>6. QED
    BY <1>6, <2>1, <2>2, <2>3, <2>4, <2>5 DEF Rewrite
<1>7. CASE Boot
  <2>1. CASE kind = "hosts" /\ ~there /\ Step(Panel, "open") /\ Meet
    <3>1. Quiet /\ Panel \in Requests
      BY <2>1 DEF Meet, Requests
    <3>2. \A b \in Requests : Busy(b)' => b = Panel
      BY <2>1, <3>1 DEF Step, Quiet, Busy, TypeOK
    <3>3. hkey[Panel] = NoKey /\ hcopy[Panel] = Blank /\ file = Blank
      BY <2>1, <3>1 DEF Quiet, KeyInv, FileInv
    <3>4. QED
      BY <1>7, <2>1, <3>1, <3>2, <3>3 DEF Boot, Step, Meet, CopyInv, EntriesAreTrue, Busy, TypeOK
  <2>2. CASE Step(Panel, "idle") /\ UNCHANGED <<trusted, solo>>
    BY <1>7, <2>2, <1>3 DEF Boot, Step, Busy, TypeOK, Requests
  <2>3. QED
    BY <1>7, <2>1, <2>2 DEF Boot
<1>8. CASE Crash
  BY <1>8, <1>2 DEF Crash, Requests
<1>9. CASE Restart
  <2>1. trusted' \subseteq trusted
    BY <1>9 DEF Restart, Cut
  <2>2. QED
    BY <1>9, <2>1, <1>3 DEF Restart, Clear, Busy, Requests
<1>10. CASE DeleteSite
  <2>1. \A k \in trusted' : k \in trusted /\ owed'[k] = owed[k]
    BY <1>10 DEF DeleteSite, TypeOK, Contents
  <2>2. \A k \in Keys : owed'[k] \in {owed[k], Absent}
    BY <1>10 DEF DeleteSite, TypeOK, Contents
  <2>3. \A a \in Requests : kind = "users" /\ Busy(a) => hkey[a] \in Keys
    BY DEF KeyInv, TypeOK
  <2>4. UNCHANGED <<kind, fileVars, hpc, hkey, hval, hcopy, hold, solo>>
    BY <1>10 DEF DeleteSite
  <2>5. QED
    BY <2>1, <2>2, <2>3, <2>4 DEF CopyInv, Busy
<1>11. CASE UNCHANGED vars
  BY <1>11 DEF vars, CopyInv, Busy
<1>12. QED
  BY <1>5, <1>6, <1>7, <1>8, <1>9, <1>10, <1>11 DEF Next

\* Whoever leaves the file quiet leaves every trusted entry true.
LEMMA EntriesKept ==
  /\ TypeOK /\ SoloInv /\ FileInv /\ KeyInv /\ CopyInv /\ EntriesAreTrue
  /\ [Next]_vars
  => EntriesAreTrue'
<1> SUFFICES ASSUME TypeOK, SoloInv, FileInv, KeyInv, CopyInv, EntriesAreTrue, [Next]_vars, Quiet'
             PROVE  \A k \in trusted' : file'[k] = owed'[k]
  BY DEF EntriesAreTrue
<1> USE SharedFileAssumption DEF fileVars, reqVars
\* Those who have met leave nothing to trust.
<1>1. ASSUME NEW a \in Requests, Busy(a), ~solo PROVE trusted = {}
  BY <1>1 DEF SoloInv, Quiet
<1>2. ASSUME NEW a \in Requests, NEW pc \in {"read", "open", "write", "commit"}, hpc'[a] = pc
      PROVE  FALSE
  BY <1>2 DEF Quiet, Busy
\* A handler that is cut off leaves what can be trusted true.
<1>3. ASSUME NEW S \in SUBSET Requests, Cut(S), UNCHANGED <<file, owed>>,
             \A a \in Requests : Busy(a) => a \in S
      PROVE  \A k \in trusted' : file'[k] = owed'[k]
  <2>1. CASE Quiet
    BY <1>3, <2>1 DEF Cut, EntriesAreTrue
  <2>2. CASE ~solo /\ ~Quiet
    BY <1>3, <2>2 DEF Cut, SoloInv
  <2>3. ASSUME solo, NEW a \in Requests, Busy(a) PROVE \A k \in trusted' : file'[k] = owed'[k]
    <3>1. hpc[a] \in {"read", "open", "write", "commit"}
      BY <2>3 DEF Busy, TypeOK, HandlerSteps
    <3>2. CASE hpc[a] \in {"read", "open"}
      BY <1>3, <2>3, <3>2 DEF Cut, CopyInv
    <3>3. CASE hpc[a] = "write"
      BY <1>3, <2>3, <3>3 DEF Cut
    <3>4. CASE hpc[a] = "commit"
      BY <1>3, <2>3, <3>4 DEF Cut, CopyInv
    <3>5. QED
      BY <3>1, <3>2, <3>3, <3>4
  <2>4. QED
    BY <2>1, <2>2, <2>3 DEF Quiet
<1>4. ASSUME NEW a \in Requests, Busy(a), Leave(a), Cut({a}), UNCHANGED <<file, owed>>
      PROVE  \A k \in trusted' : file'[k] = owed'[k]
  <2>1. \A b \in Requests : Busy(b) => b = a
    BY <1>4 DEF Leave, LeaveFor, Quiet, Busy, TypeOK
  <2>2. QED
    BY <1>3, <1>4, <2>1
<1>5. ASSUME NEW a \in Requests, Account(a) PROVE \A k \in trusted' : file'[k] = owed'[k]
  <2>1. CASE CreateAccount(a) \/ DeleteAccount(a)
    BY <2>1, <1>2 DEF CreateAccount, DeleteAccount, Begin, TypeOK
  <2>2. CASE Commit(a) /\ Commits(a) /\ Done(a)
    <3>1. hkey[a] \in Keys /\ Busy(a) /\ kind = "users"
      BY <2>2 DEF Commit, KeyInv, Busy, TypeOK
    <3>2. CASE ~solo
      BY <2>2, <3>1, <3>2, <1>1 DEF Done
    <3>3. CASE solo
      <4>1. owed' = [owed EXCEPT ![hkey[a]] = hval[a]] \/ (owed' = owed /\ hval[a] = owed[hkey[a]])
        BY <2>2, <3>1, <3>3 DEF Commits, CopyInv
      <4>2. /\ \A k \in trusted \ {hkey[a]} : file[k] = owed[k]
            /\ file[hkey[a]] = hval[a]
        BY <2>2, <3>1, <3>3 DEF Commit, CopyInv
      <4>3. QED
        BY <2>2, <3>1, <3>3, <4>1, <4>2 DEF Commit, Done, TypeOK, Contents
    <3>4. QED
      BY <3>2, <3>3
  <2>3. CASE Commit(a) /\ ~(Commits(a) /\ Done(a))
    BY <2>3, <1>4 DEF Commit, Busy
  <2>4. QED
    BY <1>5, <2>1, <2>2, <2>3 DEF Account
<1>6. ASSUME NEW a \in Requests, Rewrite(a) PROVE \A k \in trusted' : file'[k] = owed'[k]
  <2>1. CASE AddRecord(a) \/ RemoveRecord(a)
    BY <2>1, <1>2 DEF AddRecord, RemoveRecord, Begin, TypeOK
  <2>2. CASE Read(a)
    <3>1. hkey[a] \in Keys /\ Busy(a)
      BY <2>2 DEF Read, KeyInv, Busy, TypeOK
    <3>2. Done(a) /\ file[hkey[a]] = Absent /\ owed' = [owed EXCEPT ![hkey[a]] = Absent] /\ file' = file
      BY <2>2, <1>2 DEF Read, TypeOK
    <3>3. CASE ~solo
      BY <3>1, <3>2, <3>3, <1>1 DEF Done
    <3>4. CASE solo
      BY <2>2, <3>1, <3>2, <3>4 DEF Read, Done, CopyInv, TypeOK, Contents
    <3>5. QED
      BY <3>3, <3>4
  <2>3. CASE Open(a)
    BY <2>3, <1>2 DEF Open, Step, TypeOK
  <2>4. CASE Write(a)
    <3>1. Busy(a) /\ hpc[a] = "write"
      BY <2>4 DEF Write, Busy
    <3>2. CASE ~solo
      BY <2>4, <3>1, <3>2, <1>1, <1>2 DEF Write, Done, Step, TypeOK
    <3>3. CASE solo
      <4>1. file' = hcopy[a] /\ \A k \in trusted \ {hkey[a]} : hcopy[a][k] = owed[k]
        BY <2>4, <3>1, <3>3 DEF Write, CopyInv
      <4>2. CASE hkey[a] = NoKey /\ UNCHANGED <<owed, trusted>>
        BY <4>1, <4>2 DEF TypeOK
      <4>3. CASE hkey[a] # NoKey /\ Done(a) /\ owed' = [owed EXCEPT ![hkey[a]] = hval[a]]
        <5>1. hkey[a] \in Keys /\ hcopy[a][hkey[a]] = hval[a]
          BY <3>1, <3>3, <4>3 DEF CopyInv, TypeOK
        <5>2. QED
          BY <3>3, <4>1, <4>3, <5>1 DEF Done, TypeOK, Contents
      <4>4. ~Step(a, "commit")
        BY <1>2 DEF Step, TypeOK
      <4>5. QED
        BY <2>4, <4>2, <4>3, <4>4 DEF Write, TypeOK, Kinds
    <3>4. QED
      BY <3>2, <3>3
  <2>5. CASE WriteFails(a)
    BY <2>5 DEF WriteFails, LeaveFor
  <2>6. QED
    BY <1>6, <2>1, <2>2, <2>3, <2>4, <2>5 DEF Rewrite
<1>7. CASE Boot
  <2>1. Quiet /\ UNCHANGED <<trusted, file, owed>>
    BY <1>7, <1>2 DEF Boot, Step, Quiet, Busy, TypeOK, Requests
  <2>2. QED
    BY <2>1 DEF EntriesAreTrue
<1>8. CASE Crash
  BY <1>8, <1>4 DEF Crash, Requests
<1>9. CASE Restart
  <2>1. ~Busy(Worker)
    BY <1>9 DEF Restart, Quiet, Busy, Requests
  <2>2. QED
    BY <1>9, <2>1, <1>3 DEF Restart
<1>10. CASE DeleteSite
  BY <1>10 DEF DeleteSite, EntriesAreTrue, Quiet, Busy, TypeOK, Contents
<1>11. CASE UNCHANGED vars
  BY <1>11 DEF vars, EntriesAreTrue, Quiet, Busy
<1>12. QED
  BY <1>5, <1>6, <1>7, <1>8, <1>9, <1>10, <1>11 DEF Next

\* The inductive invariant holds in every reachable state.
THEOREM Invariant == Spec => []Inv
<1>1. Init => Inv
  <2> SUFFICES ASSUME Init PROVE Inv
    OBVIOUS
  <2>1. hpc \in [Requests -> HandlerSteps]
    BY DEF Init, HandlerSteps
  <2>2. TypeOK
    BY <2>1 DEF Init, TypeOK, Contents, Values, Blank
  <2>3. Quiet
    BY DEF Init, Quiet, Busy
  <2>4. SoloInv /\ KeyInv /\ CopyInv /\ EntriesAreTrue
    BY <2>3 DEF Init, SoloInv, KeyInv, CopyInv, EntriesAreTrue, Quiet, Busy
  <2>5. FileInv
    BY SharedFileAssumption DEF Init, FileInv, Requests
  <2>6. QED
    BY <2>2, <2>4, <2>5 DEF Inv
<1>2. Inv /\ [Next]_vars => Inv'
  BY TypeStep, KeyKept, FileKept, SoloKept, CopyKept, EntriesKept DEF Inv
<1>3. QED
  BY <1>1, <1>2, PTL DEF Spec

\* Type correctness: every reachable state of the file and its writers is well formed.
THEOREM TypeCorrect == Spec => []TypeOK
<1>1. Inv => TypeOK
  BY DEF Inv
<1>2. QED
  BY <1>1, Invariant, PTL

\* As long as requests follow one another and none is cut off while the file is empty, each
\* name has the entry its last request asked for, an SFTP account the password of its row;
\* after a meeting or a cut that holds again of each name from its next lone request on.
THEOREM EntriesCorrect == Spec => []EntriesAreTrue
<1>1. Inv => EntriesAreTrue
  BY DEF Inv
<1>2. QED
  BY <1>1, Invariant, PTL

-----------------------------------------------------------------------------
InFlight(a) == hpc[a] \in {"write", "commit"}

\* What is known, and where it survives, at rest and while a lone request is at work.
LEMMA KnownIs ==
  ASSUME Inv
  PROVE  /\ Quiet => Known = trusted /\ Surviving = file
         /\ ~Quiet /\ ~solo => trusted = {}
         /\ \A a \in Requests : solo /\ Busy(a) =>
              /\ Known = IF InFlight(a) THEN trusted \ {hkey[a]} ELSE trusted
              /\ Surviving = IF hpc[a] = "write" THEN hcopy[a] ELSE file
<1> USE DEF Inv, Known, Surviving, InFlight
<1>1. Quiet => Known = trusted /\ Surviving = file
  BY DEF Quiet, Busy
<1>2. ~Quiet /\ ~solo => trusted = {}
  BY DEF SoloInv
<1>3. ASSUME NEW a \in Requests, solo, Busy(a)
      PROVE  /\ Known = IF InFlight(a) THEN trusted \ {hkey[a]} ELSE trusted
             /\ Surviving = IF hpc[a] = "write" THEN hcopy[a] ELSE file
  <2>1. \A b \in Requests : b # a => ~Busy(b) /\ ~InFlight(b) /\ hpc[b] # "write"
    BY <1>3 DEF SoloInv, Busy
  <2>2. Known = IF InFlight(a) THEN trusted \ {hkey[a]} ELSE trusted
    BY <2>1
  <2>3. CASE hpc[a] = "write"
    <3>1. (CHOOSE b \in Requests : hpc[b] = "write") = a
      BY <2>1, <2>3
    <3>2. QED
      BY <2>2, <2>3, <3>1
  <2>4. CASE hpc[a] # "write"
    BY <2>1, <2>2, <2>4
  <2>5. QED
    BY <2>3, <2>4
<1>4. QED
  BY <1>1, <1>2, <1>3

\* A known entry is what it should be.
LEMMA KnownIsTrue == Inv => \A k \in Known : k \in Keys /\ Surviving[k] = owed[k]
<1> SUFFICES ASSUME Inv, NEW k \in Known PROVE k \in Keys /\ Surviving[k] = owed[k]
  OBVIOUS
<1>1. k \in trusted /\ k \in Keys
  BY DEF Known, Inv, TypeOK
<1>2. CASE Quiet
  BY <1>1, <1>2, KnownIs DEF Inv, EntriesAreTrue
<1>3. ASSUME NEW a \in Requests, Busy(a), solo PROVE Surviving[k] = owed[k]
  <2>1. hpc[a] \in {"read", "open", "write", "commit"}
    BY <1>3 DEF Busy, Inv, TypeOK, HandlerSteps
  <2>2. CASE hpc[a] \in {"read", "open"}
    BY <1>1, <1>3, <2>2, KnownIs DEF Inv, CopyInv
  <2>3. CASE InFlight(a)
    <3>1. k # hkey[a]
      BY <1>3, <2>3, KnownIs
    <3>2. QED
      BY <1>1, <1>3, <2>3, <3>1, KnownIs DEF Inv, CopyInv, InFlight
  <2>4. QED
    BY <2>1, <2>2, <2>3 DEF InFlight
<1>4. QED
  BY <1>1, <1>2, <1>3, KnownIs DEF Quiet

\* Every step makes at most one more entry known, and changes none that is and stays known.
LEMMA KnownStep ==
  ASSUME Inv, Inv', [Next]_vars
  PROVE  /\ Known' \subseteq Known \/ (\E k \in Keys \ Known : Known' = Known \cup {k})
         /\ \A i \in Known \cap Known' : owed'[i] = owed[i]
<1> DEFINE Kept == Known' \subseteq Known /\ \A i \in Known' : owed'[i] = owed[i]
           Learnt(k) == /\ k \in Keys \ Known /\ Known' = Known \cup {k}
                        /\ \A i \in Known : owed'[i] = owed[i]
<1> SUFFICES Kept \/ \E k \in Keys : Learnt(k)
  OBVIOUS
<1> USE SharedFileAssumption DEF fileVars, reqVars, Inv, InFlight
\* No entry gets known by a step that trusts no more than before.
<1>1. ASSUME trusted' \subseteq trusted, \A k \in trusted' : owed'[k] = owed[k],
             \A b \in Requests : InFlight(b) =>
                (InFlight(b)' /\ hkey'[b] = hkey[b]) \/ hkey[b] \notin trusted'
      PROVE  Kept
  <2>1. Known' \subseteq trusted' /\ \A b \in Requests : InFlight(b)' => hkey'[b] \notin Known'
    BY DEF Known
  <2>2. \A b \in Requests : InFlight(b) => hkey[b] \notin Known'
    BY <1>1, <2>1
  <2>3. Known' \subseteq Known
    BY <1>1, <2>1, <2>2 DEF Known
  <2>4. QED
    BY <1>1, <2>1, <2>3
<1>2. ASSUME NEW a \in Requests, NEW k, NEW new, NEW old, Begin(a, k, new, old) PROVE Kept
  <2>1. \A b \in Requests : InFlight(b) => b # a /\ InFlight(b)' /\ hkey'[b] = hkey[b]
    BY <1>2 DEF Begin, Serving, Starting, TypeOK
  <2>2. QED
    BY <1>1, <1>2, <2>1 DEF Begin, Meet
<1>3. ASSUME NEW S \in SUBSET Requests, Cut(S), UNCHANGED owed,
             \A b \in Requests \ S : hpc'[b] = hpc[b] /\ hkey'[b] = hkey[b]
      PROVE  Kept
  BY <1>1, <1>3 DEF Cut
\* A lone request ends well.
<1>4. ASSUME NEW a \in Requests, Busy(a), Done(a), hkey[a] \in Keys,
             \A i \in Keys \ {hkey[a]} : owed'[i] = owed[i],
             InFlight(a) \/ owed'[hkey[a]] = file[hkey[a]]
      PROVE  Kept \/ \E k \in Keys : Learnt(k)
  <2>1. CASE ~solo
    <3>1. trusted' = {}
      BY <1>4, <2>1, KnownIs DEF Done, Quiet
    <3>2. QED
      BY <3>1 DEF Known
  <2>2. CASE solo
    <3>1. \A b \in Requests : ~InFlight(b)'
      BY <1>4, <2>2 DEF Done, Leave, LeaveFor, SoloInv, Busy, TypeOK
    <3>2. trusted' = trusted \cup {hkey[a]} /\ Known' = trusted \cup {hkey[a]}
      BY <1>4, <2>2, <3>1 DEF Done, Known
    <3>3. CASE InFlight(a)
      <4>1. Known = trusted \ {hkey[a]}
        BY <1>4, <2>2, <3>3, KnownIs
      <4>2. Learnt(hkey[a])
        BY <1>4, <3>2, <4>1 DEF TypeOK
      <4>3. QED
        BY <1>4, <4>2
    <3>4. CASE ~InFlight(a) /\ hkey[a] \notin trusted
      <4>1. Known = trusted
        BY <1>4, <2>2, <3>4, KnownIs
      <4>2. Learnt(hkey[a])
        BY <1>4, <3>2, <3>4, <4>1 DEF TypeOK
      <4>3. QED
        BY <1>4, <4>2
    <3>5. CASE ~InFlight(a) /\ hkey[a] \in trusted
      <4>1. Known = trusted /\ Surviving = file
        BY <1>4, <2>2, <3>5, KnownIs
      <4>2. owed'[hkey[a]] = owed[hkey[a]]
        BY <1>4, <3>5, <4>1, KnownIsTrue
      <4>3. QED
        BY <1>4, <3>2, <3>5, <4>1, <4>2 DEF TypeOK
    <3>6. QED
      BY <3>3, <3>4, <3>5
  <2>3. QED
    BY <2>1, <2>2
<1>5. ASSUME NEW a \in Requests, Account(a) PROVE Kept \/ \E k \in Keys : Learnt(k)
  <2>1. CASE CreateAccount(a) \/ DeleteAccount(a)
    BY <2>1, <1>2 DEF CreateAccount, DeleteAccount
  <2>2. CASE Commit(a)
    <3>1. hkey[a] \in Keys /\ Busy(a) /\ InFlight(a)
      BY <2>2 DEF Commit, KeyInv, Busy, TypeOK
    <3>2. CASE Commits(a) /\ Done(a)
      BY <3>1, <3>2, <1>4 DEF Commits, TypeOK, Contents
    <3>3. CASE Leave(a) /\ Cut({a}) /\ UNCHANGED owed
      BY <3>3, <1>3 DEF Leave, LeaveFor, Clear, TypeOK
    <3>4. QED
      BY <2>2, <3>2, <3>3 DEF Commit
  <2>3. QED
    BY <1>5, <2>1, <2>2 DEF Account
<1>6. ASSUME NEW a \in Requests, Rewrite(a) PROVE Kept \/ \E k \in Keys : Learnt(k)
  <2>1. CASE AddRecord(a) \/ RemoveRecord(a)
    BY <2>1, <1>2 DEF AddRecord, RemoveRecord
  <2>2. CASE Read(a)
    <3>1. hkey[a] \in Keys /\ Busy(a) /\ ~InFlight(a)
      BY <2>2 DEF Read, KeyInv, Busy, TypeOK
    <3>2. CASE Done(a) /\ file[hkey[a]] = Absent /\ owed' = [owed EXCEPT ![hkey[a]] = Absent]
      BY <3>1, <3>2, <1>4 DEF TypeOK, Contents
    <3>3. CASE hpc' = [hpc EXCEPT ![a] = "open"] /\ UNCHANGED <<owed, hkey, trusted>>
      BY <3>1, <3>3, <1>1 DEF TypeOK
    <3>4. QED
      BY <2>2, <3>2, <3>3 DEF Read
  <2>3. CASE Open(a)
    BY <2>3, <1>1 DEF Open, Step, TypeOK
  <2>4. CASE Write(a)
    <3>1. Busy(a) /\ InFlight(a)
      BY <2>4 DEF Write, Busy
    <3>2. CASE Step(a, "commit") /\ UNCHANGED <<owed, trusted>>
      BY <3>1, <3>2, <1>1 DEF Step, TypeOK
    <3>3. CASE hkey[a] = NoKey /\ Leave(a) /\ UNCHANGED <<owed, trusted>>
      BY <3>3, <1>1 DEF Leave, LeaveFor, Clear, TypeOK
    <3>4. CASE hkey[a] # NoKey /\ Done(a) /\ owed' = [owed EXCEPT ![hkey[a]] = hval[a]]
      BY <3>1, <3>4, <1>4 DEF TypeOK, Contents
    <3>5. hkey[a] # NoKey \/ kind = "hosts"
      BY <3>1 DEF KeyInv
    <3>6. QED
      BY <2>4, <3>2, <3>3, <3>4, <3>5 DEF Write, TypeOK, Kinds
  <2>5. CASE WriteFails(a)
    BY <2>5 DEF WriteFails, LeaveFor, Known
  <2>6. QED
    BY <1>6, <2>1, <2>2, <2>3, <2>4, <2>5 DEF Rewrite
<1>7. CASE Boot
  <2>1. \A b \in Requests : InFlight(b) => InFlight(b)' /\ hkey'[b] = hkey[b]
    BY <1>7 DEF Boot, Step, TypeOK
  <2>2. QED
    BY <1>7, <2>1, <1>1 DEF Boot, Meet
<1>8. CASE Crash
  BY <1>8, <1>3 DEF Crash, Leave, LeaveFor, Clear, TypeOK, Requests
<1>9. CASE Restart
  BY <1>9, <1>3 DEF Restart, Clear, Requests
<1>10. CASE DeleteSite
  <2>1. \A k \in trusted' : k \in trusted /\ owed'[k] = owed[k]
    BY <1>10 DEF DeleteSite, TypeOK, Contents
  <2>2. QED
    BY <1>10, <2>1, <1>1 DEF DeleteSite
<1>11. CASE UNCHANGED vars
  BY <1>11, <1>1 DEF vars
<1>12. QED
  BY <1>5, <1>6, <1>7, <1>8, <1>9, <1>10, <1>11 DEF Next

\* Every step of the file is a step of KnownEntries, or leaves the known entries alone.
LEMMA TableStep == Inv /\ Inv' /\ [Next]_vars => [Table!TableNext]_(Table!tableVars)
<1> DEFINE record == [k \in Known |-> owed[k]]
           entry == [k \in Known |-> Surviving[k]]
<1>0. Inv' => (\A k \in Known : k \in Keys /\ Surviving[k] = owed[k])'
  BY KnownIsTrue, PTL
<1> SUFFICES ASSUME Inv, Inv', [Next]_vars PROVE Table!TableNext
  OBVIOUS
<1>1. DOMAIN record = Known /\ DOMAIN entry = Known
  OBVIOUS
<1>2. \A k \in Known : k \in Keys /\ Surviving[k] = owed[k]
  BY KnownIsTrue
<1>3. \A k \in Known' : k \in Keys /\ Surviving'[k] = owed'[k]
  BY <1>0
<1>4. \A i \in Known \cap Known' : owed'[i] = owed[i]
  BY KnownStep
<1>5. CASE Known' \subseteq Known
  <2>1. PICK S \in SUBSET Keys : S = Known \ Known'
    BY <1>2
  <2>2. Table!Forget(S)
    BY <1>1, <1>2, <1>3, <1>4, <1>5, <2>1 DEF Table!Forget
  <2>3. QED
    BY <2>2 DEF Table!TableNext
<1>6. ASSUME NEW k \in Keys \ Known, Known' = Known \cup {k} PROVE Table!TableNext
  <2>1. PICK v \in Values : v = owed'[k]
    BY DEF Inv, TypeOK, Contents
  <2>2. Table!Learn(k, v)
    BY <1>1, <1>2, <1>3, <1>4, <1>6, <2>1 DEF Table!Learn
  <2>3. QED
    BY <2>2, <1>6 DEF Table!TableNext
<1>7. QED
  BY <1>5, <1>6, KnownStep

\* A request that meets no other changes its entry and the record of it as one, and no
\* request, crash, restart or deletion changes an entry that is and stays known.
THEOREM TableRefinement == Spec => ImplementsTable
<1>1. Init => Table!TableInit
  <2> SUFFICES ASSUME Init PROVE Table!TableInit
    OBVIOUS
  <2>1. Known = Keys /\ Surviving = Blank
    BY DEF Init, Known, Surviving
  <2>2. QED
    BY <2>1 DEF Init, Blank, Table!TableInit
<1>2. Inv /\ Inv' /\ [Next]_vars => [Table!TableNext]_(Table!tableVars)
  BY TableStep
<1>3. QED
  BY <1>1, <1>2, Invariant, PTL DEF Spec, ImplementsTable, Table!TableSpec
=============================================================================
