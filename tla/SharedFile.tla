------------------------------- MODULE SharedFile -------------------------------
(***************************************************************************)
(* A file that several handlers rewrite as a whole: each reads every       *)
(* entry, changes the one of its own site, truncates the file and writes   *)
(* all entries back, with no lock.  The system keeps two of them:          *)
(*                                                                         *)
(*   hosts  the DNS records, written by the worker, by the threads of the  *)
(*          REST API and by the panel, whose start-up creates the file;    *)
(*   users  the SFTP accounts, written by the threads of the REST API;     *)
(*          here each entry belongs to an SFTPAccount row.                 *)
(***************************************************************************)
EXTENDS Integers

CONSTANTS
  Keys,        \* host names, or user names: one per site
  NoKey,
  Passwords,   \* passwords in use at one time; bounds the accounts
  Address,     \* the address every DNS record points to
  Absent,      \* no entry
  Threads,     \* threads that serve the REST API
  Worker,      \* the process that runs deploy jobs
  Panel,       \* the event loop of the panel
  Events       \* what the environment may do in this instance

PossibleEvents ==
  {"restart",   \* the panel process, with its threads, is restarted
   "crash",     \* the worker dies
   "disk",      \* the disk is full
   "db",        \* a commit fails
   "site"}      \* a site is deleted, its rows with it

ASSUME SharedFileAssumption ==
  /\ NoKey \notin Keys
  /\ Address \notin Passwords /\ Absent \notin Passwords \cup {Address}
  /\ Worker \notin Threads /\ Panel \notin Threads /\ Worker # Panel
  /\ Events \subseteq PossibleEvents

Requests == Threads \cup {Worker, Panel}
Values == Passwords \cup {Address, Absent}
Contents == [Keys -> Values]
Blank == [k \in Keys |-> Absent]

VARIABLES
  kind,                 \* which of the two files
  there, file,          \* whether the file exists; the entry of each key
  owed,                 \* users: the row of each key, known by its password;
                        \* hosts (history): what the last request for the name asked for
  hpc,                  \* each handler: next step
  hkey, hval, hcopy,    \*   its key, what the entry becomes, all entries it will write
  hold, hgone,          \*   the row it deletes; whether the site it loaded is gone
  trusted,              \* history: keys whose entry may be trusted (see EntriesAreTrue)
  solo                  \* history: whoever is at work has worked alone

fileVars == <<there, file>>
reqVars  == <<hpc, hkey, hval, hcopy, hold, hgone>>
vars     == <<kind, fileVars, owed, reqVars, trusted, solo>>

Kinds == {"hosts", "users"}

Init ==
  /\ kind \in Kinds
  /\ there = FALSE /\ file = Blank /\ owed = Blank
  /\ hpc = [a \in Requests |-> IF a = Panel THEN "boot" ELSE "idle"]
  /\ hkey = [a \in Requests |-> NoKey]
  /\ hval = [a \in Requests |-> Absent] /\ hold = [a \in Requests |-> Absent]
  /\ hcopy = [a \in Requests |-> Blank]
  /\ hgone = [a \in Requests |-> FALSE]
  /\ trusted = Keys /\ solo = TRUE

-----------------------------------------------------------------------------
(***************************************************************************)
(* The life of a request.                                                  *)
(***************************************************************************)
Busy(a) == hpc[a] \notin {"boot", "idle"}
Quiet == \A a \in Requests : ~Busy(a)

\* The panel serves nobody before it has started, which it does in the name of no key.
Starting == hpc[Panel] = "boot" \/ (Busy(Panel) /\ hkey[Panel] = NoKey)
Serving(a) == hpc[a] = "idle" /\ (a # Worker => ~Starting)

\* Requests that meet may undo each other's entries: no entry can be trusted from then on.
Meet == solo' = Quiet /\ trusted' = IF Quiet THEN trusted ELSE {}

Step(a, pc) == hpc' = [hpc EXCEPT ![a] = pc] /\ UNCHANGED <<hkey, hval, hcopy, hold, hgone>>

Clear(S) ==
  /\ hkey' = [a \in Requests |-> IF a \in S THEN NoKey ELSE hkey[a]]
  /\ hval' = [a \in Requests |-> IF a \in S THEN Absent ELSE hval[a]]
  /\ hold' = [a \in Requests |-> IF a \in S THEN Absent ELSE hold[a]]
  /\ hcopy' = [a \in Requests |-> IF a \in S THEN Blank ELSE hcopy[a]]
  /\ hgone' = [a \in Requests |-> IF a \in S THEN FALSE ELSE hgone[a]]

LeaveFor(a, pc) == hpc' = [hpc EXCEPT ![a] = pc] /\ Clear({a})
Leave(a) == LeaveFor(a, "idle")

\* When the handlers in S stop before they are done, nothing can be trusted if one of them
\* has emptied the file, and not the keys whose entries are written without their rows.
Cut(S) ==
  trusted' = IF \E a \in S : hpc[a] = "write"
               THEN {} ELSE trusted \ {hkey[a] : a \in {b \in S : hpc[b] = "commit"}}

\* What a request that met no other has done can be trusted.
Done(a) ==
  /\ Leave(a)
  /\ trusted' = IF solo THEN trusted \cup {hkey[a]} ELSE trusted

Begin(a, k, new, old) ==
  /\ Serving(a)
  /\ hpc' = [hpc EXCEPT ![a] = "read"]
  /\ hkey' = [hkey EXCEPT ![a] = k]
  /\ hval' = [hval EXCEPT ![a] = new]
  /\ hold' = [hold EXCEPT ![a] = old]
  /\ Meet
  /\ UNCHANGED <<kind, fileVars, owed, hcopy, hgone>>

-----------------------------------------------------------------------------
(***************************************************************************)
(* DNS records.                                                            *)
(***************************************************************************)

\* Mutant: the start of the panel does not look for the file.
BootAlways ==
  /\ hpc[Panel] = "boot"
  /\ IF kind = "hosts"
       THEN Step(Panel, "open") /\ Meet
       ELSE Step(Panel, "idle") /\ UNCHANGED <<trusted, solo>>
  /\ UNCHANGED <<kind, fileVars, owed>>

\* The start of the panel creates a file that is not there.
Boot ==
  /\ hpc[Panel] = "boot"
  /\ IF kind = "hosts" /\ ~there
       THEN Step(Panel, "open") /\ Meet
       ELSE Step(Panel, "idle") /\ UNCHANGED <<trusted, solo>>
  /\ UNCHANGED <<kind, fileVars, owed>>

\* add_dns_record: a site was deployed.
AddRecord(a) == kind = "hosts" /\ \E k \in Keys : Begin(a, k, Address, Absent)

\* remove_dns_record: the REST API deletes a site.
RemoveRecord(a) ==
  kind = "hosts" /\ a \in Threads /\ \E k \in Keys : Begin(a, k, Absent, Absent)

-----------------------------------------------------------------------------
(***************************************************************************)
(* SFTP accounts.                                                          *)
(***************************************************************************)
InUse == {file[k] : k \in Keys} \cup {owed[k] : k \in Keys} \cup {hval[a] : a \in Requests}
         \cup {hcopy[a][k] : a \in Requests, k \in Keys}

\* create_sftp_account: the site has no row; the password is a new one.
CreateAccount(a) ==
  /\ kind = "users" /\ a \in Threads
  /\ \E k \in Keys, pw \in Passwords \ InUse : owed[k] = Absent /\ Begin(a, k, pw, Absent)

\* delete_sftp_account: the site has one.
DeleteAccount(a) ==
  /\ kind = "users" /\ a \in Threads
  /\ \E k \in Keys : owed[k] # Absent /\ Begin(a, k, Absent, owed[k])

\* Insert the row, whose user name is unique and whose site must exist, or delete the row
\* that was loaded; if that is gone already, SQLAlchemy only warns.
Commits(a) ==
  IF hval[a] # Absent
    THEN ~hgone[a] /\ owed[hkey[a]] = Absent /\ owed' = [owed EXCEPT ![hkey[a]] = hval[a]]
    ELSE owed' = IF owed[hkey[a]] = hold[a] THEN [owed EXCEPT ![hkey[a]] = Absent] ELSE owed

\* The file has been written; now the row.
Commit(a) ==
  /\ hpc[a] = "commit"
  /\ \/ Commits(a) /\ Done(a)
     \/ /\ "db" \in Events \/ (hval[a] # Absent /\ (hgone[a] \/ owed[hkey[a]] # Absent))
        /\ Leave(a) /\ Cut({a}) /\ UNCHANGED owed
  /\ UNCHANGED <<kind, fileVars, solo>>

-----------------------------------------------------------------------------
(***************************************************************************)
(* Rewriting the file.                                                     *)
(***************************************************************************)

\* Mutant: the entries that are there are not read.
ReadNothing(a) ==
  /\ hpc[a] = "read"
  /\ hcopy' = [hcopy EXCEPT ![a] = [Blank EXCEPT ![hkey[a]] = hval[a]]]
  /\ hpc' = [hpc EXCEPT ![a] = "open"]
  /\ UNCHANGED <<kind, fileVars, owed, hkey, hval, hold, hgone, trusted, solo>>

\* Removing a record that is not there writes nothing.
Read(a) ==
  /\ hpc[a] = "read"
  /\ IF kind = "hosts" /\ hval[a] = Absent /\ file[hkey[a]] = Absent
       THEN Done(a) /\ owed' = [owed EXCEPT ![hkey[a]] = Absent]
       ELSE /\ hcopy' = [hcopy EXCEPT ![a] = [file EXCEPT ![hkey[a]] = hval[a]]]
            /\ hpc' = [hpc EXCEPT ![a] = "open"]
            /\ UNCHANGED <<owed, hkey, hval, hold, hgone, trusted>>
  /\ UNCHANGED <<kind, fileVars, solo>>

\* Mutant: the file is opened without being emptied.
OpenInPlace(a) ==
  /\ hpc[a] = "open"
  /\ there' = TRUE
  /\ Step(a, "write")
  /\ UNCHANGED <<kind, file, owed, trusted, solo>>

\* Opening the file for writing empties it.
Open(a) ==
  /\ hpc[a] = "open"
  /\ there' = TRUE /\ file' = Blank
  /\ Step(a, "write")
  /\ UNCHANGED <<kind, owed, trusted, solo>>

\* What a writes, over what others have written since it emptied the file: a longer file
\* than its own leaves a tail, and a full disk takes only a part of its own.
Written(a) == {[k \in Keys |-> IF k \in kept THEN hcopy[a][k] ELSE file[k]] : kept \in SUBSET Keys}

Write(a) ==
  /\ hpc[a] = "write"
  /\ file' \in IF file = Blank THEN {hcopy[a]} ELSE Written(a)
  /\ CASE kind = "users" -> Step(a, "commit") /\ UNCHANGED <<owed, trusted>>
       [] kind = "hosts" /\ hkey[a] = NoKey -> Leave(a) /\ UNCHANGED <<owed, trusted>>
       [] OTHER -> Done(a) /\ owed' = [owed EXCEPT ![hkey[a]] = hval[a]]
  /\ UNCHANGED <<kind, there, solo>>

\* A full disk lets the file be emptied first.  If it stops the start of the panel, the
\* container starts again.
WriteFails(a) ==
  /\ "disk" \in Events /\ hpc[a] = "write"
  /\ file' \in Written(a)
  /\ LeaveFor(a, IF hkey[a] = NoKey THEN "boot" ELSE "idle") /\ trusted' = {}
  /\ UNCHANGED <<kind, there, owed, solo>>

-----------------------------------------------------------------------------
(***************************************************************************)
(* Processes and sites.                                                    *)
(***************************************************************************)
Crash ==
  /\ "crash" \in Events /\ Busy(Worker)
  /\ Leave(Worker) /\ Cut({Worker})
  /\ UNCHANGED <<kind, fileVars, owed, solo>>

Restart ==
  /\ "restart" \in Events /\ hpc[Panel] # "boot"
  /\ hpc' = [a \in Requests |-> CASE a = Worker -> hpc[a]
                                  [] a = Panel -> "boot"
                                  [] OTHER -> "idle"]
  /\ Clear(Requests \ {Worker}) /\ Cut(Requests \ {Worker})
  /\ UNCHANGED <<kind, fileVars, owed, solo>>

\* The row goes with its site, the entry stays.
DeleteSite ==
  /\ "site" \in Events /\ kind = "users"
  /\ \E k \in Keys :
       /\ owed' = [owed EXCEPT ![k] = Absent]
       /\ trusted' = IF owed[k] = Absent THEN trusted ELSE trusted \ {k}
       /\ hgone' = [a \in Requests |-> hgone[a] \/ hkey[a] = k]
  /\ UNCHANGED <<kind, fileVars, hpc, hkey, hval, hcopy, hold, solo>>

-----------------------------------------------------------------------------
Account(a) == CreateAccount(a) \/ DeleteAccount(a) \/ Commit(a)

Rewrite(a) ==
  AddRecord(a) \/ RemoveRecord(a) \/ Read(a) \/ Open(a) \/ Write(a) \/ WriteFails(a)

Next ==
  \/ Boot
  \/ \E a \in Requests : Account(a) \/ Rewrite(a)
  \/ Crash \/ Restart \/ DeleteSite

Spec == Init /\ [][Next]_vars

-----------------------------------------------------------------------------
HandlerSteps == {"boot", "idle", "read", "open", "write", "commit"}

\* Every variable holds a value of its kind.
TypeOK ==
  /\ kind \in Kinds /\ there \in BOOLEAN
  /\ file \in Contents /\ owed \in Contents
  /\ hpc \in [Requests -> HandlerSteps]
  /\ hkey \in [Requests -> Keys \cup {NoKey}]
  /\ hval \in [Requests -> Values] /\ hold \in [Requests -> Values]
  /\ hcopy \in [Requests -> Contents]
  /\ hgone \in [Requests -> BOOLEAN]
  /\ trusted \subseteq Keys /\ solo \in BOOLEAN

\* As long as requests follow one another, each name has the entry its last request asked
\* for, and each account whose row stands the password of its row: lone requests for other
\* names, restarts, failing commits and crashes between two accesses to the file do not
\* lose it.  When any two requests meet, or one is cut off while the file is empty, that is
\* over for all names, as the code then may lose the entry of any; from there on, a lone
\* request for a name makes its entry true again.  Judged when nobody is at work.
EntriesAreTrue == Quiet => \A k \in trusted : file[k] = owed[k]

\* At every moment, also while a file is empty because its writer has yet to write it, the
\* entries that can be known are a table that lone requests change one entry at a time (see
\* KnownEntries): a request never touches the entries of others, and never its own without
\* the record.  An entry is not known while its request may have changed one of the two.
Known == trusted \ {hkey[a] : a \in {b \in Requests : hpc[b] \in {"write", "commit"}}}
Surviving == IF \E a \in Requests : hpc[a] = "write"
               THEN hcopy[CHOOSE a \in Requests : hpc[a] = "write"] ELSE file
Table == INSTANCE KnownEntries
           WITH record <- [k \in Known |-> owed[k]], entry <- [k \in Known |-> Surviving[k]]
ImplementsTable == Table!TableSpec

(***************************************************************************)
(* The inductive invariant behind EntriesAreTrue.                          *)
(***************************************************************************)

\* Requests that have met leave nothing to trust until all of them are done.
SoloInv ==
  /\ solo => \A a, b \in Requests : Busy(a) /\ Busy(b) => a = b
  /\ trusted # {} /\ ~Quiet => solo

FileInv ==
  /\ ~there => file = Blank
  /\ \A a \in Requests : hpc[a] \in {"write", "commit"} => there
  /\ hpc[Worker] # "boot"
  /\ \A a \in Requests : hpc[a] = "boot" => a = Panel

\* A handler works for a key, unless it creates the file.
KeyInv ==
  \A a \in Requests :
    /\ ~Busy(a) => hkey[a] = NoKey /\ hcopy[a] = Blank
    /\ Busy(a) /\ hkey[a] = NoKey =>
         a = Panel /\ kind = "hosts" /\ hpc[a] # "read" /\ hcopy[a] = Blank
    /\ hpc[a] = "commit" => kind = "users"

\* How far a lone request has got fixes what it will write and what the file holds.
CopyInv ==
  solo => \A a \in Requests : Busy(a) =>
    /\ hpc[a] \in {"read", "open"} => \A k \in trusted : file[k] = owed[k]
    /\ hpc[a] \in {"open", "write"} =>
         /\ \A k \in trusted \ {hkey[a]} : hcopy[a][k] = owed[k]
         /\ hkey[a] # NoKey => hcopy[a][hkey[a]] = hval[a]
    /\ hpc[a] = "write" => file = Blank
    /\ hpc[a] = "commit" =>
         /\ \A k \in trusted \ {hkey[a]} : file[k] = owed[k]
         /\ file[hkey[a]] = hval[a]
    /\ kind = "users" /\ hval[a] = Absent => owed[hkey[a]] \in {hold[a], Absent}

Inv == TypeOK /\ SoloInv /\ FileInv /\ KeyInv /\ CopyInv /\ EntriesAreTrue
=============================================================================
