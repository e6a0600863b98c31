----------------------------- MODULE SiteDatabases -----------------------------
(***************************************************************************)
(* The database of one site on one engine: the SiteDatabase row, and what  *)
(* stands for it on the database server, a database and a role with a      *)
(* password.  Both have names made from the site's, so a site that is      *)
(* deleted and created again meets what its predecessor left.              *)
(*                                                                         *)
(* The REST API and the panel create and delete databases, each statement  *)
(* in a transaction of its own, with no lock.  Site rows are numbered by   *)
(* their births; a row is known by the password whose hash it holds.       *)
(***************************************************************************)
EXTENDS Integers

CONSTANTS
  Passwords,   \* passwords ever drawn; bounds the creations
  NoPassword,
  Requests,    \* threads that serve the REST API, and the event loop of the panel
  MaxBirths,   \* bounds how often the site is created
  Events       \* what the environment may do in this instance

PossibleEvents ==
  {"restart",   \* the panel process is restarted
   "server",    \* the database server refuses a statement
   "db",        \* a commit, or the look at the row after it, fails
   "site"}      \* the site is deleted and created again

ASSUME SiteDatabasesAssumption ==
  /\ NoPassword \notin Passwords
  /\ MaxBirths \in Nat \ {0}
  /\ Events \subseteq PossibleEvents

VARIABLES
  engine,               \* DatabaseEngine
  site, births,         \* the Site row, the number of those so far
  row,                  \* the SiteDatabase row
  base, role, granted,  \* on the server: database, role (its password), privileges
  used,                 \* passwords drawn so far
  hpc, hpw, hbirth,     \* each handler: next step, its password, the site it loaded
  trust                 \* history: why the row may be trusted (see RowIsBacked)

siteVars   == <<site, births>>
serverVars == <<base, role, granted>>
reqVars    == <<hpc, hpw, hbirth>>
vars       == <<engine, siteVars, row, serverVars, used, reqVars, trust>>

Engines == {"postgres", "mysql"}
Maybe == Passwords \cup {NoPassword}

Init ==
  /\ engine \in Engines
  /\ site = "present" /\ births = 1
  /\ row = NoPassword
  /\ base = "absent" /\ role = NoPassword /\ granted = FALSE
  /\ used = {}
  /\ hpc = [a \in Requests |-> "idle"]
  /\ hpw = [a \in Requests |-> NoPassword]
  /\ hbirth = [a \in Requests |-> 0]
  /\ trust = "row"

-----------------------------------------------------------------------------
Idle(a) == hpc[a] = "idle"
Alone(a) == \A b \in Requests : b # a => Idle(b)
Distrust == trust' = "none"

Step(a, pc) == hpc' = [hpc EXCEPT ![a] = pc] /\ UNCHANGED <<hpw, hbirth>>

Finish(a) ==
  /\ hpc' = [hpc EXCEPT ![a] = "idle"]
  /\ hpw' = [hpw EXCEPT ![a] = NoPassword]
  /\ hbirth' = [hbirth EXCEPT ![a] = 0]

Begin(a, pc, pw) ==
  /\ Idle(a) /\ site = "present"
  /\ hpc' = [hpc EXCEPT ![a] = pc]
  /\ hpw' = [hpw EXCEPT ![a] = pw]
  /\ hbirth' = [hbirth EXCEPT ![a] = births]
  /\ UNCHANGED <<engine, siteVars, row, serverVars>>

\* The server refuses the statement of step pc, or somebody else got between the check and
\* the statement it guards; the handler gives up.
Refused(a) ==
  /\ "server" \in Events \/ ~Alone(a)
  /\ Finish(a) /\ Distrust
  /\ UNCHANGED <<engine, siteVars, row, serverVars, used>>

\* PostgreSQL creates the role first, which is to own the database; MySQL grants at the end.
FirstStep == IF engine = "postgres" THEN "role" ELSE "base"

-----------------------------------------------------------------------------
(***************************************************************************)
(* Creating a database.                                                    *)
(***************************************************************************)

\* Mutant: nobody looks for the row.
BeginCreateUnchecked(a) ==
  /\ \E pw \in Passwords \ used : Begin(a, FirstStep, pw) /\ used' = used \cup {pw}
  /\ trust' = IF Alone(a) /\ trust = "row" THEN "row" ELSE "none"

\* The site has no row for this engine yet.
BeginCreate(a) ==
  /\ row = NoPassword
  /\ \E pw \in Passwords \ used : Begin(a, FirstStep, pw) /\ used' = used \cup {pw}
  /\ trust' = IF Alone(a) /\ trust = "row" THEN "row" ELSE "none"

\* A role that is there keeps its password.
CreateRole(a) ==
  /\ hpc[a] = "role"
  /\ \/ /\ role' = IF role = NoPassword THEN hpw[a] ELSE role
        /\ Step(a, IF engine = "postgres" THEN "base" ELSE "grant")
        /\ UNCHANGED <<engine, siteVars, row, base, granted, used, trust>>
     \/ Refused(a)

\* PostgreSQL makes the role the owner, and refuses if it is gone.
CreateBase(a) ==
  /\ hpc[a] = "base"
  /\ \/ /\ engine = "postgres" /\ base = "absent" => role # NoPassword
        /\ base' = "present"
        /\ granted' = IF engine = "postgres" THEN TRUE ELSE granted
        /\ Step(a, IF engine = "postgres" THEN "commit" ELSE "role")
        /\ UNCHANGED <<engine, siteVars, row, role, used, trust>>
     \/ Refused(a)

Grant(a) ==
  /\ hpc[a] = "grant"
  /\ \/ /\ role # NoPassword
        /\ granted' = TRUE
        /\ Step(a, "commit")
        /\ UNCHANGED <<engine, siteVars, row, base, role, used, trust>>
     \/ Refused(a)

\* The site it was created for must still be there, and (db_name, engine) be unique.
Insertable(a) == site = "present" /\ births = hbirth[a] /\ row = NoPassword

\* Mutant: what was created stays when the row cannot be inserted.
CommitWithoutUndo(a) ==
  /\ hpc[a] = "commit"
  /\ \/ Insertable(a) /\ row' = hpw[a] /\ Step(a, "refresh")
     \/ (~Insertable(a) \/ "db" \in Events) /\ UNCHANGED row /\ Finish(a)
  /\ UNCHANGED <<engine, siteVars, serverVars, used, trust>>

\* Insert the row, or go and undo what was created.
Commit(a) ==
  /\ hpc[a] = "commit"
  /\ \/ Insertable(a) /\ row' = hpw[a] /\ Step(a, "refresh")
     \/ (~Insertable(a) \/ "db" \in Events) /\ UNCHANGED row /\ Step(a, "undoBase")
  /\ UNCHANGED <<engine, siteVars, serverVars, used, trust>>

\* Load the row again and hand out the password.  If it is gone, or the SELECT fails, the
\* handler undoes what it created as well, although the row has been committed.
Refresh(a) ==
  /\ hpc[a] = "refresh"
  /\ \/ row = hpw[a] /\ Finish(a) /\ UNCHANGED trust
     \/ (row # hpw[a] \/ "db" \in Events) /\ Step(a, "undoBase") /\ Distrust
  /\ UNCHANGED <<engine, siteVars, row, serverVars, used>>

-----------------------------------------------------------------------------
(***************************************************************************)
(* Deleting one, and undoing a creation that could not be recorded.        *)
(***************************************************************************)

BeginDelete(a) ==
  /\ row # NoPassword
  /\ Begin(a, "dropBase", row)
  /\ trust' = IF Alone(a) THEN (IF trust = "none" THEN "delete" ELSE trust) ELSE "none"
  /\ UNCHANGED used

\* DROP DATABASE IF EXISTS.
DropBase(a, at, next) ==
  /\ hpc[a] = at
  /\ \/ /\ base' = "absent"
        /\ granted' = IF engine = "postgres" THEN FALSE ELSE granted
        /\ Step(a, next)
        /\ UNCHANGED <<engine, siteVars, row, role, used, trust>>
     \/ Refused(a)

\* DROP ROLE, DROP USER IF EXISTS: PostgreSQL keeps a role that owns a database.
DropRole(a, at) ==
  /\ hpc[a] = at
  /\ \/ /\ engine = "postgres" => base = "absent"
        /\ role' = NoPassword /\ granted' = FALSE
        /\ IF at = "undoRole" THEN Finish(a) ELSE Step(a, "deleteRow")
        /\ UNCHANGED <<engine, siteVars, row, base, used, trust>>
     \/ Refused(a)

\* Delete the row it loaded; if that is gone already, SQLAlchemy only warns.
DeleteRow(a) ==
  /\ hpc[a] = "deleteRow"
  /\ Finish(a)
  /\ \/ /\ row' = IF row = hpw[a] THEN NoPassword ELSE row
        /\ trust' = IF trust = "delete" THEN "row" ELSE trust
     \/ "db" \in Events /\ UNCHANGED row /\ Distrust
  /\ UNCHANGED <<engine, siteVars, serverVars, used>>

-----------------------------------------------------------------------------
(***************************************************************************)
(* The site and the panel process.                                         *)
(***************************************************************************)

\* Deleting a site deletes the rows of its databases, and nothing on the servers.
DeleteSite ==
  /\ "site" \in Events /\ site = "present"
  /\ site' = "deleted" /\ row' = NoPassword
  /\ trust' = IF row = NoPassword /\ \A a \in Requests : Idle(a) THEN trust ELSE "none"
  /\ UNCHANGED <<engine, births, serverVars, used, reqVars>>

CreateSite ==
  /\ "site" \in Events /\ site = "deleted" /\ births < MaxBirths
  /\ site' = "present" /\ births' = births + 1
  /\ UNCHANGED <<engine, row, serverVars, used, reqVars, trust>>

Restart ==
  /\ "restart" \in Events
  /\ \E a \in Requests : ~Idle(a)
  /\ hpc' = [a \in Requests |-> "idle"]
  /\ hpw' = [a \in Requests |-> NoPassword]
  /\ hbirth' = [a \in Requests |-> 0]
  /\ Distrust
  /\ UNCHANGED <<engine, siteVars, row, serverVars, used>>

-----------------------------------------------------------------------------
CreateStep(a) ==
  BeginCreate(a) \/ CreateRole(a) \/ CreateBase(a) \/ Grant(a) \/ Commit(a) \/ Refresh(a)

DropStep(a) ==
  \/ DropBase(a, "undoBase", "undoRole") \/ DropRole(a, "undoRole")
  \/ BeginDelete(a) \/ DropBase(a, "dropBase", "dropRole") \/ DropRole(a, "dropRole")
  \/ DeleteRow(a)

Next ==
  \/ \E a \in Requests : CreateStep(a) \/ DropStep(a)
  \/ DeleteSite \/ CreateSite \/ Restart

Spec == Init /\ [][Next]_vars

-----------------------------------------------------------------------------
HandlerSteps == {"idle", "role", "base", "grant", "commit", "refresh", "undoBase",
                 "undoRole", "dropBase", "dropRole", "deleteRow"}

\* Every variable holds a value of its kind.
TypeOK ==
  /\ engine \in Engines
  /\ site \in {"present", "deleted"} /\ births \in 1..MaxBirths
  /\ row \in Maybe /\ role \in Maybe
  /\ base \in {"present", "absent"} /\ granted \in BOOLEAN
  /\ used \subseteq Passwords
  /\ hpc \in [Requests -> HandlerSteps]
  /\ hpw \in [Requests -> Maybe] /\ hbirth \in [Requests -> 0..MaxBirths]
  /\ trust \in {"row", "delete", "none"}

\* A row stands for a database its password opens; without one nothing is on the server.
Opens(pw) == base = "present" /\ role = pw /\ granted
Nothing == base = "absent" /\ role = NoPassword /\ ~granted

\* A row is backed by what is on the server, and without a row nothing is there: also when
\* its commit fails, because the handler then undoes what it created.  Four things end
\* this: requests that meet, a statement the server refuses, a restart or a deletion of the
\* site in between, and a SELECT that fails right after the commit, upon which the handler
\* drops what the committed row stands for (databases.py:73).  Whatever they left, be it a
\* role whose password nobody knows or a row without a database, deleting the database
\* alone brings the agreement back.
RowIsBacked ==
  trust = "row" /\ (\A a \in Requests : Idle(a)) =>
    IF row = NoPassword THEN Nothing ELSE Opens(row)

(***************************************************************************)
(* The inductive invariant behind RowIsBacked.                             *)
(***************************************************************************)
At(a, pcs) == hpc[a] \in pcs
Creating == {"role", "base", "grant", "commit", "refresh", "undoBase", "undoRole"}
Deleting == {"dropBase", "dropRole", "deleteRow"}

\* Whoever is trusted works alone, and on a site that stays.
AloneInv ==
  trust # "none" => \A a, b \in Requests : ~Idle(a) /\ ~Idle(b) => a = b

\* How far a lone request has got fixes what the server holds.
CreateInv ==
  \A a \in Requests : trust = "row" /\ At(a, Creating) =>
    /\ row = IF At(a, {"refresh"}) THEN hpw[a] ELSE NoPassword
    /\ site = "present" /\ births = hbirth[a] /\ hpw[a] # NoPassword
    /\ hpc[a] = FirstStep => Nothing
    /\ engine = "postgres" /\ At(a, {"base"}) => base = "absent" /\ role = hpw[a]
    /\ engine = "mysql" /\ At(a, {"role"}) => base = "present" /\ role = NoPassword
    /\ At(a, {"grant"}) => engine = "mysql" /\ base = "present" /\ role = hpw[a]
    /\ At(a, {"commit", "refresh"}) => Opens(hpw[a])
    /\ At(a, {"undoRole"}) => base = "absent"

DeleteInv ==
  \A a \in Requests : trust # "none" /\ At(a, Deleting) =>
    /\ row = hpw[a] /\ row # NoPassword
    /\ At(a, {"dropRole", "deleteRow"}) => base = "absent"
    /\ At(a, {"deleteRow"}) => Nothing

LoneDelete == trust = "delete" => \E a \in Requests : At(a, Deleting)

Inv == TypeOK /\ AloneInv /\ CreateInv /\ DeleteInv /\ LoneDelete /\ RowIsBacked
=============================================================================
