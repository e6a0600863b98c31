------------------------------ MODULE KnownEntries ------------------------------
(***************************************************************************)
(* What a SharedFile promises about the entries that can be known: they    *)
(* are a table of which each request changes one entry, in the file and in *)
(* the record of it at once.  While an entry is known nothing changes it,  *)
(* neither a request for another key nor a crash; it may stop being known. *)
(***************************************************************************)
CONSTANTS Keys, Values, Absent

VARIABLES record,   \* what the known entries should be: a function of their keys
          entry     \* what they are

tableVars == <<record, entry>>

TableInit ==
  /\ record = [k \in Keys |-> Absent]
  /\ entry = record

\* A request makes its entry known.
Learn(k, v) ==
  /\ k \notin DOMAIN record
  /\ record' = [i \in DOMAIN record \cup {k} |-> IF i = k THEN v ELSE record[i]]
  /\ entry' = [i \in DOMAIN entry \cup {k} |-> IF i = k THEN v ELSE entry[i]]

\* The entries for keys in S are about to change, or have got lost.
Forget(S) ==
  /\ record' = [i \in DOMAIN record \ S |-> record[i]]
  /\ entry' = [i \in DOMAIN entry \ S |-> entry[i]]

TableNext ==
  \/ \E k \in Keys, v \in Values : Learn(k, v)
  \/ \E S \in SUBSET Keys : Forget(S)

TableSpec == TableInit /\ [][TableNext]_tableVars
=================================================================================
