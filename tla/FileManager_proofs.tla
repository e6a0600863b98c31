--------------------------- MODULE FileManager_proofs ---------------------------
(***************************************************************************)
(* Theorems about FileManager, for any names, contents and events.         *)
(*                                                                         *)
(* The argument: what a request checked depends on the entries its names   *)
(* lead through.  As long as nobody else changes one of these, the route   *)
(* and the entry at its end stay, so the checks still hold when the        *)
(* request acts (ChecksStand), and both properties follow.  Every route    *)
(* has at most one end.                                                    *)
(***************************************************************************)
EXTENDS FileManager, TLAPS

\* Links in a directory d, to speak of the directory before and after a step.
ClosedIn(d, S) == \A m \in S : d[m].type = "link" => d[m].to \in S

RouteIn(d, n) == {m \in Names : \A S \in SUBSET Names : n \in S /\ ClosedIn(d, S) => m \in S}

EndsIn(d, n) == {m \in RouteIn(d, n) : d[m].type # "link"}

Dirs == [Names -> Nodes]

USE DEF Inside

-----------------------------------------------------------------------------
(***************************************************************************)
(* Entries.                                                                *)
(***************************************************************************)

\* Which values an entry has: only links lead somewhere, and only files and folders hold contents.
LEMMA NodeFacts ==
  ASSUME NEW v \in Nodes
  PROVE  /\ v.type \in {"none", "torn", "file", "folder", "link"}
         /\ v.holds \subseteq Contents
         /\ v.type = "link" => v.to \in Names
         /\ v.type \in {"none", "torn", "link"} => v.holds = {}
  BY DEF Nodes, Foreign, Nothing, TornFile, File, Folder, Link

\* The entries the actions put are entries.
LEMMA NodesMade ==
  /\ Nothing \in Nodes /\ TornFile \in Nodes
  /\ Nothing.type = "none" /\ TornFile.type = "torn"
  /\ \A c \in Contents : File(c) \in Nodes /\ File(c).type = "file"
  /\ \A S \in SUBSET Contents : Folder(S) \in Nodes /\ Folder(S).type = "folder"
  BY DEF Nodes, Foreign, Nothing, TornFile, File, Folder

-----------------------------------------------------------------------------
(***************************************************************************)
(* Routes.                                                                 *)
(***************************************************************************)

\* A route starts at its name and is closed under following links ...
LEMMA RouteClosed ==
  ASSUME NEW d \in Dirs, NEW n \in Names
  PROVE  /\ RouteIn(d, n) \subseteq Names /\ n \in RouteIn(d, n)
         /\ ClosedIn(d, RouteIn(d, n))
<1>1. RouteIn(d, n) \subseteq Names /\ n \in RouteIn(d, n)
  BY DEF RouteIn
<1>2. ASSUME NEW m \in RouteIn(d, n), d[m].type = "link" PROVE d[m].to \in RouteIn(d, n)
  <2>1. d[m] \in Nodes /\ d[m].to \in Names
    BY <1>1, <1>2, NodeFacts DEF Dirs
  <2>2. ASSUME NEW S \in SUBSET Names, n \in S, ClosedIn(d, S) PROVE d[m].to \in S
    <3>1. m \in S
      BY <2>2 DEF RouteIn
    <3>2. QED BY <3>1, <2>2, <1>2 DEF ClosedIn
  <2>3. QED BY <2>1, <2>2 DEF RouteIn
<1>3. QED BY <1>1, <1>2 DEF ClosedIn

\* ... and it is the least of them.
LEMMA RouteLeast ==
  ASSUME NEW d \in Dirs, NEW n \in Names, NEW S \in SUBSET Names, n \in S, ClosedIn(d, S)
  PROVE  RouteIn(d, n) \subseteq S
  BY DEF RouteIn

\* What is not a link leads to itself.
LEMMA RouteOfEnd ==
  ASSUME NEW d \in Dirs, NEW n \in Names, d[n].type # "link"
  PROVE  RouteIn(d, n) = {n} /\ EndsIn(d, n) = {n}
<1>1. ClosedIn(d, {n})
  BY DEF ClosedIn
<1>2. RouteIn(d, n) \subseteq {n}
  BY <1>1, RouteLeast
<1>3. QED BY <1>2, RouteClosed DEF EndsIn

\* The route of a link goes on with the route of where it leads to.
LEMMA RouteOfLink ==
  ASSUME NEW d \in Dirs, NEW n \in Names, d[n].type = "link"
  PROVE  /\ d[n].to \in Names
         /\ RouteIn(d, n) \subseteq {n} \cup RouteIn(d, d[n].to)
         /\ RouteIn(d, d[n].to) \subseteq RouteIn(d, n)
<1> DEFINE t == d[n].to
           S == {n} \cup RouteIn(d, t)
<1>1. t \in Names
  BY NodeFacts DEF Dirs
<1>2. S \subseteq Names /\ t \in RouteIn(d, t) /\ ClosedIn(d, RouteIn(d, t))
  BY <1>1, RouteClosed
<1>3. ClosedIn(d, S)
  BY <1>2 DEF ClosedIn
<1>4. RouteIn(d, n) \subseteq S
  BY <1>2, <1>3, RouteLeast
<1>5. RouteIn(d, n) \subseteq Names /\ n \in RouteIn(d, n) /\ ClosedIn(d, RouteIn(d, n))
  BY RouteClosed
<1>6. t \in RouteIn(d, n)
  BY <1>5 DEF ClosedIn
<1>7. RouteIn(d, t) \subseteq RouteIn(d, n)
  BY <1>1, <1>5, <1>6, RouteLeast
<1>8. QED BY <1>1, <1>4, <1>7

\* The end of a route is the end of everything on it.
LEMMA EndReached ==
  ASSUME NEW d \in Dirs, NEW n \in Names, NEW b \in EndsIn(d, n), NEW k \in RouteIn(d, n)
  PROVE  b \in EndsIn(d, k)
<1> DEFINE S == {m \in RouteIn(d, n) : b \in RouteIn(d, m)}
<1>1. RouteIn(d, n) \subseteq Names /\ n \in RouteIn(d, n) /\ ClosedIn(d, RouteIn(d, n))
  BY RouteClosed
<1>2. b \in RouteIn(d, n) /\ d[b].type # "link"
  BY DEF EndsIn
<1>3. S \subseteq Names /\ n \in S
  BY <1>1, <1>2
<1>4. ClosedIn(d, S)
  <2>1. ASSUME NEW m \in S, d[m].type = "link" PROVE d[m].to \in S
    <3>1. m \in Names /\ b \in RouteIn(d, m) /\ m # b
      BY <2>1, <1>1, <1>2
    <3>2. b \in RouteIn(d, d[m].to)
      BY <2>1, <3>1, RouteOfLink
    <3>3. d[m].to \in RouteIn(d, n)
      BY <2>1, <1>1 DEF ClosedIn
    <3>4. QED BY <3>2, <3>3
  <2>2. QED BY <2>1 DEF ClosedIn
<1>5. RouteIn(d, n) \subseteq S
  BY <1>3, <1>4, RouteLeast
<1>6. QED BY <1>2, <1>5 DEF EndsIn

\* A route has at most one end.
LEMMA EndUnique ==
  ASSUME NEW d \in Dirs, NEW n \in Names, NEW a \in EndsIn(d, n), NEW b \in EndsIn(d, n)
  PROVE  a = b
<1>1. a \in RouteIn(d, n) /\ a \in Names /\ d[a].type # "link"
  BY DEF EndsIn, RouteIn
<1>2. b \in EndsIn(d, a)
  BY <1>1, EndReached
<1>3. QED BY <1>1, <1>2, RouteOfEnd

\* A route stays if the entries on it stay, or were no links and become none.
LEMMA RouteKept ==
  ASSUME NEW d \in Dirs, NEW e \in Dirs, NEW n \in Names,
         \A m \in RouteIn(d, n) : e[m] = d[m] \/ (d[m].type # "link" /\ e[m].type # "link")
  PROVE  RouteIn(e, n) = RouteIn(d, n) /\ EndsIn(e, n) = EndsIn(d, n)
<1>1. /\ RouteIn(d, n) \subseteq Names /\ n \in RouteIn(d, n) /\ ClosedIn(d, RouteIn(d, n))
      /\ RouteIn(e, n) \subseteq Names /\ n \in RouteIn(e, n) /\ ClosedIn(e, RouteIn(e, n))
  BY RouteClosed
<1>2. ClosedIn(e, RouteIn(d, n))
  BY <1>1 DEF ClosedIn
<1>3. RouteIn(e, n) \subseteq RouteIn(d, n)
  BY <1>1, <1>2, RouteLeast
<1>4. ClosedIn(d, RouteIn(e, n))
  BY <1>1, <1>3 DEF ClosedIn
<1>5. RouteIn(d, n) \subseteq RouteIn(e, n)
  BY <1>1, <1>4, RouteLeast
<1>6. QED BY <1>3, <1>5 DEF EndsIn

-----------------------------------------------------------------------------
(***************************************************************************)
(* The operators of FileManager, before and after a step.                  *)
(***************************************************************************)

\* Route and Leads are those of the directory.
LEMMA Here ==
  ASSUME NEW n \in Names
  PROVE  /\ Route(n) = RouteIn(dir, n) /\ Leads(n) = EndsIn(dir, n)
         /\ Route(n)' = RouteIn(dir', n) /\ Leads(n)' = EndsIn(dir', n)
<1>1. Route(n) = RouteIn(dir, n)
  BY DEF Route, RouteIn, Closed, ClosedIn
<1>2. Route(n)' = RouteIn(dir', n)
  BY DEF Route, RouteIn, Closed, ClosedIn
<1>3. QED BY <1>1, <1>2 DEF Leads, EndsIn

\* Where a name leads does not change when the entries on its route do not.
LEMMA SameRoute ==
  ASSUME dir \in Dirs, dir' \in Dirs, NEW n \in Names, \A m \in Route(n) : dir'[m] = dir[m]
  PROVE  Route(n)' = Route(n) /\ Leads(n)' = Leads(n) /\ Exists(n)' = Exists(n)
<1>1. Route(n)' = Route(n) /\ Leads(n)' = Leads(n)
  BY Here, RouteKept
<1>2. \A m \in Leads(n) : dir'[m] = dir[m]
  BY DEF Leads
<1>3. QED BY <1>1, <1>2 DEF Exists

\* A name that leads to something leads to that only.
LEMMA LeadsUnique ==
  ASSUME dir \in Dirs, NEW n \in Names, NEW a \in Leads(n)
  PROVE  Leads(n) = {a} /\ a \in Route(n) /\ a \in Names /\ dir[a].type # "link"
<1>1. Leads(n) = {a}
  BY Here, EndUnique
<1>2. QED BY <1>1 DEF Leads, Route

\* A name that is no link leads to itself.
LEMMA LeadsHere ==
  ASSUME dir \in Dirs, NEW n \in Names, dir[n].type # "link"
  PROVE  Route(n) = {n} /\ Leads(n) = {n}
BY Here, RouteOfEnd

\* A name that leads nowhere is not on the way to something.
LEMMA OffRoute ==
  ASSUME dir \in Dirs, NEW n \in Names, NEW k \in Names, Exists(n), ~Exists(k)
  PROVE  k \notin Route(n)
<1>1. SUFFICES ASSUME k \in Route(n) PROVE FALSE
  OBVIOUS
<1>2. PICK b \in Leads(n) : dir[b].type # "none"
  BY DEF Exists
<1>3. b \in Leads(k)
  BY <1>1, Here, EndReached
<1>4. QED BY <1>2, <1>3 DEF Exists

\* What does not exist holds nothing.
LEMMA NothingHolds ==
  ASSUME dir \in Dirs, NEW n \in Names, ~Exists(n)
  PROVE  dir[n].holds = {} /\ dir[n].type \in {"none", "link"}
<1>1. dir[n] \in Nodes
  BY DEF Dirs
<1>2. dir[n].type \in {"none", "link"}
  BY LeadsHere DEF Exists
<1>3. QED BY <1>1, <1>2, NodeFacts

-----------------------------------------------------------------------------
(***************************************************************************)
(* The invariant: steps that begin a request, and steps of somebody else.  *)
(***************************************************************************)

\* The steps of what is asked of a backend.
ServedAt(r, step, op) ==
  /\ step \in {"open", "write"} => r = "host" /\ op \in {"create", "save"}
  /\ step = "mkdir"   => op = "folder"
  /\ step = "rename"  => r = "host" /\ op = "move"
  /\ step = "remove"  => r = "host" /\ op = "delete"
  /\ step = "archive" => r = "wp-content" /\ op \in {"create", "save"}
  /\ step = "mv"      => r = "wp-content" /\ op = "move"
  /\ step = "rm"      => r = "wp-content" /\ op = "delete"

Operations == {"create", "folder", "save", "move", "delete"}

\* A request that passed its checks begins with them true.
LEMMA BeginKeeps ==
  ASSUME ManagerInv, NEW step \in Steps \ {"idle", "write"}, NEW op \in Operations,
         NEW n \in Inside, NEW d \in Inside \cup {NoName}, NEW t \in Names \cup {NoName},
         NEW c \in Contents \cup {NoName},
         Begin(step, op, n, d, t, c), ServedAt(root, step, op),
         op \in {"create", "save"} => c \in Contents,
         op = "create" => ~Exists(n),
         op = "move" => d \in Inside /\ Exists(n) /\ ~Exists(d),
         op \in {"save", "move", "delete"} => Leads(n) \subseteq Inside,
         root = "host" /\ op \in {"save", "move", "delete"} => t \in Leads(n)
  PROVE  ManagerInv'
<1> USE DEF Begin
<1>1. FileTypeOK'
  <2>1. Route(n) \subseteq Names /\ Route(d) \subseteq Names
    BY DEF Route
  <2>2. req' \in Requests
    BY DEF Requests, Operations
  <2>3. QED BY <2>1, <2>2 DEF ManagerInv, FileTypeOK
<1>2. Served'
  BY DEF Served, ServedAt, Leads, Route
<1>3. ChecksStand'
  <2>1. dir \in Dirs /\ dir' \in Dirs /\ dir' = dir
    BY DEF ManagerInv, FileTypeOK, Dirs
  <2>2. Route(n)' = Route(n) /\ Leads(n)' = Leads(n) /\ Exists(n)' = Exists(n)
    BY <2>1, SameRoute
  <2>3. op = "move" => Route(d)' = Route(d) /\ Exists(d)' = Exists(d)
    BY <2>1, SameRoute
  <2>4. /\ req'.op = op /\ req'.name = n /\ req'.dest = d /\ req'.target = t
        /\ root' = root /\ pc' = step
    OBVIOUS
  <2>5. seen' = Route(n) \cup (IF op = "move" THEN Route(d) ELSE {})
    OBVIOUS
  <2>6. Route(req.name)' = Route(n) /\ Leads(req.name)' = Leads(n) /\ Exists(req.name)' = Exists(n)
    BY <2>2, <2>4
  <2>7. op = "move" => Route(req.dest)' = Route(d) /\ Exists(req.dest)' = Exists(d)
    BY <2>3, <2>4
  <2>8. QED BY <2>4, <2>5, <2>6, <2>7 DEF ChecksStand
<1>4. SuccessIsTrue'
  BY DEF SuccessIsTrue
<1>5. QED BY <1>1, <1>2, <1>3, <1>4 DEF ManagerInv

\* Every request that is begun passed the checks of its backend.
LEMMA CheckKeeps ==
  ASSUME ManagerInv, NEW n \in Inside, HostCheck(n) \/ WpCheck(n)
  PROVE  ManagerInv'
<1> USE DEF ServedAt, Steps, Operations
<1>1. dir \in Dirs
  BY DEF ManagerInv, FileTypeOK, Dirs
<1>2. ASSUME NEW t \in Real(n) PROVE t \in Leads(n) /\ t \in Names /\ Leads(n) \subseteq Inside
  BY <1>1, LeadsUnique DEF Real
<1>3. ASSUME NEW c \in Contents, HostCreate(n, c) PROVE ManagerInv'
  BY <1>3, BeginKeeps DEF HostCreate
<1>4. ASSUME NEW c \in Contents, HostSave(n, c) PROVE ManagerInv'
  <2>1. PICK t \in Real(n) : Begin("open", "save", n, NoName, t, c)
    BY <1>4 DEF HostSave
  <2>2. QED BY <2>1, <1>2, <1>4, BeginKeeps DEF HostSave
<1>5. CASE HostFolder(n)
  BY <1>5, BeginKeeps DEF HostFolder
<1>6. ASSUME NEW d \in Inside, HostMove(n, d) PROVE ManagerInv'
  <2>1. PICK t \in Real(n) : Begin("rename", "move", n, d, t, NoName)
    BY <1>6 DEF HostMove
  <2>2. QED BY <2>1, <1>2, <1>6, BeginKeeps DEF HostMove
<1>7. CASE HostDelete(n)
  <2>1. PICK t \in Real(n) : Begin("remove", "delete", n, NoName, t, NoName)
    BY <1>7 DEF HostDelete
  <2>2. QED BY <2>1, <1>2, <1>7, BeginKeeps DEF HostDelete
<1>8. ASSUME NEW c \in Contents, WpCreate(n, c) PROVE ManagerInv'
  BY <1>8, BeginKeeps DEF WpCreate
<1>9. ASSUME NEW c \in Contents, WpSave(n, c) PROVE ManagerInv'
  BY <1>9, <1>2, BeginKeeps DEF WpSave
<1>10. CASE WpFolder(n)
  BY <1>10, BeginKeeps DEF WpFolder
<1>11. ASSUME NEW d \in Inside, WpMove(n, d) PROVE ManagerInv'
  BY <1>11, <1>2, BeginKeeps DEF WpMove
<1>12. CASE WpDelete(n)
  BY <1>12, <1>2, BeginKeeps DEF WpDelete
<1>13. QED
  BY <1>3, <1>4, <1>5, <1>6, <1>7, <1>8, <1>9, <1>10, <1>11, <1>12 DEF HostCheck, WpCheck

\* Whoever changes an entry a request depends on has overtaken it; any other entry is no matter.
LEMMA OthersKeep ==
  ASSUME ManagerInv, NEW n \in Names, Others(n)
  PROVE  ManagerInv'
<1> USE DEF Others, Put
<1>1. PICK node \in Foreign : dir' = [dir EXCEPT ![n] = node]
  BY DEF Left, Foreign
<1>2. dir \in Dirs /\ dir' \in Dirs
  BY <1>1 DEF ManagerInv, FileTypeOK, Dirs, Nodes
<1>3. FileTypeOK' /\ Served' /\ SuccessIsTrue'
  BY <1>2 DEF ManagerInv, FileTypeOK, Dirs, Served, SuccessIsTrue
<1>4. ChecksStand'
  <2>1. CASE n \in seen
    BY <2>1 DEF ChecksStand
  <2>2. CASE n \notin seen /\ pc # "idle" /\ seen # {}
    <3>1. /\ req' = req /\ root' = root /\ pc' = pc /\ seen' = seen
          /\ \A m \in Names \ {n} : dir'[m] = dir[m]
      BY <2>2, <1>1, <1>2 DEF Dirs
    <3>2. /\ req.name \in Names
          /\ req.op = "move" => req.dest \in Names
          /\ seen = Route(req.name) \cup (IF req.op = "move" THEN Route(req.dest) ELSE {})
      BY <2>2 DEF ManagerInv, Served, ChecksStand
    <3>3. PICK m \in Names : m = req.name
      BY <3>2
    <3>4. /\ Route(m)' = Route(m) /\ Leads(m)' = Leads(m) /\ Exists(m)' = Exists(m)
          /\ m = req.name /\ m = req'.name
      BY <1>2, <2>2, <3>1, <3>2, <3>3, SameRoute DEF Route
    <3>5. Route(req.name)' = Route(m) /\ Leads(req.name)' = Leads(m) /\ Exists(req.name)' = Exists(m)
      BY <3>4
    <3>6. ASSUME req.op = "move"
          PROVE  /\ Route(req.dest)' = Route(req.dest) /\ Exists(req.dest)' = Exists(req.dest)
      <4>1. PICK k \in Names : k = req.dest
        BY <3>2, <3>6
      <4>2. Route(k)' = Route(k) /\ Exists(k)' = Exists(k) /\ k = req.dest /\ k = req'.dest
        BY <1>2, <2>2, <3>1, <3>2, <3>6, <4>1, SameRoute DEF Route
      <4>3. Route(req.dest)' = Route(k) /\ Exists(req.dest)' = Exists(k)
        BY <4>2
      <4>4. QED BY <4>2, <4>3
    <3>7. pc = "write" => dir'[req.target] = dir[req.target]
      <4>1. pc = "write" => req.target \in Route(req.name)
        BY <2>2 DEF ManagerInv, ChecksStand, Leads
      <4>2. QED BY <2>2, <3>1, <3>2, <4>1 DEF Route
    <3>8. QED BY <3>1, <3>2, <3>4, <3>5, <3>6, <3>7, <2>2 DEF ManagerInv, ChecksStand
  <2>3. QED BY <2>1, <2>2 DEF ManagerInv, ChecksStand
<1>5. QED BY <1>3, <1>4 DEF ManagerInv

-----------------------------------------------------------------------------
(***************************************************************************)
(* The invariant: steps of the request itself.                             *)
(***************************************************************************)

\* What a request knows of its names when it acts, on entries that stay fixed through the step.
LEMMA WhenActing ==
  ASSUME ManagerInv, pc # "idle", NEW n \in Names, n = req.name
  PROVE  /\ dir \in Dirs /\ req \in Requests /\ seen \subseteq Names
         /\ \A m \in Names : dir[m] \in Nodes
         /\ ServedAt(root, pc, req.op)
         /\ req.op = "move" => req.dest \in Names
         /\ req.op \in {"create", "save"} => req.text \in Contents
         /\ seen # {} =>
              /\ req.op = "create" /\ pc # "write" => ~Exists(n)
              /\ req.op = "move" => Exists(n) /\ ~Exists(req.dest)
              /\ root = "host" /\ req.op \in {"save", "move", "delete"} => req.target \in Leads(n)
              /\ req.op \in {"save", "move", "delete"} /\ pc # "write" => Leads(n) \subseteq Inside
              /\ pc = "write" => req.target \in Leads(n) /\ dir[req.target] = TornFile
BY DEF ManagerInv, FileTypeOK, Dirs, Served, ServedAt, ChecksStand

\* A file that is put where a route ends leaves every route as it is.
LEMMA PutAtEnd ==
  ASSUME dir \in Dirs, NEW w \in Names, dir[w].type # "link",
         NEW v \in Nodes, v.type # "link", Put(w, v), NEW n \in Names
  PROVE  /\ dir' \in Dirs /\ dir'[w] = v /\ \A m \in Names \ {w} : dir'[m] = dir[m]
         /\ Route(n)' = Route(n) /\ Leads(n)' = Leads(n)
<1>1. dir' \in Dirs /\ dir'[w] = v /\ \A m \in Names \ {w} : dir'[m] = dir[m]
  BY DEF Put, Dirs
<1>2. \A m \in Names : dir'[m] = dir[m] \/ (dir[m].type # "link" /\ dir'[m].type # "link")
  BY <1>1
<1>3. RouteIn(dir, n) \subseteq Names
  BY DEF RouteIn
<1>4. QED BY <1>1, <1>2, <1>3, Here, RouteKept

\* The file opened is where the name leads.
LEMMA OpenKeeps ==
  ASSUME ManagerInv, Open
  PROVE  ManagerInv'
<1> USE DEF Open
<1>1. PICK n \in Names : n = req.name
  BY DEF ManagerInv, Served
<1>2. /\ dir \in Dirs /\ req \in Requests /\ seen \subseteq Names
      /\ req.op \in {"create", "save"} /\ root = "host"
      /\ seen # {} /\ req.op = "save" => req.target \in Leads(n)
  BY <1>1, WhenActing DEF ServedAt
<1>3. PICK w \in Leads(IF req.op = "save" THEN req.target ELSE req.name) :
        dir[w].type # "folder" /\ Put(w, TornFile) /\ req' = [req EXCEPT !.target = w]
  OBVIOUS
<1>4. w \in Names /\ dir[w].type # "link"
  BY <1>3 DEF Leads, Route
<1>5. /\ dir' \in Dirs /\ dir'[w] = TornFile
      /\ Route(n)' = Route(n) /\ Leads(n)' = Leads(n)
  BY <1>2, <1>3, <1>4, PutAtEnd, NodesMade
<1>6. req' \in Requests /\ req'.op = req.op /\ req'.name = n /\ req'.target = w
  BY <1>1, <1>2, <1>3, <1>4 DEF Requests
<1>7. FileTypeOK'
  BY <1>5, <1>6 DEF ManagerInv, FileTypeOK, Dirs, Steps
<1>8. Served'
  BY <1>2, <1>6 DEF ManagerInv, Served
<1>9. ASSUME seen # {} PROVE w \in Leads(n) /\ seen = Route(n)
  <2>1. seen = Route(n)
    BY <1>1, <1>2, <1>9 DEF ManagerInv, ChecksStand
  <2>2. CASE req.op = "create"
    BY <2>1, <2>2, <1>1, <1>3
  <2>3. CASE req.op = "save"
    <3>1. PICK t \in Leads(n) : t = req.target
      BY <2>3, <1>2, <1>9
    <3>2. t \in Names /\ dir[t].type # "link"
      BY DEF Leads, Route
    <3>3. Leads(t) = {t}
      BY <1>2, <3>2, LeadsHere
    <3>4. w = t
      BY <2>3, <1>3, <3>1, <3>3
    <3>5. QED BY <2>1, <3>4
  <2>4. QED BY <2>2, <2>3, <1>2
<1>10. ChecksStand'
  <2>1. Route(req.name)' = Route(n) /\ Leads(req.name)' = Leads(n)
    BY <1>5, <1>6
  <2>2. QED BY <2>1, <1>2, <1>5, <1>6, <1>9 DEF ChecksStand
<1>11. SuccessIsTrue'
  BY DEF ManagerInv, Served, SuccessIsTrue
<1>12. QED BY <1>7, <1>8, <1>10, <1>11 DEF ManagerInv

\* An answer ends a request; only a success has something left to show.
LEMMA EndKeeps ==
  ASSUME ManagerInv, NEW answer \in {"none", "done", "error"}, End(answer), dir' \in Dirs,
         answer = "done" /\ seen # {} => SuccessIsTrue'
  PROVE  ManagerInv'
<1>1. FileTypeOK'
  BY DEF ManagerInv, FileTypeOK, End, Dirs, Steps
<1>2. Served' /\ ChecksStand'
  BY DEF End, Served, ChecksStand
<1>3. SuccessIsTrue'
  <2>1. CASE answer = "done" /\ seen # {}
    BY <2>1
  <2>2. CASE answer # "done" \/ seen = {}
    BY <2>2 DEF End, SuccessIsTrue
  <2>3. QED BY <2>1, <2>2
<1>4. QED BY <1>1, <1>2, <1>3 DEF ManagerInv

\* Putting an entry gives a directory.
LEMMA PutKeeps ==
  ASSUME dir \in Dirs, NEW n, NEW v \in Nodes, Put(n, v)
  PROVE  dir' \in Dirs
BY DEF Put, Dirs

\* What is put under a name, and no link, is what the name leads to.
LEMMA PutHere ==
  ASSUME dir \in Dirs, NEW n \in Names, NEW v \in Nodes, v.type # "link", Put(n, v)
  PROVE  dir' \in Dirs /\ dir'[n] = v /\ Leads(n)' = {n}
<1>1. dir' \in Dirs /\ dir'[n] = v
  BY DEF Put, Dirs
<1>2. QED BY <1>1, Here, RouteOfEnd

\* The text that was sent is where the name leads.
LEMMA WriteKeeps ==
  ASSUME ManagerInv, Write
  PROVE  ManagerInv'
<1>1. pc = "write" /\ End("done")
  BY DEF Write
<1>2. PICK n \in Names : n = req.name
  BY <1>1 DEF ManagerInv, Served
<1>3. /\ dir \in Dirs /\ req.op \in {"create", "save"} /\ req.text \in Contents
      /\ seen # {} => req.target \in Leads(n) /\ dir[req.target] = TornFile
  BY <1>1, <1>2, WhenActing DEF ServedAt
<1>4. File(req.text) \in Nodes /\ File(req.text).type = "file"
  BY <1>3, NodesMade
<1>5. dir' \in Dirs
  BY <1>3, <1>4, PutKeeps DEF Write
<1>6. ASSUME seen # {} PROVE SuccessIsTrue'
  <2>1. PICK t \in Leads(n) : t = req.target
    BY <1>3, <1>6
  <2>2. t \in Names /\ dir[t] = TornFile /\ TornFile.type # "link"
    BY <1>3, <1>6, <2>1, NodesMade DEF Leads, Route
  <2>3. Put(t, File(req.text))
    BY <2>1, <2>2 DEF Write
  <2>4. dir'[t] = File(req.text) /\ Leads(n)' = Leads(n)
    BY <1>3, <1>4, <2>2, <2>3, PutAtEnd
  <2>5. n = req'.name /\ req' = req
    BY <1>1, <1>2 DEF End
  <2>6. t \in Leads(req.name)' /\ dir'[t] = File(req.text)'
    BY <2>1, <2>4, <2>5 DEF File
  <2>7. QED BY <1>3, <2>5, <2>6 DEF SuccessIsTrue
<1>7. QED BY <1>1, <1>5, <1>6, EndKeeps

\* A new folder is there, and empty.
LEMMA MkdirKeeps ==
  ASSUME ManagerInv, Mkdir
  PROVE  ManagerInv'
<1>1. pc = "mkdir" /\ End("done") /\ Put(req.name, Folder({}))
  BY DEF Mkdir
<1>2. PICK n \in Names : n = req.name
  BY <1>1 DEF ManagerInv, Served
<1>3. dir \in Dirs /\ req.op = "folder"
  BY <1>1, <1>2, WhenActing DEF ServedAt
<1>4. Folder({}) \in Nodes
  BY NodesMade
<1>5. dir' \in Dirs /\ dir'[n] = Folder({})
  BY <1>1, <1>2, <1>3, <1>4 DEF Put, Dirs
<1>6. SuccessIsTrue'
  BY <1>1, <1>2, <1>3, <1>5 DEF End, SuccessIsTrue, Folder
<1>7. QED BY <1>1, <1>5, <1>6, EndKeeps

\* What Docker has unpacked is what the name leads to.
LEMMA ArchiveKeeps ==
  ASSUME ManagerInv, Archive
  PROVE  ManagerInv'
<1>1. pc = "archive" /\ End("done") /\ Put(req.name, File(req.text))
  BY DEF Archive
<1>2. PICK n \in Names : n = req.name
  BY <1>1 DEF ManagerInv, Served
<1>3. dir \in Dirs /\ req.op \in {"create", "save"} /\ req.text \in Contents
  BY <1>1, <1>2, WhenActing DEF ServedAt
<1>4. File(req.text) \in Nodes /\ File(req.text).type = "file"
  BY <1>3, NodesMade
<1>5. dir' \in Dirs /\ dir'[n] = File(req.text) /\ Leads(n)' = {n}
  BY <1>1, <1>2, <1>3, <1>4, PutHere
<1>6. SuccessIsTrue'
  <2>1. n = req'.name /\ req' = req
    BY <1>1, <1>2 DEF End
  <2>2. n \in Leads(req.name)' /\ dir'[n] = File(req.text)'
    BY <1>5, <2>1 DEF File
  <2>3. QED BY <1>3, <2>1, <2>2 DEF SuccessIsTrue
<1>7. QED BY <1>1, <1>5, <1>6, EndKeeps

\* Deleting what the name leads to leaves the name leading nowhere.
LEMMA RemoveKeeps ==
  ASSUME ManagerInv, Remove
  PROVE  ManagerInv'
<1>1. pc = "remove" /\ End("done") /\ Put(req.target, Nothing)
  BY DEF Remove
<1>2. PICK n \in Names : n = req.name
  BY <1>1 DEF ManagerInv, Served
<1>3. /\ dir \in Dirs /\ req \in Requests /\ req.op = "delete" /\ root = "host"
      /\ seen # {} => req.target \in Leads(n)
  BY <1>1, <1>2, WhenActing DEF ServedAt
<1>4. dir' \in Dirs
  BY <1>1, <1>3, NodesMade, PutKeeps
<1>5. ASSUME seen # {} PROVE SuccessIsTrue'
  <2>1. PICK t \in Leads(n) : t = req.target
    BY <1>3, <1>5
  <2>2. Leads(n) = {t} /\ t \in Names /\ dir[t].type # "link"
    BY <1>3, <2>1, LeadsUnique
  <2>3. dir'[t] = Nothing /\ Leads(n)' = Leads(n)
    BY <1>1, <1>3, <2>1, <2>2, NodesMade, PutAtEnd
  <2>4. ~Exists(n)'
    BY <2>2, <2>3, NodesMade DEF Exists
  <2>5. n = req'.name /\ req' = req
    BY <1>1, <1>2 DEF End
  <2>6. ~Exists(req.name)'
    BY <2>4, <2>5
  <2>7. QED BY <1>3, <2>5, <2>6 DEF SuccessIsTrue
<1>6. QED BY <1>1, <1>4, <1>5, EndKeeps

\* rm removes the name itself.
LEMMA RmKeeps ==
  ASSUME ManagerInv, Rm
  PROVE  ManagerInv'
<1>1. pc = "rm" /\ End("done") /\ Put(req.name, Nothing)
  BY DEF Rm
<1>2. PICK n \in Names : n = req.name
  BY <1>1 DEF ManagerInv, Served
<1>3. dir \in Dirs /\ req.op = "delete"
  BY <1>1, <1>2, WhenActing DEF ServedAt
<1>4. dir' \in Dirs /\ dir'[n] = Nothing /\ Leads(n)' = {n}
  BY <1>1, <1>2, <1>3, NodesMade, PutHere
<1>5. ~Exists(n)' /\ n = req'.name /\ req' = req
  BY <1>1, <1>2, <1>4, NodesMade DEF Exists, End
<1>6. ~Exists(req.name)'
  BY <1>5
<1>7. SuccessIsTrue'
  BY <1>3, <1>5, <1>6 DEF SuccessIsTrue
<1>8. QED BY <1>1, <1>4, <1>7, EndKeeps

\* rename(2) moves what the source leads to; the name of the source leads nowhere any more.
LEMMA RenameKeeps ==
  ASSUME ManagerInv, Rename
  PROVE  ManagerInv'
<1>1. /\ pc = "rename" /\ End("done") /\ dir[req.target].type # "none"
      /\ dir' = [dir EXCEPT ![req.dest] = dir[req.target], ![req.target] = Nothing]
  BY DEF Rename
<1>2. PICK n \in Names : n = req.name
  BY <1>1 DEF ManagerInv, Served
<1>3. /\ dir \in Dirs /\ req \in Requests /\ req.op = "move" /\ root = "host" /\ req.dest \in Names
      /\ seen # {} => Exists(n) /\ ~Exists(req.dest) /\ req.target \in Leads(n)
  BY <1>1, <1>2, WhenActing DEF ServedAt
<1>4. dir' \in Dirs
  <2>1. req.target \in Names
    BY <1>1 DEF ManagerInv, Served
  <2>2. QED BY <2>1, <1>1, <1>3, NodesMade DEF Dirs
<1>5. ASSUME seen # {} PROVE SuccessIsTrue'
  <2>1. PICK t \in Leads(n), k \in Names : t = req.target /\ k = req.dest
    BY <1>3, <1>5
  <2>2. Leads(n) = {t} /\ t \in Names /\ dir[t].type # "link" /\ ~Exists(k) /\ Exists(n)
    BY <1>3, <1>5, <2>1, LeadsUnique
  <2>3. k \notin Route(n) /\ t \in Route(n) /\ Route(n) \subseteq Names
    BY <1>3, <2>1, <2>2, OffRoute DEF Leads, Route
  <2>4. /\ dir'[k] = dir[t] /\ dir'[t] = Nothing
        /\ \A m \in Names \ {k, t} : dir'[m] = dir[m]
    BY <1>1, <1>3, <2>1, <2>2, <2>3 DEF Dirs
  <2>5. \A m \in Route(n) : dir'[m] = dir[m] \/ (dir[m].type # "link" /\ dir'[m].type # "link")
    BY <2>2, <2>3, <2>4, NodesMade
  <2>6. Leads(n)' = {t}
    BY <1>3, <1>4, <2>2, <2>5, Here, RouteKept
  <2>7. ~Exists(n)'
    BY <2>4, <2>6, NodesMade DEF Exists
  <2>8. Leads(k)' = {k}
    BY <1>4, <2>2, <2>4, Here, RouteOfEnd
  <2>9. Exists(k)'
    BY <1>1, <2>1, <2>4, <2>8 DEF Exists
  <2>10. n = req'.name /\ k = req'.dest /\ req' = req
    BY <1>1, <1>2, <2>1 DEF End
  <2>11. ~Exists(req.name)' /\ Exists(req.dest)'
    BY <2>7, <2>9, <2>10
  <2>12. QED BY <1>3, <2>10, <2>11 DEF SuccessIsTrue
<1>6. QED BY <1>1, <1>4, <1>5, EndKeeps

\* mv moves the name itself: a link still leads, from its new name, to where it led before.
LEMMA MvKeeps ==
  ASSUME ManagerInv, Mv
  PROVE  ManagerInv'
<1>1. /\ pc = "mv" /\ End("done") /\ dir[req.name].type # "none"
      /\ dir' = [dir EXCEPT ![req.dest] = dir[req.name], ![req.name] = Nothing]
  BY DEF Mv
<1>2. PICK n \in Names : n = req.name
  BY <1>1 DEF ManagerInv, Served
<1>3. /\ dir \in Dirs /\ req.op = "move" /\ req.dest \in Names
      /\ seen # {} => Exists(n) /\ ~Exists(req.dest)
  BY <1>1, <1>2, WhenActing DEF ServedAt
<1>4. dir' \in Dirs
  BY <1>1, <1>2, <1>3, NodesMade DEF Dirs
<1>5. ASSUME seen # {} PROVE SuccessIsTrue'
  <2>1. PICK k \in Names : k = req.dest
    BY <1>3
  <2>2. /\ Exists(n) /\ ~Exists(k) /\ k \notin Route(n)
        /\ n \in Route(n) /\ Route(n) \subseteq Names
    BY <1>3, <1>5, <2>1, OffRoute DEF Route
  <2>3. /\ dir'[k] = dir[n] /\ dir'[n] = Nothing
        /\ \A m \in Names \ {k, n} : dir'[m] = dir[m]
    BY <1>1, <1>2, <1>3, <2>1, <2>2 DEF Dirs
  <2>4. Leads(n)' = {n}
    BY <1>4, <2>3, NodesMade, Here, RouteOfEnd
  <2>5. ~Exists(n)'
    BY <2>3, <2>4, NodesMade DEF Exists
  <2>6. PICK b \in Leads(n) : dir[b].type # "none"
    BY <2>2 DEF Exists
  <2>7. Exists(k)'
    <3>1. CASE dir[n].type # "link"
      <4>1. Leads(k)' = {k}
        BY <3>1, <1>4, <2>3, Here, RouteOfEnd
      <4>2. QED BY <4>1, <1>1, <1>2, <2>3 DEF Exists
    <3>2. CASE dir[n].type = "link"
      <4> DEFINE S == (RouteIn(dir', k) \cap RouteIn(dir, n)) \cup {n}
      <4>1. /\ RouteIn(dir', k) \subseteq Names /\ k \in RouteIn(dir', k)
            /\ ClosedIn(dir', RouteIn(dir', k))
            /\ RouteIn(dir, n) \subseteq Names /\ n \in RouteIn(dir, n)
            /\ ClosedIn(dir, RouteIn(dir, n)) /\ RouteIn(dir, n) = Route(n)
        BY <1>3, <1>4, RouteClosed, Here
      <4>2. dir[n].to \in S
        BY <3>2, <4>1, <2>3 DEF ClosedIn
      <4>3. ASSUME NEW m \in S \ {n}, dir[m].type = "link" PROVE dir[m].to \in S
        <5>1. dir'[m] = dir[m]
          BY <4>1, <2>2, <2>3
        <5>2. QED BY <4>1, <4>3, <5>1 DEF ClosedIn
      <4>4. ClosedIn(dir, S)
        BY <4>2, <4>3 DEF ClosedIn
      <4>5. RouteIn(dir, n) \subseteq S
        BY <4>1, <4>4, <1>3, RouteLeast
      <4>6. b \in RouteIn(dir', k) /\ dir'[b] = dir[b] /\ dir[b].type # "link"
        BY <3>2, <4>1, <4>5, <2>2, <2>3, <2>6 DEF Leads
      <4>7. b \in Leads(k)'
        BY <4>6, Here DEF EndsIn
      <4>8. QED BY <4>6, <4>7, <2>6 DEF Exists
    <3>3. QED BY <3>1, <3>2
  <2>8. n = req'.name /\ k = req'.dest /\ req' = req
    BY <1>1, <1>2, <2>1 DEF End
  <2>9. ~Exists(req.name)' /\ Exists(req.dest)'
    BY <2>5, <2>7, <2>8
  <2>10. QED BY <1>3, <2>8, <2>9 DEF SuccessIsTrue
<1>6. QED BY <1>1, <1>4, <1>5, EndKeeps

\* mv goes into a folder only if somebody put it there after the check.
LEMMA MvIntoKeeps ==
  ASSUME ManagerInv, MvInto
  PROVE  ManagerInv' /\ seen = {}
<1>1. pc = "mv" /\ End("done")
  BY DEF MvInto
<1>2. PICK w \in Leads(req.dest) \ {req.name} :
        /\ dir[w].type = "folder"
        /\ dir' = [dir EXCEPT ![w] = Folder(@.holds \cup dir[req.name].holds),
                              ![req.name] = Nothing]
  BY DEF MvInto
<1>3. PICK n \in Names : n = req.name
  BY <1>1 DEF ManagerInv, Served
<1>4. /\ dir \in Dirs /\ req.op = "move" /\ \A m \in Names : dir[m] \in Nodes
      /\ seen # {} => ~Exists(req.dest)
  BY <1>1, <1>3, WhenActing DEF ServedAt
<1>5. Exists(req.dest)
  BY <1>2 DEF Exists
<1>6. w \in Names
  BY <1>2 DEF Leads, Route
<1>7. Folder(dir[w].holds \cup dir[n].holds) \in Nodes
  <2>1. dir[w].holds \subseteq Contents /\ dir[n].holds \subseteq Contents
    BY <1>4, <1>6, NodeFacts
  <2>2. QED BY <2>1, NodesMade
<1>8. dir' \in Dirs
  BY <1>2, <1>3, <1>4, <1>6, <1>7, NodesMade DEF Dirs
<1>9. QED BY <1>1, <1>4, <1>5, <1>8, EndKeeps

\* Errors and restarts leave the directory as it is, or a file cut short.
LEMMA FailureKeeps ==
  ASSUME ManagerInv, Fail \/ FileDiskFull \/ Restart
  PROVE  ManagerInv'
<1>1. dir \in Dirs
  BY DEF ManagerInv, FileTypeOK, Dirs
<1>2. dir' \in Dirs
  BY <1>1, NodesMade, PutKeeps DEF Fail, FileDiskFull, Restart
<1>3. End("error") \/ End("none")
  BY DEF Fail, FileDiskFull, Restart
<1>4. QED BY <1>2, <1>3, EndKeeps

-----------------------------------------------------------------------------
(***************************************************************************)
(* Theorems.                                                               *)
(***************************************************************************)

\* The inductive invariant: every variable keeps a value of its kind, a request is at a step of
\* its own, what it checked stands until somebody else changes an entry it depends on, and a
\* success that it reported is true (file_manager.py, both backends).
THEOREM Invariant == FileSpec => []ManagerInv
<1>1. FileInit => ManagerInv
  <2> SUFFICES ASSUME FileInit PROVE ManagerInv
    OBVIOUS
  <2>1. FileTypeOK
    BY NodesMade DEF FileInit, FileTypeOK, Steps
  <2>2. Served /\ ChecksStand /\ SuccessIsTrue
    BY DEF FileInit, Served, ChecksStand, SuccessIsTrue
  <2>3. QED BY <2>1, <2>2 DEF ManagerInv
<1>2. ManagerInv /\ [FileNext]_fileVars => ManagerInv'
  <2> SUFFICES ASSUME ManagerInv, [FileNext]_fileVars PROVE ManagerInv'
    OBVIOUS
  <2>1. ASSUME NEW n \in Inside, HostCheck(n) \/ WpCheck(n) PROVE ManagerInv'
    BY <2>1, CheckKeeps
  <2>2. CASE Act
    BY <2>2, OpenKeeps, WriteKeeps, MkdirKeeps, RenameKeeps, RemoveKeeps, ArchiveKeeps,
       MvIntoKeeps, MvKeeps, RmKeeps, FailureKeeps DEF Act
  <2>3. ASSUME NEW n \in Names, Others(n) PROVE ManagerInv'
    BY <2>3, OthersKeep
  <2>4. CASE FileDiskFull \/ Restart
    BY <2>4, FailureKeeps
  <2>5. CASE UNCHANGED fileVars
    <3>1. FileTypeOK' /\ Served'
      BY <2>5 DEF fileVars, ManagerInv, FileTypeOK, Served
    <3>2. ChecksStand'
      BY <2>5 DEF fileVars, ManagerInv, ChecksStand, Route, Closed, Leads, Exists
    <3>3. SuccessIsTrue'
      BY <2>5 DEF fileVars, ManagerInv, SuccessIsTrue, Route, Closed, Leads, Exists, File, Folder
    <3>4. QED BY <3>1, <3>2, <3>3 DEF ManagerInv
  <2>6. QED BY <2>1, <2>2, <2>3, <2>4, <2>5 DEF FileNext
<1>3. QED BY <1>1, <1>2, PTL DEF FileSpec

-----------------------------------------------------------------------------
(***************************************************************************)
(* What a step loses.                                                      *)
(***************************************************************************)

\* Putting an entry loses what was under that name.
LEMMA PutLoses ==
  ASSUME dir \in Dirs, NEW n \in Names, NEW v \in Nodes, Put(n, v),
         NEW c \in Contents, c \in Kept, c \notin Kept'
  PROVE  c \in dir[n].holds
<1>1. PICK m \in Names : c \in dir[m].holds
  BY DEF Kept
<1>2. c \notin dir'[m].holds
  BY DEF Kept
<1>3. QED BY <1>1, <1>2 DEF Put, Dirs

\* Moving an entry to a name that held nothing loses nothing.
LEMMA MoveLosesNothing ==
  ASSUME dir \in Dirs, NEW t \in Names, NEW k \in Names, t # k, dir[k].holds = {},
         dir' = [dir EXCEPT ![k] = dir[t], ![t] = Nothing], NEW c \in Kept
  PROVE  c \in Kept'
<1>1. PICK m \in Names : c \in dir[m].holds
  BY DEF Kept
<1>2. dir'[k] = dir[t] /\ \A l \in Names \ {k, t} : dir'[l] = dir[l]
  BY DEF Dirs
<1>3. c \in dir'[k].holds \/ c \in dir'[m].holds
  BY <1>1, <1>2
<1>4. QED BY <1>3 DEF Kept

\* What the steps of the host backend lose.
LEMMA HostLoses ==
  ASSUME ManagerInv, Open \/ Write \/ Rename \/ Remove,
         NEW c \in Contents, c \in Kept, c \notin Kept', seen # {}
  PROVE  Accounted(c)
<1>1. pc # "idle"
  BY DEF Open, Write, Rename, Remove
<1>2. PICK n \in Names : n = req.name
  BY <1>1 DEF ManagerInv, Served
<1>3. dir \in Dirs /\ req \in Requests /\ \A m \in Names : dir[m] \in Nodes
  BY <1>1, <1>2, WhenActing
<1>4. CASE Open
  <2>1. PICK w \in Leads(IF req.op = "save" THEN req.target ELSE req.name) : Put(w, TornFile)
    BY <1>4 DEF Open
  <2>2. w \in Names /\ dir[w].type # "link"
    BY <2>1 DEF Leads, Route
  <2>3. c \in dir[w].holds
    BY <1>3, <2>1, <2>2, NodesMade, PutLoses
  <2>4. /\ req.op \in {"create", "save"} /\ root = "host"
        /\ req.op = "create" => ~Exists(n)
        /\ req.op = "save" => req.target \in Leads(n) /\ Leads(n) \subseteq Inside
    BY <1>1, <1>2, <1>4, WhenActing DEF ServedAt, Open
  <2>5. CASE req.op = "create"
    <3>1. dir[w].type = "none"
      BY <1>2, <2>1, <2>4, <2>5 DEF Exists
    <3>2. QED BY <1>3, <2>2, <2>3, <3>1, NodeFacts
  <2>6. CASE req.op = "save"
    <3>1. PICK t \in Leads(n) : t = req.target
      BY <2>4, <2>6
    <3>2. t \in Names /\ dir[t].type # "link"
      BY DEF Leads, Route
    <3>3. w = t
      BY <1>3, <2>1, <2>6, <3>1, <3>2, LeadsHere
    <3>4. QED BY <1>2, <2>3, <2>4, <2>6, <3>1, <3>3 DEF Accounted, Real
  <2>7. QED BY <2>4, <2>5, <2>6
<1>5. CASE Write
  <2>1. dir' = dir \/ (dir[req.target] = TornFile /\ Put(req.target, File(req.text)))
    BY <1>5 DEF Write
  <2>2. req.text \in Contents /\ \E t \in Leads(n) : t = req.target
    BY <1>1, <1>2, <1>5, WhenActing DEF Write, ServedAt
  <2> PICK t \in Leads(n) : t = req.target
    BY <2>2
  <2>3. t \in Names
    BY DEF Leads, Route
  <2>4. CASE dir' = dir
    BY <2>4 DEF Kept
  <2>5. CASE dir[t] = TornFile /\ Put(t, File(req.text))
    <3>1. File(req.text) \in Nodes
      BY <2>2, NodesMade
    <3>2. c \in dir[t].holds
      BY <1>3, <2>3, <2>5, <3>1, PutLoses
    <3>3. QED BY <2>5, <3>2 DEF TornFile
  <2>6. QED BY <2>1, <2>2, <2>4, <2>5
<1>6. CASE Rename
  <2>1. /\ req.op = "move" /\ root = "host" /\ req.dest \in Names /\ ~Exists(req.dest)
        /\ req.target \in Leads(n)
    BY <1>1, <1>2, <1>6, WhenActing DEF ServedAt, Rename
  <2>2. PICK t \in Leads(n), k \in Names : t = req.target /\ k = req.dest
    BY <2>1
  <2>3. t \in Names /\ dir[t].type # "link" /\ dir[t].type # "none"
    BY <1>6, <2>2 DEF Rename, Leads, Route
  <2>4. dir[k].holds = {} /\ dir[k].type \in {"none", "link"}
    BY <1>3, <2>1, <2>2, NothingHolds
  <2>5. t # k /\ dir' = [dir EXCEPT ![k] = dir[t], ![t] = Nothing]
    BY <1>6, <2>2, <2>3, <2>4 DEF Rename
  <2>6. QED BY <1>3, <2>3, <2>4, <2>5, MoveLosesNothing
<1>7. CASE Remove
  <2>1. /\ req.op = "delete" /\ root = "host" /\ req.target \in Leads(n)
        /\ Leads(n) \subseteq Inside
    BY <1>1, <1>2, <1>7, WhenActing DEF ServedAt, Remove
  <2>2. PICK t \in Leads(n) : t = req.target
    BY <2>1
  <2>3. t \in Names
    BY DEF Leads, Route
  <2>4. c \in dir[t].holds
    BY <1>3, <1>7, <2>2, <2>3, NodesMade, PutLoses DEF Remove
  <2>5. CASE dir[n].type = "link"
    BY <1>2, <2>1, <2>2, <2>4, <2>5 DEF Accounted, Real
  <2>6. CASE dir[n].type # "link"
    BY <1>2, <1>3, <2>1, <2>2, <2>4, <2>6, LeadsHere DEF Accounted
  <2>7. QED BY <2>5, <2>6
<1>8. QED BY <1>4, <1>5, <1>6, <1>7

\* What the steps of the other backend, and mkdir on either side, lose.
LEMMA WpLoses ==
  ASSUME ManagerInv, Mkdir \/ Archive \/ Mv \/ Rm \/ FileDiskFull,
         NEW c \in Contents, c \in Kept, c \notin Kept', seen # {}
  PROVE  Accounted(c)
<1>1. pc # "idle"
  BY DEF Mkdir, Archive, Mv, Rm, FileDiskFull
<1>2. PICK n \in Names : n = req.name
  BY <1>1 DEF ManagerInv, Served
<1>3. dir \in Dirs /\ req \in Requests /\ \A m \in Names : dir[m] \in Nodes
  BY <1>1, <1>2, WhenActing
<1>4. CASE Mkdir
  <2>1. c \in dir[n].holds /\ dir[n].type = "none"
    BY <1>2, <1>3, <1>4, NodesMade, PutLoses DEF Mkdir
  <2>2. QED BY <2>1, <1>3, NodeFacts
<1>5. CASE Archive \/ (FileDiskFull /\ pc # "write")
  <2>1. pc = "archive" /\ (Put(n, File(req.text)) \/ Put(n, TornFile))
    BY <1>2, <1>5 DEF Archive, FileDiskFull
  <2>2. File(req.text) \in Nodes
    BY <1>1, <1>2, <2>1, WhenActing, NodesMade DEF ServedAt
  <2>3. c \in dir[n].holds
    BY <1>3, <2>1, <2>2, NodesMade, PutLoses
  <2>4. dir[n].type # "link"
    BY <1>3, <2>3, NodeFacts
  <2>5. /\ req.op \in {"create", "save"} /\ (req.op = "create" => ~Exists(n))
        /\ req.op = "save" => Leads(n) \subseteq Inside
    BY <1>1, <1>2, <2>1, WhenActing DEF ServedAt
  <2>6. CASE req.op = "create"
    BY <1>3, <2>3, <2>5, <2>6, NothingHolds
  <2>7. CASE req.op = "save"
    BY <1>2, <1>3, <2>3, <2>4, <2>5, <2>7, LeadsHere DEF Accounted, Real
  <2>8. QED BY <2>5, <2>6, <2>7
<1>6. CASE FileDiskFull /\ pc = "write"
  BY <1>6 DEF FileDiskFull, Kept
<1>7. CASE Mv
  <2>1. /\ req.op = "move" /\ req.dest \in Names /\ Exists(n) /\ ~Exists(req.dest)
    BY <1>1, <1>2, <1>7, WhenActing DEF ServedAt, Mv
  <2>2. PICK k \in Names : k = req.dest
    BY <2>1
  <2>3. dir[k].holds = {} /\ n # k /\ dir' = [dir EXCEPT ![k] = dir[n], ![n] = Nothing]
    BY <1>2, <1>3, <1>7, <2>1, <2>2, NothingHolds DEF Mv
  <2>4. QED BY <1>3, <2>3, MoveLosesNothing
<1>8. CASE Rm
  <2>1. req.op = "delete"
    BY <1>1, <1>2, <1>8, WhenActing DEF ServedAt, Rm
  <2>2. c \in dir[n].holds
    BY <1>2, <1>3, <1>8, NodesMade, PutLoses DEF Rm
  <2>3. QED BY <1>2, <2>1, <2>2 DEF Accounted
<1>9. QED BY <1>4, <1>5, <1>6, <1>7, <1>8

\* Whatever links there are and whoever interferes: a request loses no contents but those it was
\* to overwrite or delete, unless somebody overtook its check, or the host backend deletes a link.
THEOREM NothingElseLost == FileSpec => NothingElseIsLost
<1>1. ManagerInv /\ [FileNext]_fileVars
        => [\A c \in Contents : c \in Kept /\ c \notin Kept' => Accounted(c)]_fileVars
  <2> SUFFICES ASSUME ManagerInv, FileNext, NEW c \in Contents, c \in Kept, c \notin Kept'
               PROVE  Accounted(c)
    OBVIOUS
  <2>1. SUFFICES ASSUME seen # {}, dir' # dir PROVE Accounted(c)
    BY DEF Accounted, Kept
  <2>2. ASSUME NEW n \in Inside, HostCheck(n) \/ WpCheck(n) PROVE FALSE
    BY <2>1, <2>2 DEF HostCheck, WpCheck, HostCreate, HostSave, HostFolder, HostMove, HostDelete,
       WpCreate, WpSave, WpFolder, WpMove, WpDelete, Begin
  <2>3. CASE Act
    BY <2>1, <2>3, HostLoses, WpLoses, MvIntoKeeps DEF Act, Fail
  <2>4. ASSUME NEW n \in Names, Others(n) PROVE Accounted(c)
    BY <2>4 DEF Others, Accounted
  <2>5. CASE FileDiskFull \/ Restart
    BY <2>1, <2>5, WpLoses DEF Restart
  <2>6. QED BY <2>2, <2>3, <2>4, <2>5 DEF FileNext
<1>2. QED BY <1>1, Invariant, PTL DEF FileSpec, NothingElseIsLost

\* A request that nobody overtakes and that reports success has done what it says.
THEOREM SuccessTrue == FileSpec => []SuccessIsTrue
<1>1. ManagerInv => SuccessIsTrue
  BY DEF ManagerInv
<1>2. QED BY <1>1, Invariant, PTL
=============================================================================
