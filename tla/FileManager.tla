------------------------------ MODULE FileManager ------------------------------
(***************************************************************************)
(* The file manager of the panel, on one directory of a site.  Two         *)
(* backends share an interface (FileManagerBackend): HostFileBackend works *)
(* on the site's directory through the file system of the panel, and       *)
(* WordPressContentBackend on wp-content inside the running container,     *)
(* through docker exec and put_archive.  Handlers run one at a time, in    *)
(* the event loop, but each checks first and acts afterwards, while the    *)
(* site's own processes, imports and jobs change the same directory.       *)
(*                                                                         *)
(* A folder below is abstracted to the contents in it.  Links lead to      *)
(* entries of the same directory or out of it, to files that no form can   *)
(* name.  What is there must not lead out; a new name is not asked where   *)
(* it leads, so HostFileBackend may make a file out there (Open).          *)
(***************************************************************************)

CONSTANTS
  Names,      \* the entries looked at
  Outside,    \* those of them that are not in the directory, and that links may lead to
  NoName,
  Contents,   \* what files may hold
  FileEvents  \* what the environment may do in this instance:
              \*   "others"   processes of the site, imports and jobs change entries
              \*   "restart"  the panel is restarted
              \*   "disk"     the disk fills up while a file is written

ASSUME OutsideAssumption == Outside \subseteq Names

VARIABLES
  root,       \* the backend chosen on the page
  dir,        \* the directory: an entry, or nothing, under each name
  pc, req,    \* the handler: next step and the form it serves (the last one, when idle)
  reply,      \* how it ended, until somebody else changes the directory
  seen        \* history: the entries its checks depended on, {} once another changed one

fileVars == <<root, dir, pc, req, reply, seen>>

Inside == Names \ Outside

Nothing   == [type |-> "none", holds |-> {}, to |-> NoName]
TornFile  == [type |-> "torn", holds |-> {}, to |-> NoName]   \* truncated, not yet written
File(c)   == [type |-> "file", holds |-> {c}, to |-> NoName]
Folder(S) == [type |-> "folder", holds |-> S, to |-> NoName]
Link(n)   == [type |-> "link", holds |-> {}, to |-> n]

\* What the processes of a site, an import or a job may leave under a name.
Foreign ==
  {Nothing} \cup {File(c) : c \in Contents} \cup {Folder(S) : S \in SUBSET Contents}
    \cup {Link(n) : n \in Names}

\* Out of the directory only files are looked at.
Left(n) == IF n \in Outside THEN {Nothing} \cup {File(c) : c \in Contents} ELSE Foreign

Nodes == Foreign \cup {TornFile}

Requests == [op : {"create", "folder", "save", "move", "delete"}, name : Inside \cup {NoName},
             dest : Inside \cup {NoName}, target : Names \cup {NoName}, text : Contents \cup {NoName}]

FileInit ==
  /\ root \in {"host", "wp-content"}
  /\ dir = [n \in Names |-> Nothing]
  /\ pc = "idle"
  /\ req \in {r \in Requests : r.op = "create" /\ {r.name, r.dest, r.target, r.text} = {NoName}}
  /\ reply = "none" /\ seen = {}

-----------------------------------------------------------------------------
(***************************************************************************)
(* Links.                                                                  *)
(***************************************************************************)
Closed(S) == \A n \in S : dir[n].type = "link" => dir[n].to \in S

\* The names passed when n is opened: no names that their links do not leave go without them.
Route(n) == {m \in Names : \A S \in SUBSET (Names \ {m}) : n \in S => ~Closed(S)}

\* The entry, or free name, it leads to; none if the links run in a circle.
Leads(n) == {m \in Route(n) : dir[m].type # "link"}

Exists(n) == \E m \in Leads(n) : dir[m].type # "none"
IsFile(n) == \E m \in Leads(n) : dir[m].type \in {"file", "torn"}
IsFolder(n) == \E m \in Leads(n) : dir[m].type = "folder"

\* Where it leads, if that is in the directory.
Real(n) == Leads(n) \cap Inside

-----------------------------------------------------------------------------
(***************************************************************************)
(* The life of a request.  A check that fails is an error message and      *)
(* changes nothing.                                                        *)
(***************************************************************************)
Begin(step, op, n, d, t, c) ==
  /\ pc = "idle" /\ pc' = step
  /\ req' = [op |-> op, name |-> n, dest |-> d, target |-> t, text |-> c]
  /\ reply' = "none"
  /\ seen' = Route(n) \cup (IF op = "move" THEN Route(d) ELSE {})
  /\ UNCHANGED <<root, dir>>

End(answer) == pc' = "idle" /\ reply' = answer /\ UNCHANGED <<root, req, seen>>

Put(n, node) == dir' = [dir EXCEPT ![n] = node]

\* The container is gone, Docker or the file system refuses, or what was checked is no more.
Fail == pc # "idle" /\ End("error") /\ UNCHANGED dir

-----------------------------------------------------------------------------
(***************************************************************************)
(* HostFileBackend.  What exists is resolved first and acted on by its own *)
(* name; a new name is opened as it is.                                    *)
(***************************************************************************)

\* Mutant: a file that is there is not looked for.
HostCreateUnchecked(n, c) ==
  /\ root = "host" /\ ~IsFolder(n)
  /\ Begin("open", "create", n, NoName, NoName, c)

HostCreate(n, c) ==
  /\ root = "host" /\ ~Exists(n)
  /\ Begin("open", "create", n, NoName, NoName, c)

HostSave(n, c) ==
  /\ root = "host" /\ IsFile(n)
  /\ \E t \in Real(n) : Begin("open", "save", n, NoName, t, c)

HostFolder(n) == root = "host" /\ Begin("mkdir", "folder", n, NoName, NoName, NoName)

\* Mutant: the destination is not looked for.
HostMoveUnchecked(n, d) ==
  /\ root = "host" /\ Exists(n)
  /\ \E t \in Real(n) : Begin("rename", "move", n, d, t, NoName)

HostMove(n, d) ==
  /\ root = "host" /\ Exists(n) /\ ~Exists(d)
  /\ \E t \in Real(n) : Begin("rename", "move", n, d, t, NoName)

HostDelete(n) ==
  /\ root = "host" /\ Exists(n)
  /\ \E t \in Real(n) : Begin("remove", "delete", n, NoName, t, NoName)

\* write_text and write_bytes follow links, out of the directory too, truncate, and write.
Open ==
  /\ pc = "open" /\ pc' = "write"
  /\ \E w \in Leads(IF req.op = "save" THEN req.target ELSE req.name) :
       dir[w].type # "folder" /\ Put(w, TornFile) /\ req' = [req EXCEPT !.target = w]
  /\ UNCHANGED <<root, reply, seen>>

\* What is written to a file that was removed or replaced meanwhile is gone with it.
Write ==
  /\ pc = "write"
  /\ IF dir[req.target] = TornFile THEN Put(req.target, File(req.text)) ELSE UNCHANGED dir
  /\ End("done")

\* Mutant: a folder that is there will do.
MkdirExistOk ==
  /\ pc = "mkdir" /\ dir[req.name].type \in {"none", "folder"}
  /\ IF dir[req.name].type = "none" THEN Put(req.name, Folder({})) ELSE UNCHANGED dir
  /\ End("done")

\* mkdir never replaces anything, on either side.
Mkdir ==
  /\ pc = "mkdir" /\ dir[req.name].type = "none"
  /\ Put(req.name, Folder({}))
  /\ End("done")

\* rename(2) replaces a file with a file, and an empty folder with a folder.
Rename ==
  /\ pc = "rename" /\ dir[req.target].type # "none"
  /\ \/ dir[req.dest].type = "none"
     \/ dir[req.dest].type # "folder" /\ dir[req.target].type # "folder"
     \/ dir[req.dest] = Folder({}) /\ dir[req.target].type = "folder"
  /\ dir' = [dir EXCEPT ![req.dest] = dir[req.target], ![req.target] = Nothing]
  /\ End("done")

\* rmtree refuses a link to a folder, unlink takes any other entry.
Remove ==
  /\ pc = "remove" /\ dir[req.target].type # "none"
  /\ ~(dir[req.target].type = "link" /\ IsFolder(req.target))
  /\ Put(req.target, Nothing)
  /\ End("done")

-----------------------------------------------------------------------------
(***************************************************************************)
(* WordPressContentBackend.  The checks follow links, the commands that    *)
(* act work on the name itself.                                            *)
(***************************************************************************)
WpCreate(n, c) ==
  /\ root = "wp-content" /\ ~Exists(n)
  /\ Begin("archive", "create", n, NoName, n, c)

WpSave(n, c) ==
  /\ root = "wp-content" /\ IsFile(n) /\ Real(n) # {}
  /\ Begin("archive", "save", n, NoName, n, c)

WpFolder(n) ==
  /\ root = "wp-content" /\ ~Exists(n)
  /\ Begin("mkdir", "folder", n, NoName, n, NoName)

WpMove(n, d) ==
  /\ root = "wp-content" /\ Exists(n) /\ Real(n) # {} /\ ~Exists(d)
  /\ Begin("mv", "move", n, d, n, NoName)

WpDelete(n) ==
  /\ root = "wp-content" /\ Exists(n) /\ Real(n) # {}
  /\ Begin("rm", "delete", n, NoName, n, NoName)

\* Docker unpacks the archive: whatever has the name is replaced, a link or a folder as well.
Archive == pc = "archive" /\ Put(req.name, File(req.text)) /\ End("done")

\* mv goes into a folder that has the name by now, and replaces a file.
MvInto ==
  /\ pc = "mv" /\ dir[req.name].type # "none"
  /\ \E w \in Leads(req.dest) \ {req.name} :
       /\ dir[w].type = "folder"
       /\ dir' = [dir EXCEPT ![w] = Folder(@.holds \cup dir[req.name].holds), ![req.name] = Nothing]
  /\ End("done")

Mv ==
  /\ pc = "mv" /\ dir[req.name].type # "none" /\ ~IsFolder(req.dest)
  /\ dir[req.name].type = "folder" => dir[req.dest].type = "none"
  /\ dir' = [dir EXCEPT ![req.dest] = dir[req.name], ![req.name] = Nothing]
  /\ End("done")

Rm == pc = "rm" /\ Put(req.name, Nothing) /\ End("done")

-----------------------------------------------------------------------------
(***************************************************************************)
(* The environment.                                                        *)
(***************************************************************************)
Others(n) ==
  /\ "others" \in FileEvents
  /\ \E node \in Left(n) \ {dir[n]} : Put(n, node)
  /\ seen' = IF n \in seen THEN {} ELSE seen
  /\ reply' = "none"
  /\ UNCHANGED <<root, pc, req>>

\* A file that was being written is left empty or cut short.
FileDiskFull ==
  /\ "disk" \in FileEvents
  /\ \/ pc = "write" /\ UNCHANGED dir
     \/ pc = "archive" /\ Put(req.name, TornFile)
  /\ End("error")

Restart == "restart" \in FileEvents /\ pc # "idle" /\ End("none") /\ UNCHANGED dir

-----------------------------------------------------------------------------
HostCheck(n) ==
  \/ \E c \in Contents : HostCreate(n, c) \/ HostSave(n, c)
  \/ \E d \in Inside : HostMove(n, d)
  \/ HostFolder(n) \/ HostDelete(n)

WpCheck(n) ==
  \/ \E c \in Contents : WpCreate(n, c) \/ WpSave(n, c)
  \/ \E d \in Inside : WpMove(n, d)
  \/ WpFolder(n) \/ WpDelete(n)

Act ==
  \/ Open \/ Write \/ Mkdir \/ Rename \/ Remove \/ Archive \/ MvInto \/ Mv \/ Rm \/ Fail

FileNext ==
  \/ \E n \in Inside : HostCheck(n) \/ WpCheck(n)
  \/ Act
  \/ \E n \in Names : Others(n)
  \/ FileDiskFull \/ Restart

FileSpec == FileInit /\ [][FileNext]_fileVars

-----------------------------------------------------------------------------
Steps == {"idle", "open", "write", "mkdir", "rename", "remove", "archive", "mv", "rm"}

\* Every variable holds a value of its kind.
FileTypeOK ==
  /\ root \in {"host", "wp-content"}
  /\ dir \in [Names -> Nodes]
  /\ pc \in Steps /\ req \in Requests
  /\ reply \in {"none", "done", "error"} /\ seen \subseteq Names

\* A request is served by one backend, is at a step of what it asks for, and is not answered yet.
Served ==
  pc # "idle" =>
    /\ reply = "none" /\ req.name \in Inside
    /\ pc \in {"open", "write"} => root = "host" /\ req.op \in {"create", "save"}
    /\ pc = "mkdir"   => req.op = "folder"
    /\ pc = "rename"  => root = "host" /\ req.op = "move" /\ req.target \in Names
    /\ pc = "remove"  => root = "host" /\ req.op = "delete"
    /\ pc = "archive" => root = "wp-content" /\ req.op \in {"create", "save"}
    /\ pc = "mv"      => root = "wp-content" /\ req.op = "move"
    /\ pc = "rm"      => root = "wp-content" /\ req.op = "delete"
    /\ req.op = "move" => req.dest \in Inside
    /\ req.op \in {"create", "save"} => req.text \in Contents

\* As long as nobody else changed an entry its checks passed, what they found still holds when
\* the request acts.
ChecksStand ==
  pc # "idle" /\ seen # {} =>
    /\ seen = Route(req.name) \cup (IF req.op = "move" THEN Route(req.dest) ELSE {})
    /\ req.op = "create" /\ pc # "write" => ~Exists(req.name)
    /\ req.op = "move" => Exists(req.name) /\ ~Exists(req.dest)
    /\ root = "host" /\ req.op \in {"save", "move", "delete"} => req.target \in Leads(req.name)
    /\ req.op \in {"save", "move", "delete"} /\ pc # "write" => Leads(req.name) \subseteq Inside
    /\ pc = "write" => req.target \in Leads(req.name) /\ dir[req.target] = TornFile

Kept == UNION {dir[n].holds : n \in Names}

\* Who may lose the contents c in a step.
Accounted(c) ==
  \/ pc' = pc           \* somebody else
  \/ seen = {}          \* a request whose checks somebody has overtaken
  \/ req.op = "save" /\ \E m \in Real(req.name) : c \in dir[m].holds
  \/ req.op = "delete" /\ c \in dir[req.name].holds
  \/ /\ req.op = "delete" /\ root = "host" /\ dir[req.name].type = "link"
     /\ \E m \in Real(req.name) : c \in dir[m].holds

\* No step loses contents but those of somebody else, of a request that was overtaken between
\* its check and its act, of the save and the delete of the very entry that is named, and of
\* HostFileBackend deleting a link: it removes what the link leads to (the other backend removes
\* the link).  So creating, uploading and moving destroy nothing, a save overwrites no file but
\* the one its path leads to, and what is outside of the directory is not lost to any request
\* that nobody overtook, although new files may be made there (file_manager.py).
NothingElseIsLost ==
  [][\A c \in Contents : c \in Kept /\ c \notin Kept' => Accounted(c)]_fileVars

\* A request that reports success, and that nobody overtook, has done what it says: the name
\* leads to the text that was sent, the folder is there and empty, what was moved is found
\* under its new name only, and what was deleted is not listed any more.
SuccessIsTrue ==
  reply = "done" /\ seen # {} =>
    CASE req.op \in {"create", "save"} -> \E m \in Leads(req.name) : dir[m] = File(req.text)
      [] req.op = "folder" -> dir[req.name] = Folder({})
      [] req.op = "move"   -> ~Exists(req.name) /\ Exists(req.dest)
      [] req.op = "delete" -> ~Exists(req.name)

\* The inductive invariant: every variable is well formed, a request is at a step of its own,
\* its checks stand until somebody overtakes it, and a success that was reported is true.
ManagerInv == FileTypeOK /\ Served /\ ChecksStand /\ SuccessIsTrue
=============================================================================
