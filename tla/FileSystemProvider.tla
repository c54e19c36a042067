-------------------------- MODULE FileSystemProvider --------------------------
(***************************************************************************)
(* The file system provider (provider/file_system.py): requests that run   *)
(* at the same time, each a sequence of calls handed to threads, with no   *)
(* lock between them.  An action is one call and the code up to the next   *)
(* one; "at" names the call a request makes next.  The home directory of a *)
(* user is a folder like any other.                                        *)
(***************************************************************************)
EXTENDS FileSystem

CONSTANTS
    Task,      \* the requests that may be in progress at a time
    Requests,  \* the requests clients make: [method, path, ...]
    MaxParts   \* the parts (blocks) a request body comes in

ASSUME ProviderAssumption ==
    /\ MaxParts \in Nat \ {0}
    /\ \A r \in Requests :
         /\ r.method \in {"MKCOL", "DELETE", "PUT", "PROPPATCH", "GET", "COPY", "MOVE"}
         /\ r.path \in Path
         /\ r.method \in {"COPY", "MOVE"} =>
              /\ r.dst \in Path /\ r.overwrite \in BOOLEAN
              \* Bound: what is copied or moved is not above or below where it goes, ...
              /\ ~IsPrefix(r.path, r.dst) /\ ~IsPrefix(r.dst, r.path)
              \* ... where there is room for it.
              /\ \A p \in Path : IsPrefix(r.path, p) => AddChild(r.dst, GetChild(p, r.path)) \in Path
              /\ Append(r.dst, Name(r.path)) \in Path

VARIABLES
    disk,  \* the file system
    task,  \* what each request is about to do, and what a property says of it
    reply  \* the last status

fsVars == <<disk, task, reply>>

IdleTask == [at |-> "idle", object |-> NoFile]

-----------------------------------------------------------------------------
(* Steps of a request *)

\* What a request may change, and what it looks at besides.
Changes(r) ==
    LET named(p) == Tree(p) \union {PropertiesPath(p)}
    IN  CASE r.method = "MOVE" -> named(r.path) \union named(r.dst)
          [] r.method = "COPY" -> named(r.dst)
          [] r.method = "GET" -> {}
          [] OTHER -> named(r.path)

Scope(r) ==
    LET paths == {r.path} \union (IF r.method \in {"COPY", "MOVE"} THEN {r.dst} ELSE {})
    IN  UNION {Tree(p) \union {PropertiesPath(p), Self(Parent(p))} : p \in paths}

Disjoint(r, s) == Changes(r) \intersect Scope(s) = {} /\ Changes(s) \intersect Scope(r) = {}

Busy(t) == task[t] # IdleTask

\* A task goes on, having changed the disk or not.
Step(t, now, new) ==
    /\ task' = [task EXCEPT ![t] = now]
    /\ disk' = Settled(new, {task'[u].object : u \in Task})

Wrote(t, new) == task[t].wrote \/ new # disk

\* ... to its next call, ...
GoOn(t, now, new) == Step(t, [now EXCEPT !.wrote = Wrote(t, new)], new) /\ UNCHANGED reply
Goto(t, at, new) == GoOn(t, [task[t] EXCEPT !.at = at], new)

\* ... with a file open, ...
Open(t, at, object, new) == GoOn(t, [task[t] EXCEPT !.at = at, !.object = object], new)

\* ... or to its end.
Answer(t, status, new) ==
    /\ Step(t, IdleTask, new)
    /\ reply' = [status |-> status, wrote |-> Wrote(t, new)]

At(t, at) == task[t].at = at
Req(t) == task[t].request

\* A question to the file system.
Ask(t, at, question, yes, no) ==
    /\ At(t, at)
    /\ IF question THEN yes ELSE no

\* os or shutil raises; nothing catches it.
Raise(t) == Answer(t, 500, disk)

Success(r) == IF r.overwrite THEN 204 ELSE 201

-----------------------------------------------------------------------------
(* MKCOL, DELETE, PUT, PROPPATCH, GET *)

Creatable(path) == IsDir(disk, Parent(path))
BelowFile(path) == \E k \in 1 .. Len(path) - 1 : IsFile(disk, SubSeq(path, 1, k))

Mkcol(t) ==
    LET path == Req(t).path
    IN  /\ At(t, "mkcol")
        /\ CASE Exists(disk, Self(path)) -> Answer(t, 405, disk)
             [] BelowFile(path) -> Raise(t)
             [] ~Exists(disk, Self(Parent(path))) /\ ~BelowFile(path) -> Answer(t, 409, disk)
             [] OTHER -> Answer(t, 201, Mkdir(disk, path))

\* Mutant: the property file stays.
KeepProperties(t) == At(t, "delete_props") /\ Answer(t, 204, disk)

\* remove of a property file that may not be there
DeleteProperties(t) ==
    At(t, "delete_props") /\ Answer(t, 204, Unlink(disk, {PropertiesPath(Req(t).path)}))

Delete(t) ==
    LET path == Req(t).path
    IN  \/ Ask(t, "delete", Exists(disk, Self(path)), Goto(t, "delete_kind", disk), Answer(t, 404, disk))
        \/ Ask(t, "delete_kind", IsDir(disk, path), Goto(t, "rmtree", disk), Goto(t, "remove", disk))
        \/ Ask(t, "rmtree", IsDir(disk, path), Goto(t, "delete_props", Unlink(disk, Tree(path))), Raise(t))
        \/ Ask(t, "remove", IsFile(disk, path), Goto(t, "delete_props", Unlink(disk, {Self(path)})), Raise(t))
        \/ DeleteProperties(t)

\* A part of the body goes to its place in the file, over what others wrote there;
\* a hole is zeros.
WriteAt(blocks, k, body) ==
    [i \in 1 .. (IF k > Len(blocks) THEN k ELSE Len(blocks)) |->
        IF i = k THEN body ELSE IF i <= Len(blocks) THEN blocks[i] ELSE "zeros"]

Received(t) ==
    LET object == task[t].object
    IN  Overwrite(disk, object, WriteAt(disk.data[object], task[t].parts + 1, Req(t).body))

Put(t) ==
    LET path == Req(t).path
    IN  \/ Ask(t, "put", Exists(disk, Self(path)), Goto(t, "put_kind", disk), Goto(t, "put_parent", disk))
        \/ Ask(t, "put_kind", IsDir(disk, path), Answer(t, 405, disk), Goto(t, "put_parent", disk))
        \/ Ask(t, "put_parent", IsDir(disk, Parent(path)), Goto(t, "put_open", disk), Answer(t, 409, disk))
        \/ Ask(t, "put_open", Creatable(path) /\ ~IsDir(disk, path),
               Open(t, "receive", Truncate(disk, Self(path)).entry[Self(path)], Truncate(disk, Self(path))),
               Raise(t))
        \/ At(t, "put_open") /\ Answer(t, 403, disk)    \* PermissionError
        \/ /\ At(t, "receive")
           /\ \/ /\ task[t].parts + 1 < MaxParts
                 /\ GoOn(t, [task[t] EXCEPT !.parts = @ + 1], Received(t))
              \/ task[t].parts + 1 = MaxParts /\ Answer(t, 201, Received(t))
              \/ Answer(t, 201, disk)          \* http.disconnect

\* What becomes of the properties that were read.
Patched(file, r) == [Data(disk, file) EXCEPT ![r.key] = r.value]

\* The property file is read, patched in memory and written back.
Proppatch(t) ==
    LET r == Req(t)  file == PropertiesPath(r.path)
    IN  \/ Ask(t, "proppatch", Exists(disk, Self(r.path)), Goto(t, "touch", disk), Answer(t, 404, disk))
        \/ Ask(t, "touch", Exists(disk, file) \/ Creatable(r.path),
               Goto(t, "read_props", Touch(disk, file)), Raise(t))
        \/ Ask(t, "read_props", Exists(disk, file),
               GoOn(t, [task[t] EXCEPT !.at = "write_props", !.object = disk.entry[file],
                                       !.props = Patched(file, r)], disk),
               Raise(t))
        \/ /\ At(t, "write_props")
           /\ Answer(t, 207, Overwrite(disk, task[t].object, task[t].props))

\* Mutant: reading starts at the second block.
SkipsFirst(t) == Len(task[t].sent) + 2

NextBlock(t) == Len(task[t].sent) + 1

\* What it is is asked again after the stat, which gives a folder no length; the status
\* and the length are sent before the file is opened.
Get(t) ==
    LET path == Req(t).path
        get  == task[t]
        file == Data(disk, Self(path))
    IN  \/ Ask(t, "get", Exists(disk, Self(path)), Goto(t, "stat", disk), Answer(t, 404, disk))
        \/ Ask(t, "stat", Exists(disk, Self(path)),
               GoOn(t, [get EXCEPT !.at = "get_kind", !.length = IF IsDir(disk, path) THEN 0 ELSE Len(file)],
                    disk),
               Raise(t))
        \/ Ask(t, "get_kind", IsDir(disk, path), Answer(t, 200, disk), Goto(t, "get_open", disk))
        \/ Ask(t, "get_open", IsFile(disk, path), Open(t, "send", disk.entry[Self(path)], disk), Raise(t))
        \/ /\ At(t, "send")
           /\ LET blocks == disk.data[get.object]  k == NextBlock(t)
              IN  IF k <= Len(blocks)
                  THEN GoOn(t, [get EXCEPT !.sent = Append(@, blocks[k])], disk)
                  ELSE /\ Step(t, IdleTask, disk)
                       /\ reply' = [status |-> 200, wrote |-> FALSE, length |-> get.length, sent |-> get.sent]

-----------------------------------------------------------------------------
(* COPY and MOVE *)

\* Mutant: the property file of the source is the one that makes room.
SourceProperties(r) == PropertiesPath(r.path)

ReplacedProperties(r) == PropertiesPath(r.dst)

\* The property file of the source goes the way of the source, in place of that of
\* the destination.
TransferProperties(t, transferred) ==
    LET r == Req(t)
        src == PropertiesPath(r.path)
        dst == PropertiesPath(r.dst)
    IN  \/ Ask(t, "props", Exists(disk, src), Goto(t, "props_dst", disk), Answer(t, Success(r), disk))
        \/ Ask(t, "props_dst", Exists(disk, dst), Goto(t, "props_remove", disk), Goto(t, "props_last", disk))
        \/ Ask(t, "props_remove", Exists(disk, dst), 
               Goto(t, "props_last", Unlink(disk, {ReplacedProperties(r)})), Raise(t))
        \/ Ask(t, "props_last", Exists(disk, src) /\ Creatable(r.dst),
               Answer(t, Success(r), transferred), Raise(t))

\* Mutant: the destination is cleared before Overwrite is looked at.
RefuseCleared(t) == Answer(t, 412, Unlink(disk, Tree(Req(t).dst)))

RefuseOverwrite(t) == Answer(t, 412, disk)

\* A file copied onto a folder goes into it.
CopyFile(t) ==
    LET r == Req(t)
        dst == IF IsDir(disk, r.dst) THEN Append(r.dst, Name(r.path)) ELSE r.dst
    IN  Ask(t, "copy_file", IsFile(disk, r.path) /\ Creatable(dst) /\ ~IsDir(disk, dst),
            Goto(t, "props", CopyOver(disk, {Self(r.path)}, r.path, dst)), Raise(t))

\* Bound: members of the source and of the destination that have one name are of one kind.
Alike(r) ==
    \A n \in Tree(r.path) \intersect DOMAIN disk.entry :
        LET m == RenamedTo(n, r.path, r.dst)
        IN  Exists(disk, m) => (disk.entry[n] = Folder <=> disk.entry[m] = Folder)

CopyTree(t) ==
    LET r == Req(t)
        above == IsFile(disk, r.dst) \/ BelowFile(r.dst)
    IN  Ask(t, "copy_tree",
            IsDir(disk, r.path) /\ ~above /\ (r.overwrite \/ ~Exists(disk, Self(r.dst))),
            Alike(r) /\ Goto(t, "props", CopyOver(disk, Tree(r.path), r.path, r.dst)), Raise(t))

\* _copy_dir_depth0: the source is looked at when the folder has been made.
CopyDir(t) ==
    LET r == Req(t)
        there == Exists(disk, Self(r.dst))
        made  == IF there THEN disk ELSE Mkdir(disk, r.dst)
    IN  /\ At(t, "copy_dir")
        /\ CASE BelowFile(r.dst) -> Raise(t)
             [] /\ ~BelowFile(r.dst)
                /\ \/ there /\ (IsFile(disk, r.dst) \/ ~r.overwrite)
                   \/ ~Exists(disk, Self(Parent(r.dst))) -> Answer(t, 412, disk)
             [] OTHER -> IF Exists(disk, Self(r.path)) THEN Goto(t, "props", made) ELSE Answer(t, 412, made)

Copy(t) ==
    LET r == Req(t)
        copy == IF r.depth = "ZERO" THEN "copy_dir" ELSE "copy_tree"
    IN  \/ Ask(t, "copy", Exists(disk, Self(r.path)), Goto(t, "copy_parent", disk), Answer(t, 403, disk))
        \/ Ask(t, "copy_parent", Exists(disk, Self(Parent(r.dst))),
               Goto(t, IF r.overwrite THEN "copy_kind" ELSE "copy_dst", disk), Answer(t, 409, disk))
        \/ Ask(t, "copy_dst", Exists(disk, Self(r.dst)), RefuseOverwrite(t), Goto(t, "copy_kind", disk))
        \/ Ask(t, "copy_kind", IsDir(disk, r.path), Goto(t, copy, disk), Goto(t, "copy_file", disk))
        \/ CopyFile(t) \/ CopyTree(t) \/ CopyDir(t)
        \/ /\ r.method = "COPY"
           /\ TransferProperties(t, CopyOver(disk, {PropertiesPath(r.path)}, r.path, r.dst))

\* The checks of MOVE come after its questions about source and destination.
See(t, at, what, answer, next) ==
    /\ At(t, at)
    /\ GoOn(t, [task[t] EXCEPT !.at = next, !.seen = IF answer THEN @ \union {what} ELSE @], disk)

\* What rename(2) accepts.
Renamable(r) ==
    /\ Exists(disk, Self(r.path)) /\ Creatable(r.dst)
    /\ Exists(disk, Self(r.dst)) =>
         /\ IsDir(disk, r.path) <=> IsDir(disk, r.dst)
         /\ IsDir(disk, r.dst) => Inside(r.dst) \intersect DOMAIN disk.entry = {}

Move(t) ==
    LET r == Req(t)
        seen == task[t].seen
        clear == IF "dst" \notin seen THEN "rename" ELSE IF "dst_dir" \in seen THEN "move_rmtree" ELSE "move_remove"
    IN  \/ See(t, "move", "src", Exists(disk, Self(r.path)), "move_dst")
        \/ See(t, "move_dst", "dst", Exists(disk, Self(r.dst)), "move_dst_kind")
        \/ /\ See(t, "move_dst_kind", "dst_dir", IsDir(disk, r.dst), "move_parent")
           /\ "src" \in seen
        \/ At(t, "move_dst_kind") /\ "src" \notin seen /\ Answer(t, 403, disk)
        \/ Ask(t, "move_parent", Exists(disk, Self(Parent(r.dst))),
               IF "dst" \in seen /\ ~r.overwrite THEN RefuseOverwrite(t) ELSE Goto(t, clear, disk),
               Answer(t, 409, disk))
        \/ Ask(t, "move_rmtree", IsDir(disk, r.dst), Goto(t, "rename", Unlink(disk, Tree(r.dst))), Raise(t))
        \/ Ask(t, "move_remove", IsFile(disk, r.dst), Goto(t, "rename", Unlink(disk, {Self(r.dst)})), Raise(t))
        \/ Ask(t, "rename", Renamable(r), Goto(t, "props", Rename(disk, Tree(r.path), r.path, r.dst)), Raise(t))
        \/ /\ r.method = "MOVE"
           /\ TransferProperties(t, Rename(disk, {PropertiesPath(r.path)}, r.path, r.dst))

-----------------------------------------------------------------------------
FirstCall(r) ==
    CASE r.method = "MKCOL" -> "mkcol" [] r.method = "DELETE" -> "delete" [] r.method = "PUT" -> "put"
      [] r.method = "PROPPATCH" -> "proppatch" [] r.method = "GET" -> "get"
      [] r.method = "COPY" -> "copy" [] r.method = "MOVE" -> "move"

\* For the properties: what the request found, and whether it was alone with it.  A
\* request that was not may have a file open that has another name by now.
Started(r) ==
    [at |-> FirstCall(r), object |-> NoFile, request |-> r, parts |-> 0, props |-> NoProperties,
     seen |-> {}, length |-> 0, sent |-> <<>>, wrote |-> FALSE,
     before |-> Shown(disk, Scope(r)), alone |-> \A u \in Task : Busy(u) => task[u].alone /\ Disjoint(r, Req(u))]

Arrive(t, r) ==
    /\ ~Busy(t)
    /\ task' = [u \in Task |-> CASE u = t -> Started(r)
                                 [] u # t /\ Busy(u) -> [task[u] EXCEPT !.alone = @ /\ Disjoint(Req(u), r)]
                                 [] OTHER -> task[u]]
    /\ UNCHANGED <<disk, reply>>

InitFS ==
    /\ disk = EmptyDisk
    /\ task = [t \in Task |-> IdleTask]
    /\ reply = [status |-> 200, wrote |-> FALSE]

Call(t) == Busy(t) /\ (Mkcol(t) \/ Delete(t) \/ Put(t) \/ Proppatch(t) \/ Get(t) \/ Copy(t) \/ Move(t))

NextFS == \E t \in Task : Call(t) \/ \E r \in Requests : Arrive(t, r)

SpecFS == InitFS /\ [][NextFS]_fsVars
=============================================================================
