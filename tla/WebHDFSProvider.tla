---------------------------- MODULE WebHDFSProvider ----------------------------
(***************************************************************************)
(* The requests to the WebHDFS provider (provider/webhdfs.py) that change  *)
(* something.  Each is a sequence of calls to the HDFS server: looks at    *)
(* what is there, and then one call or two that act.  Any call may be      *)
(* refused, and any may be lost, with or without its effect; requests run  *)
(* between each other's calls.                                             *)
(*                                                                         *)
(* An action is one call and the code up to the next.  GET is in           *)
(* GetResponse, PROPFIND in WebDAV; the locks and conditions that          *)
(* provider/common.py looks at first are in DAVIfHeader.                   *)
(***************************************************************************)
EXTENDS DAVAuth, DAVPaths

CONSTANTS
    Part   \* what is stored of a body that ends early

VARIABLES
    hdfs,    \* what HDFS holds: folders and file contents by path
    remote,  \* what each request is about to call, and what it has seen
    reply    \* the last status

hdfsVars == << hdfs, remote, reply >>

Folder == "folder"
NotBusy == [at |-> "idle"]
Busy(t) == remote[t] # NotBusy
Calls(t, at) == remote[t].at = at
Req(t) == remote[t].request

-----------------------------------------------------------------------------
(* The HDFS server: what is there after a call that it carries out.        *)

Tree(fs, path) == {p \in DOMAIN fs : IsPrefix(path, p)}
Without(fs, path) == Restrict(fs, DOMAIN fs \ Tree(fs, path))
IsFolder(fs, path) == path \in DOMAIN fs /\ fs[path] = Folder
Above(path) == {SubSeq(path, 1, n) : n \in 0 .. Len(path) - 1}
CanHold(fs, path) == \A p \in Above(path) \intersect DOMAIN fs : fs[p] = Folder

\* MKDIRS and CREATE make the folders above.
PutAt(fs, path, what) ==
    [p \in DOMAIN fs \union Above(path) \union {path} |->
        IF p = path THEN what ELSE IF p \in DOMAIN fs THEN fs[p] ELSE Folder]

CanRename(fs, src, dst) ==
    /\ src \in DOMAIN fs /\ dst \notin DOMAIN fs
    /\ IsFolder(fs, Parent(dst)) /\ ~IsPrefix(src, dst)

\* RENAME of what is not there, or onto what is there, does nothing;
RenamedTo(fs, src, to) ==
    IF ~CanRename(fs, src, to) THEN fs
    ELSE LET image == [p \in Tree(fs, src) |-> to \o GetChild(p, src)]
             moved == {image[p] : p \in Tree(fs, src)}
         IN  [q \in (DOMAIN fs \ Tree(fs, src)) \union moved |->
                IF q \in moved THEN fs[CHOOSE p \in Tree(fs, src) : image[p] = q] ELSE fs[q]]

\* onto a folder, it moves into it.
Target(fs, src, dst) ==
    IF IsFolder(fs, dst) /\ src # << >> THEN Append(dst, Name(src)) ELSE dst

Renamed(fs, src, dst) == RenamedTo(fs, src, Target(fs, src, dst))

-----------------------------------------------------------------------------
(* Steps of a request.                                                     *)

\* A mutant: all users are given one directory.
UrlPathShared(t, path) == path

\* WebHDFSProvider._get_url_path
UrlPath(t, path) ==
    IF config.home_dir THEN << username[login[t].user] >> \o path ELSE path

Src(t) == UrlPath(t, Req(t).path)
Dst(t) == UrlPath(t, Req(t).dst)
Targets(t) == {Src(t)} \union (IF Req(t).method = "MOVE" THEN {Dst(t)} ELSE {})

GoOn(t, at) == remote' = [remote EXCEPT ![t].at = at] /\ UNCHANGED reply

Answer(t, status) ==
    /\ remote' = [remote EXCEPT ![t] = NotBusy]
    /\ reply' = status

\* The status HDFS gives when it refuses; and what an exception nobody catches makes.
RefusedStatus == 403
Raise(t) == Answer(t, 500)

\* A call: carried out, refused (HTTPStatusError), or lost (a transport error).
Call(t, possible, new, done, refused) ==
    \/ possible /\ hdfs' = new /\ done
    \/ hdfs' = hdfs /\ refused
    \/ hdfs' \in {hdfs} \union (IF possible THEN {new} ELSE {}) /\ Raise(t)

\* GETFILESTATUS: a refusal counts as nothing there.
Look(t, path, there, missing) ==
    \/ path \in DOMAIN hdfs /\ there
    \/ missing
    \/ Raise(t)

\* _precheck_source: the folder above (of a home directory, itself), then the resource itself.
Precheck(t) ==
    /\ \/ /\ Calls(t, "parent")
          /\ Look(t, UrlPath(t, Parent(Req(t).path)),
                  remote' = [remote EXCEPT ![t].parent_exists = TRUE, ![t].at = "itself"] /\ UNCHANGED reply,
                  GoOn(t, "itself"))
       \/ /\ Calls(t, "itself")
          /\ Look(t, Src(t),
                  remote' = [remote EXCEPT ![t].file_exists = TRUE, ![t].at = "prechecked"] /\ UNCHANGED reply,
                  GoOn(t, "prechecked"))
    /\ UNCHANGED hdfs

Prechecked(t, method) == Calls(t, "prechecked") /\ Req(t).method = method

\* A mutant: the folder is made before what was seen is looked at.
MkcolFirst(t) ==
    /\ Prechecked(t, "MKCOL")
    /\ Call(t, CanHold(hdfs, Src(t)) /\ Src(t) \notin DOMAIN hdfs, PutAt(hdfs, Src(t), Folder),
            Answer(t, IF remote[t].parent_exists THEN 201 ELSE 409), Answer(t, RefusedStatus))

Mkcol(t) ==
    /\ Prechecked(t, "MKCOL")
    /\ CASE ~remote[t].parent_exists -> Answer(t, 409) /\ UNCHANGED hdfs
         [] remote[t].parent_exists /\ remote[t].file_exists -> Answer(t, 405) /\ UNCHANGED hdfs
         [] OTHER -> Call(t, CanHold(hdfs, Src(t)) /\ (Src(t) \in DOMAIN hdfs => IsFolder(hdfs, Src(t))),
                          PutAt(hdfs, Src(t), Folder), Answer(t, 201), Answer(t, RefusedStatus))

\* Nothing is stored: HDFS knows no such properties.
Proppatch(t) ==
    /\ Prechecked(t, "PROPPATCH")
    /\ Answer(t, IF remote[t].file_exists THEN 207 ELSE 404)
    /\ UNCHANGED hdfs

Delete(t) ==
    /\ Prechecked(t, "DELETE")
    /\ IF ~remote[t].file_exists
       THEN Answer(t, 404) /\ UNCHANGED hdfs
       ELSE Call(t, TRUE, Without(hdfs, Src(t)), Answer(t, 204), Answer(t, 424))

\* CREATE says where to send the body, which goes there in a second call.
Create(t) ==
    /\ Prechecked(t, "PUT")
    /\ IF ~remote[t].parent_exists
       THEN Answer(t, 409) /\ UNCHANGED hdfs
       ELSE Call(t, TRUE, hdfs, GoOn(t, "store"), Answer(t, RefusedStatus))

\* http.disconnect ends the body like its last part.
Store(t) ==
    /\ Calls(t, "store")
    /\ \E what \in {Req(t).body, Part} :
         Call(t, CanHold(hdfs, Src(t)) /\ ~IsFolder(hdfs, Src(t)), PutAt(hdfs, Src(t), what),
              Answer(t, IF remote[t].file_exists THEN 204 ELSE 201), Answer(t, RefusedStatus))

\* do_head: whatever the refusal was, 404.
HeadOf(t) ==
    /\ Calls(t, "head")
    /\ Look(t, Src(t), Answer(t, 200), Answer(t, 404))
    /\ UNCHANGED hdfs

\* Not implemented.
Copy(t) == Calls(t, "copy") /\ Raise(t) /\ UNCHANGED hdfs

\* A mutant: a MOVE onto itself overwrites like any other.
LookWithoutEqualPaths(t) ==
    /\ \/ Calls(t, "dst_parent") /\ Look(t, Parent(Dst(t)), GoOn(t, "dst_itself"), Answer(t, 409))
       \/ Calls(t, "dst_itself") /\ Look(t, Dst(t), GoOn(t, "delete_dst"), GoOn(t, "rename"))
    /\ UNCHANGED hdfs

\* Without the look at the source, which _do_move does not take.
LookAtDestination(t) ==
    /\ \/ /\ Calls(t, "dst_parent")
          /\ Look(t, Parent(Dst(t)), GoOn(t, "dst_itself"), Answer(t, 409))
       \/ /\ Calls(t, "dst_itself")
          /\ LET decide(exists) ==
                   CASE Req(t).path = Req(t).dst -> Answer(t, 403)
                     [] Req(t).path # Req(t).dst /\ exists /\ ~Req(t).overwrite -> Answer(t, 412)
                     [] OTHER -> /\ remote' = [remote EXCEPT ![t].file_exists = exists,
                                                 ![t].at = IF exists THEN "delete_dst" ELSE "rename"]
                                 /\ UNCHANGED reply
             IN  Look(t, Dst(t), decide(TRUE), decide(FALSE))
    /\ UNCHANGED hdfs

\* A mutant: the MOVE goes on when its destination could not be deleted.
DeleteIfPossible(t) ==
    /\ Calls(t, "delete_dst")
    /\ Call(t, TRUE, Without(hdfs, Dst(t)), GoOn(t, "rename"), GoOn(t, "rename"))

DeleteDestination(t) ==
    /\ Calls(t, "delete_dst")
    /\ Call(t, TRUE, Without(hdfs, Dst(t)), GoOn(t, "rename"), Answer(t, 403))

Rename(t) ==
    /\ Calls(t, "rename")
    /\ Call(t, TRUE, Renamed(hdfs, Src(t), Dst(t)),
            Answer(t, IF remote[t].file_exists THEN 204 ELSE 201), Answer(t, RefusedStatus))

Step(t) ==
    \/ Precheck(t) \/ Mkcol(t) \/ Proppatch(t) \/ Delete(t) \/ Create(t) \/ Store(t)
    \/ HeadOf(t) \/ Copy(t) \/ LookAtDestination(t) \/ DeleteDestination(t) \/ Rename(t)
===============================================================================
