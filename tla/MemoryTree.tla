------------------------------ MODULE MemoryTree ------------------------------
(***************************************************************************)
(* The memory provider serving one request after the other: the tree after *)
(* any sequence of MKCOL, PUT, PROPPATCH, DELETE, COPY and MOVE.           *)
(***************************************************************************)
EXTENDS MemoryFS

CONSTANTS
    MaxNodes,  \* bound on the number of nodes
    Orderly    \* bound: clients create nothing below a file, and copy or move
               \* nothing onto itself, below itself or onto a folder it is in

ASSUME MaxNodes \in Nat /\ Orderly \in BOOLEAN

VARIABLES
    fs,   \* MemoryProvider.fs
    last  \* the last request and its status

treeVars == <<fs, last>>

Target == Path \union {Root}

Related(p, q) == IsPrefix(p, q) \/ IsPrefix(q, p)

\* The paths a COPY or MOVE makes are paths of the model.
Fits(src, dst) ==
    \A p \in DOMAIN fs.data : IsPrefix(src, p) => Moved(p, src, dst) \in Path

MayCreate(path) ==
    Orderly => (HasNode(fs, Parent(path)) => IsFolder(fs, Parent(path)))

\* The request is served and answered.
Serve(result, request) ==
    /\ Cardinality(DOMAIN result.fs.data) <= MaxNodes
    /\ fs' = result.fs
    /\ last' = [request EXCEPT !.status = result.status]

Request(method, path) == [method |-> method, path |-> path, status |-> 200]
Transfer(method, path, dst, depth) ==
    [method |-> method, path |-> path, dst |-> dst, depth |-> depth, status |-> 200]

InitTree ==
    /\ fs = EmptyFS
    /\ last = Request("OPTIONS", Root)

DoMkcol(path) == MayCreate(path) /\ Serve(Mkcol(fs, path), Request("MKCOL", path))

DoPut(path, content) ==
    MayCreate(path) /\ Serve(Put(fs, path, content), Request("PUT", path))

DoProppatch(path, extra) == Serve(Proppatch(fs, path, extra), Request("PROPPATCH", path))

DoDelete(path) == Serve(Delete(fs, path), Request("DELETE", path))

\* A COPY of a folder below itself never ends: it is left out, Orderly or not.
DoCopy(src, dst, depth, overwrite) ==
    /\ ~IsStrictPrefix(src, dst)
    /\ Orderly => ~Related(src, dst)
    /\ Fits(src, dst) /\ MayCreate(dst)
    /\ Serve(Copy(fs, src, dst, depth, overwrite), Transfer("COPY", src, dst, depth))

DoMove(src, dst, overwrite) ==
    /\ Orderly => ~Related(src, dst)
    /\ Fits(src, dst) /\ MayCreate(dst)
    /\ Serve(Move(fs, src, dst, overwrite), Transfer("MOVE", src, dst, "INFINITY"))

NextTree ==
    \/ \E path \in Target : DoMkcol(path) \/ DoDelete(path)
    \/ \E path \in Target, content \in Content : DoPut(path, content)
    \/ \E path \in Target, extra \in Extra : DoProppatch(path, extra)
    \/ \E src \in Target, dst \in Path, overwrite \in BOOLEAN :
         \/ DoMove(src, dst, overwrite)
         \/ \E depth \in DAVDepth : DoCopy(src, dst, depth, overwrite)

SpecTree == InitTree /\ [][NextTree]_treeVars
-----------------------------------------------------------------------------
TreeTypeOK ==
    /\ DOMAIN fs.data \subseteq Target
    /\ \A p \in DOMAIN fs.data : fs.data[p] \in Node /\ fs.data[p].props \in DOMAIN fs.props
    /\ DOMAIN fs.props \subseteq PropId
    /\ \A i \in DOMAIN fs.props : fs.props[i] \in Prop

\* After any sequence of requests, the two indexes of the tree agree: what PROPFIND
\* walks over (children) is what the other requests find (data), and nothing is left
\* behind by a deletion or an overwritten destination.
OneTree == IsOneTree(fs)

\* A request that is not a success (or a deletion or creation that answers its
\* success code for the root, where it does nothing) leaves the tree as it was.
RefusedChangesNothing ==
    [][last'.status >= 400 \/ (last'.path = Root /\ last'.method \in {"MKCOL", "DELETE"})
         => fs' = fs]_treeVars

Below(path) == {p \in DOMAIN fs.data : IsPrefix(path, p)}

\* What a node looks like to a client, and what it looks like later elsewhere.
Same(p, q) ==
    /\ fs'.data[q].is_file = fs.data[p].is_file
    /\ fs'.data[q].content = fs.data[p].content

SameProps(p, q) == fs'.props[fs'.data[q].props] = fs.props[fs.data[p].props]

Succeeded(method) == last'.method = method /\ last'.status < 300

\* A COPY of infinite depth: the destination is the source, node for node, with
\* nothing left of what it was before, and the source is as it was.  What is copied,
\* and each folder in it, has the properties it had.  The files in its folders are left
\* out: they get their folder's (memory.py:274-275), where memory.py:251 says "deepcopy
\* child to dst".
CopyIsWhole ==
    [][Succeeded("COPY") /\ last'.depth = "INFINITY" =>
         LET src == last'.path  dst == last'.dst
         IN  /\ {p \in DOMAIN fs'.data : IsPrefix(dst, p)}
                  = {Moved(p, src, dst) : p \in Below(src)}
             /\ \A p \in Below(src) :
                  /\ Same(p, Moved(p, src, dst)) /\ Same(p, p) /\ SameProps(p, p)
                  /\ p = src \/ ~fs.data[p].is_file => SameProps(p, Moved(p, src, dst))
       ]_treeVars

\* No request touches a node outside the trees it names.
OthersUntouched ==
    [][\A p \in DOMAIN fs.data :
         \/ IsPrefix(last'.path, p)
         \/ last'.method \in {"COPY", "MOVE"} /\ IsPrefix(last'.dst, p)
         \/ HasNode(fs', p) /\ Same(p, p)]_treeVars

Flat(path) == \A p \in Below(path) : Len(p) <= Len(path) + 1

\* A MOVE of a file, or of a folder without folders in folders: the destination is
\* what the source was, its properties included, and the source is gone.
FlatMoveIsWhole ==
    [][Succeeded("MOVE") /\ Flat(last'.path) =>
         LET src == last'.path  dst == last'.dst
         IN  /\ {p \in DOMAIN fs'.data : IsPrefix(dst, p) \/ IsPrefix(src, p)}
                  = {Moved(p, src, dst) : p \in Below(src)}
             /\ \A p \in Below(src) :
                  Same(p, Moved(p, src, dst)) /\ SameProps(p, Moved(p, src, dst))
       ]_treeVars
=============================================================================
