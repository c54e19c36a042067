------------------------------ MODULE FileSystem ------------------------------
(***************************************************************************)
(* The directory a file system provider serves, and the system calls that  *)
(* provider/file_system.py makes on it.  A resource is a file or a folder; *)
(* its dead properties are in a file of their own next to it, which is not *)
(* a resource.  An open file stays what it is when its name goes: a name   *)
(* leads to a file object, and the objects have the data.                  *)
(*                                                                         *)
(* rmtree, copytree and copy2 are one step each, as the calls of the event *)
(* loop's own thread that they are; and no resource is named *.WebDAV.     *)
(***************************************************************************)
EXTENDS DAVPaths

CONSTANTS
    Key,      \* names of dead properties
    Value,    \* their values
    NoValue   \* the property is not set

ASSUME FileAssumption ==
    /\ <<>> \notin Path
    /\ \A p \in Path : Len(p) > 1 => Parent(p) \in Path
    /\ NoValue \in Value

Root == <<>>

\* The name of a resource in the file system, and that of its property file.
Self(path) == <<path, "self">>
PropertiesPath(path) == <<path, "props">>
FileName == (Path \union {Root}) \X {"self", "props"}

Folder == <<>>
NoFile == <<>>

\* disk.entry leads from a name to Folder or to a file object, disk.data from a file
\* object to its blocks or properties.
EmptyDisk == [entry |-> [n \in {Self(Root)} |-> Folder], data |-> <<>>]

Exists(disk, name) == name \in DOMAIN disk.entry
IsDir(disk, path) == Exists(disk, Self(path)) /\ disk.entry[Self(path)] = Folder
IsFile(disk, path) == Exists(disk, Self(path)) /\ disk.entry[Self(path)] # Folder
Data(disk, name) == disk.data[disk.entry[name]]

\* What is in a folder, at any depth, the property files of its members included.
Inside(path) == {n \in FileName : IsStrictPrefix(path, n[1])}

\* Mutant: of a tree, the folder only.
TopOf(path) == {Self(path)}

\* A resource and what is in it.
Tree(path) == {Self(path)} \union Inside(path)

RenamedTo(name, src, dst) == <<AddChild(dst, GetChild(name[1], src)), name[2]>>

\* A file object that is not in use, for a file created under a name.
Fresh(disk, name) ==
    <<name, CHOOSE k \in 1 .. Cardinality(DOMAIN disk.data) + 1 :
                /\ <<name, k>> \notin DOMAIN disk.data
                /\ \A j \in 1 .. k - 1 : <<name, j>> \in DOMAIN disk.data>>

\* f with y for x.
With(f, x, y) == [z \in DOMAIN f \union {x} |-> IF z = x THEN y ELSE f[z]]

\* f with the items of g.
Updated(f, g) == [x \in DOMAIN f \union DOMAIN g |-> IF x \in DOMAIN g THEN g[x] ELSE f[x]]

-----------------------------------------------------------------------------
(* System calls *)

\* open(.., "wb"): an empty file, the one that is there or a new one.
Truncate(disk, name) ==
    LET object == IF Exists(disk, name) THEN disk.entry[name] ELSE Fresh(disk, name)
    IN  [entry |-> With(disk.entry, name, object), data |-> With(disk.data, object, <<>>)]

\* A write into an open file.
Overwrite(disk, object, data) ==
    IF object \in DOMAIN disk.data THEN [disk EXCEPT !.data[object] = data] ELSE disk

\* touch of a property file: JSON that is not there yet stands for no property.
NoProperties == [k \in Key |-> NoValue]

Touch(disk, name) ==
    IF Exists(disk, name) THEN disk ELSE Overwrite(Truncate(disk, name), Fresh(disk, name), NoProperties)

Mkdir(disk, path) == [disk EXCEPT !.entry = With(@, Self(path), Folder)]

\* remove, rmtree: the objects stay for who has them open.
Unlink(disk, names) == [disk EXCEPT !.entry = Restrict(@, DOMAIN @ \ names)]

\* rename: whatever has the new name has lost it.
Rename(disk, names, src, dst) ==
    LET there == names \intersect DOMAIN disk.entry
        old(n) == CHOOSE m \in there : RenamedTo(m, src, dst) = n
        new == {RenamedTo(n, src, dst) : n \in there}
    IN  [disk EXCEPT !.entry = Updated(Restrict(@, DOMAIN @ \ there), [n \in new |-> disk.entry[old(n)]])]

\* copy2, copytree: the data of files that are there is replaced, other files are
\* created, and so are the folders above the destination.
CopyOver(disk, names, src, dst) ==
    LET there == names \intersect DOMAIN disk.entry
        old(n) == CHOOSE m \in there : RenamedTo(m, src, dst) = n
        new == {RenamedTo(n, src, dst) : n \in there}
        above == {Self(SubSeq(dst, 1, k)) : k \in 1 .. Len(dst) - 1}
        object(n) == CASE disk.entry[old(n)] = Folder -> Folder
                       [] disk.entry[old(n)] # Folder /\ Exists(disk, n) -> disk.entry[n]
                       [] OTHER -> Fresh(disk, n)
        files == {n \in new : disk.entry[old(n)] # Folder}
    IN  [entry |-> Updated(disk.entry, [n \in new \union above |-> IF n \in new THEN object(n) ELSE Folder]),
         data |-> Updated(disk.data, [o \in {object(n) : n \in files} |->
                    Data(disk, old(CHOOSE n \in files : object(n) = o))])]

\* Data no name leads to and nobody has open is gone.
Settled(disk, open) ==
    [disk EXCEPT !.data = Restrict(@, DOMAIN @ \intersect (Range(disk.entry) \union open))]

\* What a client can see under some names.
Shown(disk, names) ==
    [n \in names \intersect DOMAIN disk.entry |->
        IF disk.entry[n] = Folder THEN [folder |-> TRUE] ELSE [folder |-> FALSE, data |-> Data(disk, n)]]
=============================================================================
