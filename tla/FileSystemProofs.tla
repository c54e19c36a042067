--------------------------- MODULE FileSystemProofs ---------------------------
(***************************************************************************)
(* The file system provider, for any requests at a time, paths and parts.  *)
(*                                                                         *)
(* Whatever requests do to each other, the disk stays a tree of folders    *)
(* and files of one name each (DiskOK).  What a request finds and does,    *)
(* whose resources no other touches, is a function of how far it is        *)
(* (Reached): of what it found when it began, of its answers so far and of *)
(* nothing else.  That others leave it alone is not only a matter of       *)
(* names: a file that one of them has open must not be one of its own      *)
(* (Apart), and a COPY must not make folders among them (Standing).        *)
(***************************************************************************)
EXTENDS FileSystemPromises, DAVPathsProofs

-----------------------------------------------------------------------------
(* The disk *)

\* What a file can consist of.
Block == {r.body : r \in {q \in Requests : q.method = "PUT"}} \union {"zeros"}

\* The disk is one function from names to folders and files, and one from files to
\* their data.
Shape(d) ==
    /\ d = [entry |-> d.entry, data |-> d.data]
    /\ d.entry = [n \in DOMAIN d.entry |-> d.entry[n]]
    /\ d.data = [o \in DOMAIN d.data |-> d.data[o]]
    /\ IsFiniteSet(DOMAIN d.entry) /\ IsFiniteSet(DOMAIN d.data)

\* Names are those of resources and of their property files, which are no folders.
Kinds(d) ==
    /\ DOMAIN d.entry \subseteq FileName \ {PropertiesPath(Root)}
    /\ Self(Root) \in DOMAIN d.entry /\ d.entry[Self(Root)] = Folder
    /\ \A n \in DOMAIN d.entry :
         IF d.entry[n] = Folder THEN n[2] = "self"
         ELSE d.entry[n] \in DOMAIN d.data /\ d.entry[n][1][2] = n[2]
    /\ \A o \in DOMAIN d.data :
         /\ o \in FileName \X (Nat \ {0})
         /\ o[1][2] = "self" => d.data[o] \in Seq(Block)

\* No file has two names.
OneName(d) ==
    \A m, n \in DOMAIN d.entry : d.entry[m] = d.entry[n] /\ d.entry[m] # Folder => m = n

\* Whatever has a name is in folders all the way up.
Hung(d) ==
    \A n \in DOMAIN d.entry : \A k \in 0 .. Len(n[1]) - 1 : IsDir(d, SubSeq(n[1], 1, k))

DiskOK(d) == Shape(d) /\ Kinds(d) /\ OneName(d) /\ Hung(d)

-----------------------------------------------------------------------------
(* Requests in progress *)

Ending == {"props", "props_dst", "props_remove", "props_last"}

\* The calls a request of a method can be at.
Stages(method) ==
    CASE method = "MKCOL" -> {"mkcol"}
      [] method = "DELETE" -> {"delete", "delete_kind", "rmtree", "remove", "delete_props"}
      [] method = "PUT" -> {"put", "put_kind", "put_parent", "put_open", "receive"}
      [] method = "PROPPATCH" -> {"proppatch", "touch", "read_props", "write_props"}
      [] method = "GET" -> {"get", "stat", "get_kind", "get_open", "send"}
      [] method = "COPY" -> {"copy", "copy_parent", "copy_dst", "copy_kind", "copy_file", "copy_tree",
                             "copy_dir"} \union Ending
      [] method = "MOVE" -> {"move", "move_dst", "move_dst_kind", "move_parent", "move_rmtree",
                             "move_remove", "rename"} \union Ending

Field == {"at", "object", "request", "parts", "props", "seen", "length", "sent", "wrote", "before", "alone"}

\* The file that a request opens.
Own(r) == IF r.method = "PROPPATCH" THEN PropertiesPath(r.path) ELSE Self(r.path)

Opened == {"receive", "write_props", "send"}

\* Calls up to which nothing has been written.
Asking ==
    {"mkcol", "delete", "delete_kind", "put", "put_kind", "put_parent", "put_open", "proppatch",
     "get", "stat", "get_kind", "copy", "copy_parent", "copy_dst", "copy_kind", "copy_dir",
     "move", "move_dst", "move_dst_kind", "move_parent"}

Running(x, d) ==
    /\ DOMAIN x = Field /\ x = [f \in Field |-> x[f]]
    /\ x.request \in Requests
    /\ x.at \in Stages(x.request.method)
    /\ x.at \in Opened <=> x.object # NoFile
    /\ x.object # NoFile => x.object \in DOMAIN d.data /\ x.object[1][2] = Own(x.request)[2]
    /\ x.parts \in 0 .. MaxParts - 1
    /\ x.sent \in Seq(Block)
    /\ x.alone \in BOOLEAN /\ x.wrote \in BOOLEAN
    /\ x.at \in Asking => ~x.wrote

TaskOK ==
    /\ DOMAIN task = Task
    /\ \A t \in Task : Busy(t) => Running(task[t], disk)

-----------------------------------------------------------------------------
(* Requests that are alone with their resources *)

Alone(t) == Busy(t) /\ task[t].alone

Others ==
    \A t, u \in Task : Alone(t) /\ Busy(u) /\ u # t => Disjoint(Req(t), Req(u)) /\ Disjoint(Req(u), Req(t))

\* What it has open has its name still.
Holding ==
    \A t \in Task : Alone(t) /\ task[t].object # NoFile =>
        Exists(disk, Own(Req(t))) /\ disk.entry[Own(Req(t))] = task[t].object

\* What another writes to is none of its files.
Apart ==
    \A t, u \in Task : Alone(t) /\ Busy(u) /\ u # t /\ Req(u).method # "GET" /\ task[u].object # NoFile =>
        \A n \in Scope(Req(t)) \intersect DOMAIN disk.entry : disk.entry[n] # task[u].object

\* What a COPY may take for missing of the folders above its destination is none of
\* its resources.
Standing ==
    \A t, u \in Task : Alone(t) /\ Busy(u) /\ task[u].at \in {"copy_dst", "copy_kind", "copy_tree"} =>
        \A k \in 1 .. Len(Req(u).dst) - 1 :
            Self(SubSeq(Req(u).dst, 1, k)) \in Scope(Req(t)) => Exists(disk, Self(SubSeq(Req(u).dst, 1, k)))

-----------------------------------------------------------------------------
(* How far a request r is that is alone: it found was, and now there is now. *)

Has(was, path) == Self(path) \in DOMAIN was
Fold(was, path) == Has(was, path) /\ was[Self(path)].folder
File(data) == [folder |-> FALSE, data |-> data]
AFolder == [folder |-> TRUE]

DeleteReached(r, was, at, now) ==
    LET path == r.path
    IN  /\ at # "delete_props" => now = was
        /\ at # "delete" => Has(was, path)
        /\ at = "rmtree" => Fold(was, path)
        /\ at = "remove" => ~Fold(was, path)
        /\ at = "delete_props" => now = Without(was, Tree(path))

PutReached(r, was, at, parts, now) ==
    LET path == r.path
    IN  /\ at # "receive" => now = was /\ parts = 0
        /\ at = "put_kind" => Has(was, path)
        /\ at \in {"put_parent", "put_open", "receive"} => ~Fold(was, path)
        /\ at \in {"put_open", "receive"} => Fold(was, Parent(path))
        /\ at = "receive" =>
             now = With(was, Self(path), File([i \in 1 .. parts |-> r.body]))

FirstProperties(r, was) ==
    IF PropertiesPath(r.path) \in DOMAIN was THEN was[PropertiesPath(r.path)].data ELSE NoProperties

ProppatchReached(r, was, at, props, now) ==
    LET first == FirstProperties(r, was)
    IN  /\ at \in {"proppatch", "touch"} => now = was
        /\ at # "proppatch" => Has(was, r.path)
        /\ at \in {"read_props", "write_props"} => now = With(was, PropertiesPath(r.path), File(first))
        /\ at = "write_props" => props = [first EXCEPT ![r.key] = r.value]

GetReached(r, was, at, length, sent, now) ==
    LET path == r.path
    IN  /\ now = was
        /\ at # "get" => Has(was, path)
        /\ at \in {"get_open", "send"} => ~Fold(was, path)
        /\ at \in {"get_kind", "get_open", "send"} /\ ~Fold(was, path) =>
             /\ was[Self(path)].data \in Seq(Block)
             /\ length = Len(was[Self(path)].data)
        /\ at # "send" => sent = << >>
        /\ at = "send" => Len(sent) <= length /\ sent = SubSeq(was[Self(path)].data, 1, Len(sent))

\* The resource, or the tree, that a COPY takes.
Taken(r) == IF r.depth = "ZERO" THEN {Self(r.path)} ELSE Tree(r.path)

\* A COPY or MOVE has left the property files: done is what it has made of the others.
EndReached(r, was, at, now, done) ==
    /\ Has(was, r.path) /\ Fold(was, Parent(r.dst)) /\ (Has(was, r.dst) => r.overwrite)
    /\ at # "props_last" => now = done
    /\ at # "props" => PropertiesPath(r.path) \in DOMAIN was
    /\ at = "props_remove" => PropertiesPath(r.dst) \in DOMAIN now
    /\ at = "props_last" => now = Without(done, {PropertiesPath(r.dst)})

CopyReached(r, was, at, now) ==
    IF at \in Ending
    THEN ~Clash(r, was) => EndReached(r, was, at, now, Updated(was, Image(was, Taken(r), r.path, r.dst)))
    ELSE /\ now = was
         /\ at # "copy" => Has(was, r.path)
         /\ at \notin {"copy", "copy_parent"} => Has(was, Parent(r.dst))
         /\ at = "copy_dst" => ~r.overwrite
         /\ at \in {"copy_kind", "copy_file", "copy_tree", "copy_dir"} => (Has(was, r.dst) => r.overwrite)
         /\ at = "copy_file" => ~Fold(was, r.path)
         /\ at \in {"copy_tree", "copy_dir"} => Fold(was, r.path)
         /\ at = "copy_tree" => r.depth # "ZERO"
         /\ at = "copy_dir" => r.depth = "ZERO"

MoveReached(r, was, at, seen, now) ==
    IF at \in Ending
    THEN EndReached(r, was, at, now, Updated(Without(was, Tree(r.dst) \union Tree(r.path)),
                                    Image(was, Tree(r.path), r.path, r.dst)))
    ELSE /\ now = IF at = "rename" THEN Without(was, Tree(r.dst)) ELSE was
         /\ "src" \in seen <=> at # "move" /\ Has(was, r.path)
         /\ "dst" \in seen <=> at \notin {"move", "move_dst"} /\ Has(was, r.dst)
         /\ "dst_dir" \in seen <=> at \notin {"move", "move_dst", "move_dst_kind"} /\ Fold(was, r.dst)
         /\ at \notin {"move", "move_dst", "move_dst_kind"} => Has(was, r.path)
         /\ at \in {"move_rmtree", "move_remove", "rename"} =>
              Has(was, Parent(r.dst)) /\ (Has(was, r.dst) => r.overwrite)
         /\ at = "rename" => now = was \/ Fold(was, Parent(r.dst))
         /\ at = "move_rmtree" => Fold(was, r.dst)
         /\ at = "move_remove" => Has(was, r.dst) /\ ~Fold(was, r.dst)

Reached(x, now) ==
    LET r == x.request  was == x.before  at == x.at
    IN  /\ r.method = "MKCOL" => now = was
        /\ r.method = "DELETE" => DeleteReached(r, was, at, now)
        /\ r.method = "PUT" => PutReached(r, was, at, x.parts, now)
        /\ r.method = "PROPPATCH" => ProppatchReached(r, was, at, x.props, now)
        /\ r.method = "GET" => GetReached(r, was, at, x.length, x.sent, now)
        /\ r.method = "COPY" => CopyReached(r, was, at, now)
        /\ r.method = "MOVE" => MoveReached(r, was, at, x.seen, now)

FSInv ==
    /\ DiskOK(disk)
    /\ TaskOK
    /\ Others /\ Holding /\ Apart /\ Standing
    /\ \A t \in Task : Alone(t) => Reached(task[t], Shown(disk, Scope(Req(t))))

-----------------------------------------------------------------------------
(* Names                                                                   *)

\* Paths of requests are sequences, and so is what is above them.
LEMMA PathFacts ==
    ASSUME NEW p \in Path
    PROVE  p \in Seq(Segment) /\ Len(p) \in Nat \ {0} /\ Parent(p) \in Path \union {Root}
           /\ Parent(p) = SubSeq(p, 1, Len(p) - 1)
<1>1. p \in Seq(Segment) /\ p # << >>
  BY PathAssumption, FileAssumption
<1>2. Len(p) \in Nat \ {0}
  BY <1>1
<1>3. ASSUME Len(p) = 1 PROVE Parent(p) = Root
  <2>1. Parent(p) \in Seq(Segment) /\ Len(Parent(p)) = 0
    BY <1>1, <1>3, FirstSegments DEF Parent
  <2>2. Parent(p) = << >>
    BY <2>1
  <2>3. QED
    BY <2>2 DEF Root
<1>4. ASSUME Len(p) > 1 PROVE Parent(p) \in Path
  BY <1>4, FileAssumption
<1>5. Parent(p) = SubSeq(p, 1, Len(p) - 1)
  BY DEF Parent
<1>6. Len(p) = 1 \/ Len(p) > 1
  BY <1>2
<1>7. QED
  BY <1>1, <1>2, <1>3, <1>4, <1>5, <1>6

\* Every folder above a path is a path too, but for the root.
LEMMA FoldersAbove ==
    ASSUME NEW p \in Path, NEW k \in 1 .. Len(p)
    PROVE  SubSeq(p, 1, k) \in Path
<1> DEFINE bad == {j \in 0 .. Len(p) - 1 : SubSeq(p, 1, Len(p) - j) \notin Path}
<1>1. p \in Seq(Segment) /\ Len(p) \in Nat \ {0}
  BY PathFacts
<1>2. bad = {}
  <2> SUFFICES ASSUME bad # {} PROVE FALSE
    OBVIOUS
  <2>1. bad \in SUBSET Nat
    BY <1>1
  <2>2. PICK i \in bad : \A j \in bad : i <= j
    BY <2>1, Smallest
  <2>3. SubSeq(p, 1, Len(p)) = p
    BY <1>1
  <2>4. i # 0
    <3>1. Len(p) - 0 = Len(p)
      BY <1>1
    <3>2. QED
      BY <2>2, <2>3, <3>1
  <2>5. i \in 1 .. Len(p) - 1 /\ i - 1 \in 0 .. Len(p) - 1 /\ i - 1 \notin bad
    BY <1>1, <2>2, <2>4
  <2> DEFINE q == SubSeq(p, 1, Len(p) - (i - 1))
  <2>6. q \in Path
    BY <2>5
  <2>7. Len(q) = Len(p) - (i - 1) /\ Len(q) > 1
    BY <1>1, <2>5, FirstSegments
  <2>8. Parent(q) = SubSeq(p, 1, Len(p) - i)
    <3>1. Parent(q) = SubSeq(q, 1, Len(q) - 1)
      BY DEF Parent
    <3>2. Len(q) - 1 = Len(p) - i /\ Len(q) - 1 <= Len(q) /\ Len(q) <= Len(p)
      BY <1>1, <2>5, <2>7
    <3>3. IsPrefix(q, p)
      BY <1>1, <2>5, FirstSegments
    <3>4. q \in Seq(Segment)
      BY <2>6, PathFacts
    <3>5. Len(p) - i \in 0 .. Len(q)
      BY <1>1, <2>5, <2>7
    <3> HIDE DEF q
    <3>6. SubSeq(p, 1, Len(p) - i) = SubSeq(q, 1, Len(p) - i)
      BY <1>1, <3>3, <3>4, <3>5, PrefixIsFirst
    <3>7. QED
      BY <3>1, <3>2, <3>6
  <2>9. Parent(q) \in Path
    BY <2>6, <2>7, FileAssumption
  <2>10. QED
    BY <2>2, <2>8, <2>9
<1>3. Len(p) - k \in 0 .. Len(p) - 1 /\ Len(p) - (Len(p) - k) = k
  BY <1>1
<1>4. QED
  BY <1>2, <1>3

\* A name and its path.
LEMMA NameFacts ==
    ASSUME NEW n \in FileName
    PROVE  /\ n = << n[1], n[2] >> /\ n[1] \in Path \union {Root} /\ n[1] \in Seq(Segment)
           /\ n[2] \in {"self", "props"}
<1>1. n = << n[1], n[2] >> /\ n[1] \in Path \union {Root} /\ n[2] \in {"self", "props"}
  BY DEF FileName
<1>2. Root \in Seq(Segment)
  BY DEF Root
<1>3. QED
  BY <1>1, <1>2, PathFacts

\* What is in a tree has its path above it.
LEMMA TreeFacts ==
    ASSUME NEW p \in Seq(Segment), NEW n \in FileName
    PROVE  /\ n \in Tree(p) <=> IsPrefix(p, n[1]) /\ (n[1] = p => n[2] = "self")
           /\ n \in Resource(p) <=> IsPrefix(p, n[1])
           /\ n \in Inside(p) <=> IsPrefix(p, n[1]) /\ n[1] # p
<1>1. n = << n[1], n[2] >> /\ n[1] \in Seq(Segment) /\ n[2] \in {"self", "props"}
  BY NameFacts
<1>2. IsPrefix(p, p)
  BY PrefixReflexive DEF IsParentOfOrIsSelf
<1>3. n \in Inside(p) <=> IsPrefix(p, n[1]) /\ n[1] # p
  BY DEF Inside, IsStrictPrefix
<1>4. n = Self(p) <=> n[1] = p /\ n[2] = "self"
  BY <1>1 DEF Self
<1>5. n = PropertiesPath(p) <=> n[1] = p /\ n[2] = "props"
  BY <1>1 DEF PropertiesPath
<1>6. QED
  BY <1>1, <1>2, <1>3, <1>4, <1>5 DEF Tree, Resource

\* What a name becomes when its resource goes elsewhere.
LEMMA RenamedFacts ==
    ASSUME NEW src \in Seq(Segment), NEW dst \in Seq(Segment), NEW n \in FileName, IsPrefix(src, n[1])
    PROVE  LET m == RenamedTo(n, src, dst)
           IN  /\ m = << m[1], m[2] >>
               /\ m[1] = Relocated(n[1], src, dst) /\ m[1] \in Seq(Segment) /\ m[2] = n[2]
               /\ IsPrefix(dst, m[1]) /\ (m[1] = dst <=> n[1] = src)
               /\ RenamedTo(m, dst, src) = n
<1> DEFINE m == RenamedTo(n, src, dst)
<1>1. n = << n[1], n[2] >> /\ n[1] \in Seq(Segment)
  BY NameFacts
<1>2. m = << Relocated(n[1], src, dst), n[2] >>
  BY DEF RenamedTo, Relocated
<1>3. m = << m[1], m[2] >> /\ m[1] = Relocated(n[1], src, dst) /\ m[2] = n[2]
  BY <1>2
<1> HIDE DEF m
<1>4. m[1] \in Seq(Segment) /\ IsPrefix(dst, m[1]) /\ Relocated(m[1], dst, src) = n[1]
  BY <1>1, <1>3, RelocatedFacts, RelocatedBack
<1>5. RenamedTo(m, dst, src) = n
  BY <1>1, <1>3, <1>4 DEF RenamedTo, Relocated
<1>6. m[1] = dst <=> n[1] = src
  BY <1>3, <1>4, RelocatedTop
<1>7. QED
  BY <1>3, <1>4, <1>5, <1>6 DEF m

-----------------------------------------------------------------------------
(* What an operation leaves as it was                                      *)

\* A name leads to what it led to.
Same(d, new, n) ==
    /\ n \in DOMAIN new.entry <=> n \in DOMAIN d.entry
    /\ n \in DOMAIN d.entry =>
         /\ new.entry[n] = d.entry[n]
         /\ d.entry[n] # Folder => new.data[d.entry[n]] = d.data[d.entry[n]]

LEMMA ShownSame ==
    ASSUME NEW d, NEW new, NEW S, \A n \in S : Same(d, new, n)
    PROVE  Shown(new, S) = Shown(d, S)
<1>1. S \intersect DOMAIN new.entry = S \intersect DOMAIN d.entry
  BY DEF Same
<1>2. \A n \in S \intersect DOMAIN d.entry :
        /\ new.entry[n] = d.entry[n]
        /\ d.entry[n] # Folder => Data(new, n) = Data(d, n)
  BY DEF Same, Data
<1>3. QED
  BY <1>1, <1>2 DEF Shown

\* What is shown of a disk.
LEMMA ShownFacts ==
    ASSUME NEW d, DiskOK(d), NEW S, NEW n \in S
    PROVE  LET now == Shown(d, S)
           IN  /\ DOMAIN now = S \intersect DOMAIN d.entry /\ now = [m \in DOMAIN now |-> now[m]]
               /\ n \in DOMAIN now <=> Exists(d, n)
               /\ Exists(d, n) => now[n] = IF d.entry[n] = Folder THEN [folder |-> TRUE] ELSE File(Data(d, n))
               /\ Exists(d, n) => (now[n].folder <=> d.entry[n] = Folder)
               /\ Exists(d, n) /\ d.entry[n] # Folder => now[n].data = Data(d, n)
BY DEF Shown, Exists, File

LEMMA ShownKind ==
    ASSUME NEW d, DiskOK(d), NEW S, NEW p, Self(p) \in S
    PROVE  /\ Has(Shown(d, S), p) <=> Exists(d, Self(p))
           /\ Fold(Shown(d, S), p) <=> IsDir(d, p)
           /\ IsFile(d, p) <=> Exists(d, Self(p)) /\ ~IsDir(d, p)
<1>1. Has(Shown(d, S), p) <=> Exists(d, Self(p))
  BY ShownFacts DEF Has
<1>2. Exists(d, Self(p)) => (Shown(d, S)[Self(p)].folder <=> d.entry[Self(p)] = Folder)
  BY ShownFacts
<1>3. QED
  BY <1>1, <1>2 DEF Fold, IsDir, IsFile

LEMMA EntryReplaced ==
    ASSUME NEW d, Shape(d), NEW f
    PROVE  LET new == [d EXCEPT !.entry = f]
           IN  new = [entry |-> new.entry, data |-> new.data] /\ new.entry = f /\ new.data = d.data
<1>1. d = [entry |-> d.entry, data |-> d.data]
  BY DEF Shape
<1>2. QED
  BY <1>1

LEMMA DataReplaced ==
    ASSUME NEW d, Shape(d), NEW o, NEW v
    PROVE  LET new == [d EXCEPT !.data[o] = v]
           IN  /\ new = [entry |-> new.entry, data |-> new.data] /\ new.entry = d.entry
               /\ new.data = [d.data EXCEPT ![o] = v]
<1>1. d = [entry |-> d.entry, data |-> d.data]
  BY DEF Shape
<1>2. QED
  BY <1>1

\* A path whose folder is there has folders all the way up.
LEMMA FoldersUp ==
    ASSUME NEW d, DiskOK(d), NEW p \in Path
    PROVE  /\ Exists(d, Self(Parent(p))) => \A k \in 0 .. Len(p) - 2 : IsDir(d, SubSeq(p, 1, k))
           /\ IsDir(d, Parent(p)) => \A k \in 0 .. Len(p) - 1 : IsDir(d, SubSeq(p, 1, k))
<1>1. p \in Seq(Segment) /\ Len(p) \in Nat \ {0} /\ Parent(p) = SubSeq(p, 1, Len(p) - 1)
  BY PathFacts
<1>2. /\ Parent(p) \in Seq(Segment) /\ Len(Parent(p)) = Len(p) - 1 /\ IsPrefix(Parent(p), p)
  <2>1. Len(p) - 1 \in 0 .. Len(p)
    BY <1>1
  <2>2. QED
    BY <1>1, <2>1, FirstSegments
<1>3. \A k \in 0 .. Len(p) - 2 : SubSeq(p, 1, k) = SubSeq(Parent(p), 1, k)
  <2> TAKE k \in 0 .. Len(p) - 2
  <2>1. k \in 0 .. Len(Parent(p))
    BY <1>1, <1>2
  <2>2. QED
    BY <1>1, <1>2, <2>1, PrefixIsFirst
<1>4. ASSUME Exists(d, Self(Parent(p))), NEW k \in 0 .. Len(p) - 2
      PROVE  IsDir(d, SubSeq(p, 1, k))
  <2>1. Self(Parent(p))[1] = Parent(p) /\ Self(Parent(p)) \in DOMAIN d.entry
    BY <1>4 DEF Self, Exists
  <2>2. k \in 0 .. Len(Self(Parent(p))[1]) - 1
    BY <1>1, <1>2, <2>1
  <2>3. IsDir(d, SubSeq(Parent(p), 1, k))
    BY <2>1, <2>2 DEF DiskOK, Hung
  <2>4. QED
    BY <1>3, <2>3
<1>5. ASSUME IsDir(d, Parent(p)), NEW k \in 0 .. Len(p) - 1
      PROVE  IsDir(d, SubSeq(p, 1, k))
  <2>1. Exists(d, Self(Parent(p)))
    BY <1>5 DEF IsDir
  <2>2. k = Len(p) - 1 \/ k \in 0 .. Len(p) - 2
    BY <1>1
  <2>3. QED
    BY <1>1, <1>4, <1>5, <2>1, <2>2
<1>6. QED
  BY <1>4, <1>5

\* So of what there is, the folder is there.
LEMMA ParentIsThere ==
    ASSUME NEW d, DiskOK(d), NEW p \in Path, NEW n \in FileName, n[1] = p, Exists(d, n)
    PROVE  IsDir(d, Parent(p))
<1>1. p \in Seq(Segment) /\ Len(p) \in Nat \ {0} /\ Parent(p) = SubSeq(p, 1, Len(p) - 1)
  BY PathFacts
<1>2. Len(p) - 1 \in 0 .. Len(p) - 1 /\ n \in DOMAIN d.entry
  BY <1>1 DEF Exists
<1>3. QED
  BY <1>1, <1>2 DEF DiskOK, Hung

\* Below what is no folder there is nothing.
LEMMA NothingInside ==
    ASSUME NEW d, DiskOK(d), NEW p \in Path, ~IsDir(d, p)
    PROVE  Inside(p) \intersect DOMAIN d.entry = {}
<1> SUFFICES ASSUME NEW n \in Inside(p), n \in DOMAIN d.entry
             PROVE  FALSE
  OBVIOUS
<1>1. n \in FileName
  BY DEF Inside
<1>2. p \in Seq(Segment) /\ n[1] \in Seq(Segment) /\ IsPrefix(p, n[1]) /\ n[1] # p
  BY <1>1, PathFacts, NameFacts, TreeFacts
<1>3. Len(p) <= Len(n[1]) /\ p = SubSeq(n[1], 1, Len(p)) /\ Len(p) \in Nat /\ Len(n[1]) \in Nat
  BY <1>2, PrefixIsFirst
<1>4. Len(p) # Len(n[1])
  BY <1>2, <1>3
<1>5. Len(p) \in 0 .. Len(n[1]) - 1
  BY <1>3, <1>4
<1>6. IsDir(d, p)
  BY <1>3, <1>5 DEF DiskOK, Hung
<1>7. QED
  BY <1>6

-----------------------------------------------------------------------------
(* What each operation makes of the disk                                   *)

LEMMA FreshIsNew ==
    ASSUME NEW d, DiskOK(d), NEW n
    PROVE  Fresh(d, n)[1] = n /\ Fresh(d, n) = << n, Fresh(d, n)[2] >> /\ Fresh(d, n)[2] \in Nat \ {0}
           /\ Fresh(d, n) \notin DOMAIN d.data
<1> DEFINE H == DOMAIN d.data
           k == CHOOSE k \in 1 .. Cardinality(H) + 1 :
                    << n, k >> \notin H /\ \A j \in 1 .. k - 1 : << n, j >> \in H
<1>1. IsFiniteSet(H)
  BY DEF DiskOK, Shape
<1>2. k \in Nat \ {0} /\ << n, k >> \notin H
  BY <1>1, FirstFree
<1>3. Fresh(d, n) = << n, k >>
  BY DEF Fresh
<1> HIDE DEF k
<1>4. QED
  BY <1>2, <1>3

LEMMA ObjectIsNoFolder == \A o \in FileName \X (Nat \ {0}) : o # Folder
<1> TAKE o \in FileName \X (Nat \ {0})
<1>1. o = << o[1], o[2] >>
  OBVIOUS
<1>2. QED
  BY <1>1 DEF Folder

\* A folder is made where there is none.
LEMMA MkdirOK ==
    ASSUME NEW d, DiskOK(d), NEW p \in Path, ~Exists(d, Self(p)), IsDir(d, Parent(p))
    PROVE  LET new == Mkdir(d, p)
           IN  /\ DiskOK(new)
               /\ new.entry = With(d.entry, Self(p), Folder) /\ new.data = d.data
               /\ \A n : n # Self(p) => Same(d, new, n)
<1> DEFINE new == Mkdir(d, p)
<1>1. Shape(d) /\ Kinds(d) /\ OneName(d) /\ Hung(d)
  BY DEF DiskOK
<1>2. /\ new = [entry |-> new.entry, data |-> new.data]
      /\ new.entry = With(d.entry, Self(p), Folder) /\ new.data = d.data
  BY <1>1, EntryReplaced DEF Mkdir
<1> HIDE DEF new
<1>3. /\ DOMAIN new.entry = DOMAIN d.entry \union {Self(p)}
      /\ \A n \in DOMAIN new.entry : new.entry[n] = IF n = Self(p) THEN Folder ELSE d.entry[n]
      /\ new.entry = [n \in DOMAIN new.entry |-> new.entry[n]]
  BY <1>2 DEF With
<1>4. IsFiniteSet(DOMAIN new.entry)
  BY <1>1, <1>3, FS_AddElement DEF Shape
<1>5. Shape(new)
  BY <1>1, <1>2, <1>3, <1>4 DEF Shape
<1>6. Self(p) \in FileName /\ Self(p)[1] = p /\ Self(p)[2] = "self" /\ Self(p) # PropertiesPath(Root)
  BY DEF Self, FileName, PropertiesPath
<1>7. Kinds(new)
  BY <1>1, <1>2, <1>3, <1>6 DEF Kinds
<1>8. OneName(new)
  BY <1>1, <1>3 DEF OneName
<1>9. \A q : IsDir(d, q) => IsDir(new, q)
  BY <1>3 DEF IsDir, Exists
<1>10. \A k \in 0 .. Len(p) - 1 : IsDir(d, SubSeq(p, 1, k))
  BY FoldersUp
<1>11. Hung(new)
  BY <1>1, <1>3, <1>6, <1>9, <1>10 DEF Hung
<1>12. \A n : n # Self(p) => Same(d, new, n)
  BY <1>2, <1>3 DEF Same
<1>13. QED
  BY <1>2, <1>5, <1>7, <1>8, <1>11, <1>12 DEF DiskOK, new

\* Names below which nothing stays go.
LEMMA UnlinkOK ==
    ASSUME NEW d, DiskOK(d), NEW names, Self(Root) \notin names,
           \A n \in DOMAIN d.entry : \A k \in 0 .. Len(n[1]) - 1 : Self(SubSeq(n[1], 1, k)) \in names => n \in names
    PROVE  LET new == Unlink(d, names)
           IN  /\ DiskOK(new)
               /\ DOMAIN new.entry = DOMAIN d.entry \ names /\ new.data = d.data
               /\ \A n : n \notin names => Same(d, new, n)
<1> DEFINE new == Unlink(d, names)
<1>1. Shape(d) /\ Kinds(d) /\ OneName(d) /\ Hung(d)
  BY DEF DiskOK
<1>2. /\ new = [entry |-> new.entry, data |-> new.data]
      /\ new.entry = Restrict(d.entry, DOMAIN d.entry \ names) /\ new.data = d.data
  BY <1>1, EntryReplaced DEF Unlink
<1> HIDE DEF new
<1>3. /\ DOMAIN new.entry = DOMAIN d.entry \ names
      /\ \A n \in DOMAIN new.entry : new.entry[n] = d.entry[n]
      /\ new.entry = [n \in DOMAIN new.entry |-> new.entry[n]]
  BY <1>2 DEF Restrict
<1>4. IsFiniteSet(DOMAIN new.entry)
  BY <1>1, <1>3, FS_Subset DEF Shape
<1>5. Shape(new)
  BY <1>1, <1>2, <1>3, <1>4 DEF Shape
<1>6. Kinds(new)
  BY <1>1, <1>2, <1>3 DEF Kinds
<1>7. OneName(new)
  BY <1>1, <1>3 DEF OneName
<1>8. ASSUME NEW n \in DOMAIN new.entry, NEW k \in 0 .. Len(n[1]) - 1
      PROVE  IsDir(new, SubSeq(n[1], 1, k))
  <2>1. n \in DOMAIN d.entry /\ n \notin names
    BY <1>3
  <2>2. IsDir(d, SubSeq(n[1], 1, k)) /\ Self(SubSeq(n[1], 1, k)) \notin names
    BY <1>1, <2>1 DEF Hung
  <2>3. QED
    BY <1>3, <2>2 DEF IsDir, Exists
<1>9. Hung(new)
  BY <1>8 DEF Hung
<1>10. \A n : n \notin names => Same(d, new, n)
  BY <1>2, <1>3 DEF Same
<1>11. QED
  BY <1>2, <1>3, <1>5, <1>6, <1>7, <1>9, <1>10 DEF DiskOK, new

\* A tree is removed.
LEMMA TreeIsClosed ==
    ASSUME NEW d, DiskOK(d), NEW p \in Path
    PROVE  /\ Self(Root) \notin Tree(p)
           /\ \A n \in DOMAIN d.entry : \A k \in 0 .. Len(n[1]) - 1 :
                Self(SubSeq(n[1], 1, k)) \in Tree(p) => n \in Tree(p)
<1>1. p \in Seq(Segment) /\ Len(p) \in Nat \ {0}
  BY PathFacts
<1>2. Self(Root) \notin Tree(p)
  <2>1. Self(Root) \in FileName /\ Self(Root)[1] = << >>
    BY DEF Self, FileName, Root
  <2>2. ~IsPrefix(p, << >>)
    <3>1. << >> \in Seq(Segment) /\ ~(Len(p) <= Len(<< >>))
      BY <1>1
    <3>2. QED
      BY <1>1, <3>1, PrefixIsFirst
  <2>3. QED
    BY <1>1, <2>1, <2>2, TreeFacts
<1>3. ASSUME NEW n \in DOMAIN d.entry, NEW k \in 0 .. Len(n[1]) - 1,
             Self(SubSeq(n[1], 1, k)) \in Tree(p)
      PROVE  n \in Tree(p)
  <2> DEFINE q == SubSeq(n[1], 1, k)
  <2>1. n \in FileName /\ n[1] \in Seq(Segment)
    BY NameFacts DEF DiskOK, Kinds
  <2>2. k \in 0 .. Len(n[1])
    BY <2>1
  <2>3. q \in Seq(Segment) /\ Len(q) = k /\ IsPrefix(q, n[1])
    BY <2>1, <2>2, FirstSegments
  <2> HIDE DEF q
  <2>4. Self(q)[1] = q /\ Self(q) \in Tree(p)
    BY <1>3 DEF Self, q
  <2>5. q = p \/ Self(q) \in FileName
    BY <2>4 DEF Tree, Inside, Self
  <2>6. IsPrefix(p, q)
    <3>1. CASE q = p
      BY <1>1, <3>1, PrefixReflexive DEF IsParentOfOrIsSelf
    <3>2. CASE Self(q) \in FileName
      BY <1>1, <2>4, <3>2, TreeFacts
    <3>3. QED
      BY <2>5, <3>1, <3>2
  <2>7. IsPrefix(p, n[1])
    BY <1>1, <2>1, <2>3, <2>6, PrefixTransitive
  <2>8. Len(p) <= k
    BY <1>1, <2>3, <2>6, PrefixIsFirst
  <2>9. n[1] # p
    BY <1>1, <2>1, <2>8
  <2>10. QED
    BY <1>1, <2>1, <2>7, <2>9, TreeFacts
<1>4. QED
  BY <1>2, <1>3

\* A file is removed, or a property file.
LEMMA FileIsClosed ==
    ASSUME NEW d, DiskOK(d), NEW p \in Path, NEW n \in {Self(p), PropertiesPath(p)}, n = Self(p) => ~IsDir(d, p)
    PROVE  /\ Self(Root) \notin {n}
           /\ \A m \in DOMAIN d.entry : \A k \in 0 .. Len(m[1]) - 1 : Self(SubSeq(m[1], 1, k)) \in {n} => m \in {n}
<1>1. p # Root
  BY FileAssumption DEF Root
<1>2. Self(Root) # n
  BY <1>1 DEF Self, PropertiesPath
<1>3. ASSUME NEW m \in DOMAIN d.entry, NEW k \in 0 .. Len(m[1]) - 1
      PROVE  Self(SubSeq(m[1], 1, k)) # n
  <2>1. IsDir(d, SubSeq(m[1], 1, k))
    BY DEF DiskOK, Hung
  <2> DEFINE q == SubSeq(m[1], 1, k)
  <2>2. Self(q) # PropertiesPath(p) /\ (Self(q) = Self(p) => q = p)
    BY DEF Self, PropertiesPath
  <2> HIDE DEF q
  <2>3. QED
    BY <2>1, <2>2 DEF q
<1>4. QED
  BY <1>2, <1>3

\* An open file is written to, or the file of a name is emptied or made.
LEMMA OverwriteOK ==
    ASSUME NEW d, DiskOK(d), NEW o \in DOMAIN d.data, NEW v, o[1][2] = "self" => v \in Seq(Block)
    PROVE  LET new == Overwrite(d, o, v)
           IN  /\ DiskOK(new)
               /\ new.entry = d.entry /\ DOMAIN new.data = DOMAIN d.data /\ new.data[o] = v
               /\ \A n : (n \in DOMAIN d.entry => d.entry[n] # o) => Same(d, new, n)
<1> DEFINE new == Overwrite(d, o, v)
<1>1. Shape(d) /\ Kinds(d) /\ OneName(d) /\ Hung(d)
  BY DEF DiskOK
<1>2. /\ new = [entry |-> new.entry, data |-> new.data]
      /\ new.entry = d.entry /\ new.data = [d.data EXCEPT ![o] = v]
  BY <1>1, DataReplaced DEF Overwrite
<1> HIDE DEF new
<1>3. /\ DOMAIN new.data = DOMAIN d.data /\ new.data = [x \in DOMAIN new.data |-> new.data[x]]
      /\ new.data[o] = v /\ \A x \in DOMAIN new.data : x # o => new.data[x] = d.data[x]
  BY <1>2
<1>4. Shape(new)
  BY <1>1, <1>2, <1>3 DEF Shape
<1>5. Kinds(new)
  <2>1. \A x \in DOMAIN new.data : x \in FileName \X (Nat \ {0}) /\ (x[1][2] = "self" => new.data[x] \in Seq(Block))
    BY <1>1, <1>3 DEF Kinds
  <2>2. QED
    BY <1>1, <1>2, <1>3, <2>1 DEF Kinds
<1>6. OneName(new) /\ Hung(new)
  BY <1>1, <1>2 DEF OneName, Hung, IsDir, Exists
<1>7. ASSUME NEW n, n \in DOMAIN d.entry => d.entry[n] # o
      PROVE  Same(d, new, n)
  <2>1. n \in DOMAIN d.entry /\ d.entry[n] # Folder => d.entry[n] \in DOMAIN d.data
    BY <1>1 DEF Kinds
  <2>2. QED
    BY <1>2, <1>3, <1>7, <2>1 DEF Same
<1>8. QED
  BY <1>2, <1>3, <1>4, <1>5, <1>6, <1>7 DEF DiskOK, new

LEMMA TruncateOK ==
    ASSUME NEW d, DiskOK(d), NEW n \in FileName, n[1] \in Path, IsDir(d, Parent(n[1])),
           Exists(d, n) => d.entry[n] # Folder
    PROVE  LET new == Truncate(d, n)
           IN  /\ DiskOK(new)
               /\ DOMAIN new.entry = DOMAIN d.entry \union {n} /\ DOMAIN d.data \subseteq DOMAIN new.data
               /\ new.entry[n] = IF Exists(d, n) THEN d.entry[n] ELSE Fresh(d, n)
               /\ new.entry[n] # Folder /\ new.entry[n] \in DOMAIN new.data /\ new.entry[n][1][2] = n[2]
               /\ ~Exists(d, n) => new.entry[n] \notin DOMAIN d.data
               /\ Data(new, n) = << >>
               /\ \A m : m # n => Same(d, new, m)
<1> DEFINE new == Truncate(d, n)
           o == IF Exists(d, n) THEN d.entry[n] ELSE Fresh(d, n)
<1>1. Shape(d) /\ Kinds(d) /\ OneName(d) /\ Hung(d)
  BY DEF DiskOK
<1>2. /\ new = [entry |-> new.entry, data |-> new.data]
      /\ new.entry = With(d.entry, n, o) /\ new.data = With(d.data, o, << >>)
  BY DEF Truncate
<1>3. /\ o \in FileName \X (Nat \ {0}) /\ o[1][2] = n[2]
      /\ Exists(d, n) => o = d.entry[n] /\ o \in DOMAIN d.data
      /\ ~Exists(d, n) => o \notin DOMAIN d.data
  <2>1. CASE Exists(d, n)
    BY <1>1, <2>1 DEF Kinds, Exists
  <2>2. CASE ~Exists(d, n)
    BY <2>2, FreshIsNew
  <2>3. QED
    BY <2>1, <2>2
<1> HIDE DEF new, o
<1>4. o # Folder
  BY <1>3, ObjectIsNoFolder
<1>5. /\ DOMAIN new.entry = DOMAIN d.entry \union {n}
      /\ \A m \in DOMAIN new.entry : new.entry[m] = IF m = n THEN o ELSE d.entry[m]
      /\ new.entry = [m \in DOMAIN new.entry |-> new.entry[m]]
  BY <1>2 DEF With
<1>6. /\ DOMAIN new.data = DOMAIN d.data \union {o}
      /\ \A x \in DOMAIN new.data : new.data[x] = IF x = o THEN << >> ELSE d.data[x]
      /\ new.data = [x \in DOMAIN new.data |-> new.data[x]]
  BY <1>2 DEF With
<1>7. IsFiniteSet(DOMAIN new.entry) /\ IsFiniteSet(DOMAIN new.data)
  BY <1>1, <1>5, <1>6, FS_AddElement DEF Shape
<1>8. Shape(new)
  BY <1>2, <1>5, <1>6, <1>7 DEF Shape
<1>9. n # PropertiesPath(Root) /\ n # Self(Root)
  BY FileAssumption DEF PropertiesPath, Self, Root
<1>10. Kinds(new)
  <2>1. \A x \in DOMAIN new.data : x \in FileName \X (Nat \ {0}) /\ (x[1][2] = "self" => new.data[x] \in Seq(Block))
    <3>1. << >> \in Seq(Block)
      OBVIOUS
    <3>2. ASSUME NEW x \in DOMAIN new.data PROVE (x = o) \/ (x \in DOMAIN d.data /\ new.data[x] = d.data[x])
      BY <1>6
    <3>3. new.data[o] = << >>
      BY <1>6
    <3>4. QED
      BY <1>1, <1>3, <3>1, <3>2, <3>3 DEF Kinds
  <2>2. \A m \in DOMAIN new.entry :
          IF new.entry[m] = Folder THEN m[2] = "self"
          ELSE new.entry[m] \in DOMAIN new.data /\ new.entry[m][1][2] = m[2]
    BY <1>1, <1>3, <1>4, <1>5, <1>6 DEF Kinds
  <2>3. DOMAIN new.entry \subseteq FileName \ {PropertiesPath(Root)}
    BY <1>1, <1>5, <1>9 DEF Kinds
  <2>4. Self(Root) \in DOMAIN new.entry /\ new.entry[Self(Root)] = Folder
    BY <1>1, <1>5, <1>9 DEF Kinds
  <2>5. QED
    BY <2>1, <2>2, <2>3, <2>4 DEF Kinds
<1>11. \A m \in DOMAIN d.entry : m # n => d.entry[m] # o
  <2>1. CASE Exists(d, n)
    BY <1>1, <1>3, <1>4, <2>1 DEF OneName, Exists
  <2>2. CASE ~Exists(d, n)
    BY <1>1, <1>3, <1>4, <2>2 DEF Kinds
  <2>3. QED
    BY <2>1, <2>2
<1>12. OneName(new)
  BY <1>1, <1>5, <1>11 DEF OneName
<1>13. \A q : IsDir(d, q) => IsDir(new, q)
  BY <1>5 DEF IsDir, Exists
<1>14. \A k \in 0 .. Len(n[1]) - 1 : IsDir(d, SubSeq(n[1], 1, k))
  BY FoldersUp
<1>15. Hung(new)
  BY <1>1, <1>5, <1>13, <1>14 DEF Hung
<1>16. ASSUME NEW m, m # n PROVE Same(d, new, m)
  <2>1. m \in DOMAIN d.entry /\ d.entry[m] # Folder => d.entry[m] \in DOMAIN d.data /\ d.entry[m] # o
    BY <1>1, <1>11, <1>16 DEF Kinds
  <2>2. QED
    BY <1>5, <1>6, <1>16, <2>1 DEF Same
<1>17. Data(new, n) = << >>
  BY <1>5, <1>6 DEF Data
<1>18. new.entry[n] = o
  BY <1>5
<1>19. QED
  BY <1>3, <1>4, <1>5, <1>6, <1>8, <1>10, <1>12, <1>15, <1>16, <1>17, <1>18 DEF DiskOK, new, o

\* A property file is there, and what there was is left alone.
LEMMA TouchOK ==
    ASSUME NEW d, DiskOK(d), NEW p \in Path, Exists(d, PropertiesPath(p)) \/ IsDir(d, Parent(p))
    PROVE  LET new == Touch(d, PropertiesPath(p))
               n == PropertiesPath(p)
           IN  /\ DiskOK(new)
               /\ DOMAIN new.entry = DOMAIN d.entry \union {n} /\ DOMAIN d.data \subseteq DOMAIN new.data
               /\ new.entry[n] # Folder
               /\ ~Exists(d, n) => new.entry[n] \notin DOMAIN d.data
               /\ Data(new, n) = IF Exists(d, n) THEN Data(d, n) ELSE NoProperties
               /\ \A m : m # n \/ Exists(d, n) => Same(d, new, m)
<1> DEFINE n == PropertiesPath(p)
           new == Touch(d, n)
           made == Truncate(d, n)
           o == Fresh(d, n)
<1>1. n \in FileName /\ n[1] = p /\ n[2] = "props"
  BY DEF PropertiesPath, FileName
<1>2. Exists(d, n) => d.entry[n] # Folder
  BY <1>1 DEF DiskOK, Kinds, Exists
<1> HIDE DEF n
<1>3. CASE Exists(d, n)
  <2>1. new = d
    BY <1>3 DEF Touch
  <2>2. \A m : Same(d, new, m)
    BY <2>1 DEF Same
  <2>3. DOMAIN new.entry = DOMAIN d.entry \union {n}
    BY <1>3, <2>1 DEF Exists
  <2>4. QED
    BY <1>2, <1>3, <2>1, <2>2, <2>3 DEF n
<1>4. CASE ~Exists(d, n)
  <2>1. IsDir(d, Parent(n[1]))
    BY <1>1, <1>4 DEF n
  <2>2. /\ DiskOK(made)
        /\ DOMAIN made.entry = DOMAIN d.entry \union {n} /\ DOMAIN d.data \subseteq DOMAIN made.data
        /\ made.entry[n] = o
        /\ made.entry[n] # Folder /\ made.entry[n] \in DOMAIN made.data /\ made.entry[n][1][2] = n[2]
        /\ made.entry[n] \notin DOMAIN d.data
        /\ \A m : m # n => Same(d, made, m)
    BY <1>1, <1>2, <1>4, <2>1, TruncateOK
  <2>3. new = Overwrite(made, o, NoProperties)
    BY <1>4 DEF Touch
  <2> HIDE DEF made, new, o
  <2>4. /\ DiskOK(new)
        /\ new.entry = made.entry /\ DOMAIN new.data = DOMAIN made.data /\ new.data[o] = NoProperties
        /\ \A m : (m \in DOMAIN made.entry => made.entry[m] # o) => Same(made, new, m)
    BY <1>1, <2>2, <2>3, OverwriteOK
  <2>5. Data(new, n) = NoProperties
    BY <2>2, <2>4 DEF Data
  <2>6. ASSUME NEW m, m # n PROVE Same(d, new, m)
    <3>1. m \in DOMAIN made.entry => made.entry[m] # o
      BY <2>2, <2>6 DEF DiskOK, OneName
    <3>2. Same(d, made, m) /\ Same(made, new, m)
      BY <2>2, <2>4, <2>6, <3>1
    <3>3. QED
      BY <3>2 DEF Same
  <2>7. QED
    BY <1>4, <2>2, <2>4, <2>5, <2>6 DEF n, new
<1>5. QED
  BY <1>3, <1>4

\* What nobody can reach goes.
LEMMA SettledOK ==
    ASSUME NEW d, DiskOK(d), NEW open
    PROVE  LET new == Settled(d, open)
           IN  /\ DiskOK(new)
               /\ new.entry = d.entry
               /\ DOMAIN new.data \subseteq DOMAIN d.data
               /\ \A o \in open \intersect DOMAIN d.data : o \in DOMAIN new.data /\ new.data[o] = d.data[o]
               /\ \A n : Same(d, new, n)
<1> DEFINE new == Settled(d, open)
           kept == DOMAIN d.data \intersect (Range(d.entry) \union open)
<1>1. Shape(d) /\ Kinds(d) /\ OneName(d) /\ Hung(d)
  BY DEF DiskOK
<1>2. /\ new = [entry |-> new.entry, data |-> new.data]
      /\ new.entry = d.entry /\ new.data = Restrict(d.data, kept)
  BY <1>1 DEF Settled, Shape
<1>3. \A n \in DOMAIN d.entry : d.entry[n] # Folder => d.entry[n] \in kept
  BY <1>1 DEF Kinds, Range
<1> HIDE DEF new
<1>4. /\ DOMAIN new.data = kept /\ \A o \in kept : new.data[o] = d.data[o]
      /\ new.data = [o \in DOMAIN new.data |-> new.data[o]]
  BY <1>2 DEF Restrict
<1>5. kept \subseteq DOMAIN d.data /\ \A o \in open \intersect DOMAIN d.data : o \in kept
  OBVIOUS
<1> HIDE DEF kept
<1>6. IsFiniteSet(DOMAIN new.data)
  BY <1>1, <1>4, <1>5, FS_Subset DEF Shape
<1>7. Shape(new)
  BY <1>1, <1>2, <1>4, <1>6 DEF Shape
<1>8. Kinds(new)
  BY <1>1, <1>2, <1>3, <1>4, <1>5 DEF Kinds
<1>9. OneName(new) /\ Hung(new)
  BY <1>1, <1>2 DEF OneName, Hung, IsDir, Exists
<1>10. \A n : Same(d, new, n)
  BY <1>2, <1>3, <1>4 DEF Same
<1>11. QED
  BY <1>2, <1>4, <1>5, <1>7, <1>8, <1>9, <1>10 DEF DiskOK, new

-----------------------------------------------------------------------------
(* Copies and renames of names                                             *)

\* Names at and below one path, with room for them at and below another; of what is
\* below the path, each has the folders between in the set.
Takes(d, names, src, dst) ==
    /\ names \subseteq FileName
    /\ \A n \in names : IsPrefix(src, n[1]) /\ Relocated(n[1], src, dst) \in Path
    /\ \A n \in names \intersect DOMAIN d.entry : \A j \in Len(src) .. Len(n[1]) - 1 : Self(SubSeq(n[1], 1, j)) \in names

\* The folders above a new name are those above the destination, and what the folders
\* above the old one become.
LEMMA AboveRenamed ==
    ASSUME NEW src \in Path, NEW dst \in Path, NEW n \in FileName, IsPrefix(src, n[1]),
           NEW k \in 0 .. Len(RenamedTo(n, src, dst)[1]) - 1
    PROVE  LET m == RenamedTo(n, src, dst)
               j == k - Len(dst) + Len(src)
           IN  /\ k < Len(dst) => SubSeq(m[1], 1, k) = SubSeq(dst, 1, k)
               /\ k >= Len(dst) => /\ j \in Len(src) .. Len(n[1]) - 1
                                   /\ Self(SubSeq(m[1], 1, k)) = RenamedTo(Self(SubSeq(n[1], 1, j)), src, dst)
                                   /\ IsPrefix(src, SubSeq(n[1], 1, j))
<1> DEFINE m == RenamedTo(n, src, dst)
           j == k - Len(dst) + Len(src)
           p == n[1]
<1>1. src \in Seq(Segment) /\ dst \in Seq(Segment) /\ p \in Seq(Segment) /\ IsPrefix(src, p)
  BY PathFacts, NameFacts
<1>2. m[1] = Relocated(p, src, dst) /\ m[1] \in Seq(Segment) /\ IsPrefix(dst, m[1])
  BY <1>1, RenamedFacts
<1>3. k \in 0 .. Len(m[1]) - 1
  OBVIOUS
<1> HIDE DEF m, p
<1>4. Len(dst) \in Nat /\ Len(src) \in Nat /\ Len(m[1]) \in Nat /\ Len(dst) <= Len(m[1])
  BY <1>1, <1>2, PrefixIsFirst
<1>5. ASSUME k < Len(dst) PROVE SubSeq(m[1], 1, k) = SubSeq(dst, 1, k)
  <2>1. k \in 0 .. Len(dst)
    BY <1>3, <1>4, <1>5
  <2>2. QED
    BY <1>1, <1>2, <2>1, PrefixIsFirst
<1>6. ASSUME k >= Len(dst)
      PROVE  /\ j \in Len(src) .. Len(p) - 1
             /\ Self(SubSeq(m[1], 1, k)) = RenamedTo(Self(SubSeq(p, 1, j)), src, dst)
             /\ IsPrefix(src, SubSeq(p, 1, j))
  <2>1. k \in Len(dst) .. Len(Relocated(p, src, dst)) /\ k < Len(Relocated(p, src, dst))
    BY <1>2, <1>3, <1>4, <1>6
  <2>2. /\ j \in Len(src) .. Len(p) /\ IsPrefix(src, SubSeq(p, 1, j))
        /\ SubSeq(Relocated(p, src, dst), 1, k) = Relocated(SubSeq(p, 1, j), src, dst)
        /\ j < Len(p)
    BY <1>1, <2>1, RelocatedFirst
  <2>3. Self(SubSeq(m[1], 1, k)) = RenamedTo(Self(SubSeq(p, 1, j)), src, dst)
    <3>1. SubSeq(m[1], 1, k) = Relocated(SubSeq(p, 1, j), src, dst)
      BY <1>2, <2>2
    <3> HIDE DEF j
    <3>2. QED
      BY <3>1 DEF Self, RenamedTo, Relocated
  <2>4. j \in Len(src) .. Len(p) - 1
    BY <1>1, <1>4, <2>2
  <2>5. QED
    BY <2>2, <2>3, <2>4
<1>7. QED
  BY <1>5, <1>6 DEF m, p

\* What names become: one name each, at and below the destination.
LEMMA TakenFacts ==
    ASSUME NEW d, NEW names, NEW src \in Path, NEW dst \in Path, Takes(d, names, src, dst), NEW n \in names
    PROVE  LET m == RenamedTo(n, src, dst)
           IN  /\ m \in FileName /\ m[1] \in Path /\ m[2] = n[2] /\ IsPrefix(dst, m[1])
               /\ m # Self(Root) /\ m # PropertiesPath(Root)
               /\ RenamedTo(m, dst, src) = n
<1>1. n \in FileName /\ IsPrefix(src, n[1]) /\ Relocated(n[1], src, dst) \in Path
  BY DEF Takes
<1>2. src \in Seq(Segment) /\ dst \in Seq(Segment) /\ n[2] \in {"self", "props"}
  BY <1>1, PathFacts, NameFacts
<1> DEFINE m == RenamedTo(n, src, dst)
<1>3. /\ m = << m[1], m[2] >> /\ m[1] = Relocated(n[1], src, dst) /\ m[2] = n[2]
      /\ IsPrefix(dst, m[1]) /\ RenamedTo(m, dst, src) = n
  BY <1>1, <1>2, RenamedFacts
<1> HIDE DEF m
<1>4. m[1] \in Path /\ m \in FileName
  BY <1>1, <1>2, <1>3 DEF FileName
<1>5. m[1] # Root
  BY <1>4, FileAssumption DEF Root
<1>6. m # Self(Root) /\ m # PropertiesPath(Root)
  BY <1>5 DEF Self, PropertiesPath
<1>7. QED
  BY <1>3, <1>4, <1>6 DEF m

LEMMA TreeIsTaken ==
    ASSUME NEW d, DiskOK(d), NEW r \in Requests, r.method \in {"COPY", "MOVE"}
    PROVE  Takes(d, Tree(r.path), r.path, r.dst) /\ Takes(d, {PropertiesPath(r.path)}, r.path, r.dst)
           /\ Takes(d, {Self(r.path)}, r.path, r.dst)
<1>1. /\ r.path \in Path /\ r.dst \in Path
      /\ \A p \in Path : IsPrefix(r.path, p) => Relocated(p, r.path, r.dst) \in Path
  BY ProviderAssumption DEF Relocated
<1>2. r.path \in Seq(Segment) /\ Len(r.path) \in Nat \ {0}
  BY <1>1, PathFacts
<1>3. {PropertiesPath(r.path), Self(r.path)} \subseteq FileName
  BY <1>1 DEF PropertiesPath, Self, FileName
<1>4. Tree(r.path) \subseteq FileName
  BY <1>3 DEF Tree, Inside
<1>5. \A n \in FileName : IsPrefix(r.path, n[1]) => Relocated(n[1], r.path, r.dst) \in Path
  <2> SUFFICES ASSUME NEW n \in FileName, IsPrefix(r.path, n[1]) PROVE n[1] \in Path
    BY <1>1
  <2>1. n[1] \in Path \union {Root} /\ n[1] \in Seq(Segment) /\ Len(Root) = 0
    BY NameFacts DEF Root
  <2>2. Len(r.path) <= Len(n[1])
    BY <1>2, <2>1, PrefixIsFirst
  <2>3. n[1] # Root
    BY <1>2, <2>1, <2>2
  <2>4. QED
    BY <2>1, <2>3
<1>6. \A n \in FileName : n \in Resource(r.path) <=> IsPrefix(r.path, n[1])
  BY <1>2, TreeFacts
<1>7. \A n \in Tree(r.path) \union {PropertiesPath(r.path), Self(r.path)} : n \in Resource(r.path)
  BY DEF Resource, Tree
<1>8. ASSUME NEW n \in Tree(r.path) \intersect DOMAIN d.entry, NEW j \in Len(r.path) .. Len(n[1]) - 1
      PROVE  Self(SubSeq(n[1], 1, j)) \in Tree(r.path)
  <2> DEFINE q == SubSeq(n[1], 1, j)
  <2>1. n \in FileName /\ n[1] \in Seq(Segment) /\ IsPrefix(r.path, n[1])
    BY <1>4, <1>6, <1>7, NameFacts
  <2>2. j \in 0 .. Len(n[1]) /\ Len(r.path) <= j /\ j \in 0 .. Len(n[1]) - 1
    BY <1>2, <2>1
  <2>3. q \in Seq(Segment) /\ IsPrefix(r.path, q)
    BY <1>2, <2>1, <2>2, FirstSegments, PrefixOfFirst
  <2>4. IsDir(d, q)
    BY <2>2 DEF DiskOK, Hung
  <2> HIDE DEF q
  <2>5. Self(q) \in FileName /\ Self(q)[1] = q /\ Self(q)[2] = "self"
    BY <2>4 DEF IsDir, Exists, DiskOK, Kinds, Self
  <2>6. Self(q) \in Tree(r.path)
    BY <1>2, <2>3, <2>5, TreeFacts
  <2>7. QED
    BY <2>6 DEF q
<1>9. Takes(d, Tree(r.path), r.path, r.dst)
  BY <1>4, <1>5, <1>6, <1>7, <1>8 DEF Takes
<1>10. ASSUME NEW n \in {PropertiesPath(r.path), Self(r.path)} PROVE Takes(d, {n}, r.path, r.dst)
  <2>1. n \in FileName /\ IsPrefix(r.path, n[1]) /\ n[1] = r.path
    BY <1>3, <1>6, <1>7 DEF PropertiesPath, Self
  <2>2. \A j \in Len(r.path) .. Len(n[1]) - 1 : FALSE
    BY <1>2, <2>1
  <2>3. QED
    BY <1>5, <2>1, <2>2 DEF Takes
<1>11. QED
  BY <1>9, <1>10

\* A rename: nothing is left behind, nothing is below what is replaced.
LEMMA RenameOK ==
    ASSUME NEW d, DiskOK(d), NEW names, NEW src \in Path, NEW dst \in Path, Takes(d, names, src, dst),
           ~IsPrefix(src, dst), ~IsPrefix(dst, src), IsDir(d, Parent(dst)),
           \A n \in DOMAIN d.entry : \A k \in 0 .. Len(n[1]) - 1 : Self(SubSeq(n[1], 1, k)) \in names => n \in names,
           (\A n \in names : n[2] = "props") \/ Inside(dst) \intersect DOMAIN d.entry = {}
    PROVE  LET new == Rename(d, names, src, dst)
               there == names \intersect DOMAIN d.entry
           IN  /\ DiskOK(new) /\ new.data = d.data
               /\ \A n \in there : RenamedTo(n, src, dst) \in DOMAIN new.entry
                                   /\ new.entry[RenamedTo(n, src, dst)] = d.entry[n]
               /\ \A n \in names : n \notin DOMAIN new.entry
               /\ \A m : m \notin names /\ m \notin {RenamedTo(n, src, dst) : n \in there} => Same(d, new, m)
<1> DEFINE there == names \intersect DOMAIN d.entry
           to(n) == RenamedTo(n, src, dst)
           from(m) == RenamedTo(m, dst, src)
           old(m) == CHOOSE n \in there : to(n) = m
           image == {to(n) : n \in there}
           new == Rename(d, names, src, dst)
           moved == [m \in image |-> d.entry[old(m)]]
           rest == DOMAIN d.entry \ there
<1>1. Shape(d) /\ Kinds(d) /\ OneName(d) /\ Hung(d)
  BY DEF DiskOK
<1>2. \A n \in names : /\ n \in FileName /\ IsPrefix(src, n[1])
                       /\ to(n) \in FileName /\ to(n)[1] \in Path /\ to(n)[2] = n[2] /\ IsPrefix(dst, to(n)[1])
                       /\ to(n) # Self(Root) /\ to(n) # PropertiesPath(Root)
                       /\ from(to(n)) = n
  <2> SUFFICES ASSUME NEW n \in names
               PROVE  /\ n \in FileName /\ IsPrefix(src, n[1])
                      /\ to(n) \in FileName /\ to(n)[1] \in Path /\ to(n)[2] = n[2] /\ IsPrefix(dst, to(n)[1])
                      /\ to(n) # Self(Root) /\ to(n) # PropertiesPath(Root)
                      /\ from(to(n)) = n
    OBVIOUS
  <2>1. n \in FileName /\ IsPrefix(src, n[1])
    BY DEF Takes
  <2>2. QED
    BY <2>1, TakenFacts
<1>3. src \in Seq(Segment) /\ dst \in Seq(Segment) /\ Len(src) \in Nat \ {0} /\ Len(dst) \in Nat \ {0}
  BY PathFacts
<1>4. \A n \in names : to(n) \notin names
  <2> SUFFICES ASSUME NEW n \in names, to(n) \in names PROVE FALSE
    OBVIOUS
  <2> HIDE DEF to, from
  <2>1. IsPrefix(src, to(n)[1]) /\ IsPrefix(dst, to(n)[1]) /\ to(n)[1] \in Seq(Segment)
    BY <1>2, NameFacts
  <2>2. QED
    BY <1>3, <2>1, Separate
<1>5. /\ new = [entry |-> new.entry, data |-> new.data]
      /\ new.entry = Updated(Restrict(d.entry, rest), moved) /\ new.data = d.data
  BY <1>1, EntryReplaced DEF Rename
<1> HIDE DEF new, to, from
<1>6. \A n \in there : old(to(n)) = n
  <2> SUFFICES ASSUME NEW n \in there PROVE old(to(n)) = n
    OBVIOUS
  <2>1. \A x \in there : to(x) = to(n) => x = n
    BY <1>2
  <2>2. QED
    BY <2>1
<1>7. \A m \in image : old(m) \in there /\ to(old(m)) = m
  BY <1>6
<1> HIDE DEF old
<1>8. /\ DOMAIN new.entry = rest \union image
      /\ \A m \in DOMAIN new.entry : new.entry[m] = IF m \in image THEN d.entry[old(m)] ELSE d.entry[m]
      /\ new.entry = [m \in DOMAIN new.entry |-> new.entry[m]]
  <2>1. DOMAIN moved = image /\ \A m \in image : moved[m] = d.entry[old(m)]
    OBVIOUS
  <2> HIDE DEF moved, image
  <2>2. QED
    BY <1>5, <2>1 DEF Updated, Restrict
<1>9. IsFiniteSet(DOMAIN new.entry)
  <2>1. IsFiniteSet(there) /\ IsFiniteSet(rest)
    BY <1>1, FS_Subset DEF Shape
  <2> DEFINE g == [n \in there |-> to(n)]
  <2>2. DOMAIN g = there /\ g = [n \in there |-> g[n]] /\ image = {g[n] : n \in there}
    OBVIOUS
  <2> HIDE DEF g, there, rest, image
  <2>3. IsFiniteSet(image)
    BY <2>1, <2>2, ImageIsFinite
  <2>4. IsFiniteSet(rest \union image)
    BY <2>1, <2>3, FS_Union
  <2>5. QED
    BY <1>8, <2>4
<1>10. \A n \in there : to(n) \in DOMAIN new.entry /\ new.entry[to(n)] = d.entry[n]
  BY <1>6, <1>8
<1>11. \A m \in rest \ image : m \in DOMAIN new.entry /\ new.entry[m] = d.entry[m]
  BY <1>8
<1>12. \A m \in DOMAIN new.entry : (m \in rest \ image) \/ (\E n \in there : m = to(n))
  BY <1>8
<1>13. \A n \in names : n \notin DOMAIN new.entry
  BY <1>4, <1>12
<1>14. \A m : m \notin names /\ m \notin image => Same(d, new, m)
  BY <1>5, <1>8, <1>11 DEF Same
<1> HIDE DEF rest, image
<1>15. Shape(new)
  BY <1>1, <1>5, <1>8, <1>9 DEF Shape
<1>16. Kinds(new)
  <2>1. Self(Root) \in rest \ image
    <3>1. Self(Root) \notin names
      <4>1. \A n \in names : n \in FileName /\ n[1] # Root
        <5> SUFFICES ASSUME NEW n \in names, n[1] = << >> PROVE FALSE
          BY <1>2 DEF Root
        <5>1. IsPrefix(src, << >>) /\ << >> \in Seq(Segment)
          BY <1>2
        <5>2. Len(src) <= Len(<< >>)
          BY <1>3, <5>1, PrefixIsFirst
        <5>3. QED
          BY <1>3, <5>2
      <4>2. QED
        BY <4>1 DEF Self
    <3>2. Self(Root) \notin image
      BY <1>2 DEF image
    <3>3. QED
      BY <1>1, <3>1, <3>2 DEF rest, Kinds
  <2>2. \A m \in DOMAIN new.entry : m \in FileName \ {PropertiesPath(Root)}
    BY <1>1, <1>2, <1>12 DEF Kinds, rest
  <2>3. \A m \in DOMAIN new.entry :
          IF new.entry[m] = Folder THEN m[2] = "self"
          ELSE new.entry[m] \in DOMAIN new.data /\ new.entry[m][1][2] = m[2]
    <3> SUFFICES ASSUME NEW m \in DOMAIN new.entry
                 PROVE  IF new.entry[m] = Folder THEN m[2] = "self"
                        ELSE new.entry[m] \in DOMAIN d.data /\ new.entry[m][1][2] = m[2]
      BY <1>5
    <3>1. CASE m \in rest \ image
      BY <1>1, <1>11, <3>1 DEF Kinds, rest
    <3>2. ASSUME NEW n \in there, m = to(n)
          PROVE  IF new.entry[m] = Folder THEN m[2] = "self"
                 ELSE new.entry[m] \in DOMAIN d.data /\ new.entry[m][1][2] = m[2]
      <4>1. new.entry[m] = d.entry[n] /\ m[2] = n[2] /\ n \in DOMAIN d.entry
        BY <1>2, <1>10, <3>2
      <4>2. QED
        BY <1>1, <4>1 DEF Kinds
    <3>3. QED
      BY <1>12, <3>1, <3>2
  <2>4. QED
    BY <1>1, <1>5, <1>11, <2>1, <2>2, <2>3 DEF Kinds
<1>17. OneName(new)
  <2> SUFFICES ASSUME NEW x \in DOMAIN new.entry, NEW y \in DOMAIN new.entry,
                      new.entry[x] = new.entry[y], new.entry[x] # Folder
               PROVE  x = y
    BY DEF OneName
  <2> DEFINE Origin(m, n) == /\ n \in DOMAIN d.entry /\ new.entry[m] = d.entry[n]
                             /\ (n \in there => m = to(n)) /\ (n \notin there => m = n)
  <2>1. \A m \in DOMAIN new.entry : \E n : Origin(m, n)
    BY <1>10, <1>11, <1>12 DEF rest
  <2>2. PICK a, b : Origin(x, a) /\ Origin(y, b)
    BY <2>1
  <2>3. a = b
    BY <1>1, <2>2 DEF OneName
  <2>4. QED
    BY <2>2, <2>3
<1>18. ASSUME NEW q, IsDir(d, q), Self(q) \notin names, Self(q) \notin image
       PROVE  IsDir(new, q)
  BY <1>11, <1>18 DEF IsDir, Exists, rest
<1>19. \A k \in 0 .. Len(dst) - 1 : IsDir(new, SubSeq(dst, 1, k))
  <2> SUFFICES ASSUME NEW k \in 0 .. Len(dst) - 1 PROVE IsDir(new, SubSeq(dst, 1, k))
    OBVIOUS
  <2> DEFINE q == SubSeq(dst, 1, k)
  <2>1. IsDir(d, q)
    BY FoldersUp
  <2>2. k \in 0 .. Len(dst)
    BY <1>3
  <2>3. q \in Seq(Segment) /\ Len(q) = k /\ IsPrefix(q, dst)
    BY <1>3, <2>2, FirstSegments
  <2> HIDE DEF q
  <2>4. Self(q)[1] = q
    BY DEF Self
  <2>5. Self(q) \notin names
    <3> SUFFICES ASSUME Self(q) \in names PROVE FALSE
      OBVIOUS
    <3>1. IsPrefix(src, q)
      BY <1>2, <2>4
    <3>2. IsPrefix(src, dst)
      BY <1>3, <2>3, <3>1, PrefixTransitive
    <3>3. QED
      BY <3>2
  <2>6. Self(q) \notin image
    <3> SUFFICES ASSUME Self(q) \in image PROVE FALSE
      OBVIOUS
    <3>1. IsPrefix(dst, q)
      BY <1>2, <2>4 DEF image
    <3>2. Len(dst) <= k
      BY <1>3, <2>3, <3>1, PrefixIsFirst
    <3>3. QED
      BY <1>3, <3>2
  <2>7. QED
    BY <1>18, <2>1, <2>5, <2>6 DEF q
<1>20. ASSUME NEW n \in there, NEW k \in 0 .. Len(to(n)[1]) - 1
       PROVE  IsDir(new, SubSeq(to(n)[1], 1, k))
  <2> DEFINE j == k - Len(dst) + Len(src)
  <2>1. /\ k < Len(dst) => SubSeq(to(n)[1], 1, k) = SubSeq(dst, 1, k)
        /\ k >= Len(dst) => /\ j \in Len(src) .. Len(n[1]) - 1
                            /\ Self(SubSeq(to(n)[1], 1, k)) = to(Self(SubSeq(n[1], 1, j)))
    BY <1>2, AboveRenamed DEF to
  <2>2. CASE k < Len(dst)
    <3>1. k \in 0 .. Len(dst) - 1
      BY <1>3, <2>2
    <3>2. QED
      BY <1>19, <2>1, <2>2, <3>1
  <2>3. CASE k >= Len(dst)
    <3> DEFINE q == SubSeq(n[1], 1, j)
    <3>1. j \in Len(src) .. Len(n[1]) - 1 /\ Self(SubSeq(to(n)[1], 1, k)) = to(Self(q))
      BY <2>1, <2>3
    <3>2. Self(q) \in names
      BY <3>1 DEF Takes
    <3>3. j \in 0 .. Len(n[1]) - 1
      BY <1>3, <3>1
    <3>4. IsDir(d, q)
      BY <1>1, <3>3 DEF Hung
    <3> HIDE DEF q
    <3>5. Self(q) \in there /\ d.entry[Self(q)] = Folder
      BY <3>2, <3>4 DEF IsDir, Exists
    <3>6. to(Self(q)) \in DOMAIN new.entry /\ new.entry[to(Self(q))] = Folder
      BY <1>10, <3>5
    <3>7. QED
      BY <3>1, <3>6 DEF IsDir, Exists
  <2>4. k < Len(dst) \/ k >= Len(dst)
    <3>1. to(n)[1] \in Seq(Segment)
      BY <1>2, PathFacts
    <3>2. QED
      BY <1>3, <3>1
  <2>5. QED
    BY <2>2, <2>3, <2>4
<1>21. ASSUME NEW m \in rest \ image, NEW k \in 0 .. Len(m[1]) - 1
       PROVE  IsDir(new, SubSeq(m[1], 1, k))
  <2> DEFINE q == SubSeq(m[1], 1, k)
  <2>1. m \in DOMAIN d.entry /\ m \notin names /\ m \in FileName /\ m[1] \in Seq(Segment)
    BY <1>1, NameFacts DEF rest, Kinds
  <2>2. IsDir(d, q)
    BY <1>1, <2>1 DEF Hung
  <2>3. Self(q) \notin names
    BY <2>1
  <2>4. k \in 0 .. Len(m[1]) /\ k < Len(m[1])
    BY <2>1
  <2>5. q \in Seq(Segment) /\ Len(q) = k /\ IsPrefix(q, m[1])
    BY <2>1, <2>4, FirstSegments
  <2> HIDE DEF q
  <2>6. Self(q)[1] = q /\ Self(q)[2] = "self"
    BY DEF Self
  <2>7. Self(q) \notin image
    <3> SUFFICES ASSUME NEW n \in there, Self(q) = to(n) PROVE FALSE
      BY DEF image
    <3>1. n[2] = "self" /\ IsPrefix(dst, q)
      BY <1>2, <2>6
    <3>2. Inside(dst) \intersect DOMAIN d.entry = {}
      BY <3>1
    <3>3. IsPrefix(dst, m[1]) /\ Len(dst) <= Len(q)
      BY <1>3, <2>1, <2>5, <3>1, PrefixTransitive, PrefixIsFirst
    <3>4. m[1] # dst
      BY <2>4, <2>5, <3>3, <1>3, <2>1
    <3>5. QED
      BY <1>3, <2>1, <3>2, <3>3, <3>4, TreeFacts
  <2>8. QED
    BY <1>18, <2>2, <2>3, <2>7 DEF q
<1>22. Hung(new)
  BY <1>12, <1>20, <1>21 DEF Hung
<1>23. QED
  BY <1>5, <1>10, <1>13, <1>14, <1>15, <1>16, <1>17, <1>22 DEF DiskOK, new, to, image

\* A copy: what is there stays where it is, files with what was copied in them.
Copies(d, new, names, src, dst) ==
    LET there == names \intersect DOMAIN d.entry
        image == {RenamedTo(n, src, dst) : n \in there}
        above == {Self(SubSeq(dst, 1, k)) : k \in 1 .. Len(dst) - 1}
    IN  /\ DiskOK(new)
        /\ DOMAIN new.entry = DOMAIN d.entry \union (image \union above)
        /\ DOMAIN d.data \subseteq DOMAIN new.data
        /\ \A n \in there : /\ new.entry[RenamedTo(n, src, dst)] = Folder <=> d.entry[n] = Folder
                            /\ d.entry[n] # Folder => Data(new, RenamedTo(n, src, dst)) = Data(d, n)
        /\ \A m : m \notin image /\ (m \in above => Exists(d, m)) => Same(d, new, m)
        /\ \A m \in DOMAIN new.entry : \/ new.entry[m] = Folder
                                       \/ new.entry[m] \notin DOMAIN d.data
                                       \/ m \in DOMAIN d.entry /\ new.entry[m] = d.entry[m]

LEMMA CopyOverOK ==
    ASSUME NEW d, DiskOK(d), NEW names, NEW src \in Path, NEW dst \in Path, Takes(d, names, src, dst),
           ~IsPrefix(src, dst), ~IsPrefix(dst, src),
           \A k \in 1 .. Len(dst) - 1 : ~IsFile(d, SubSeq(dst, 1, k)),
           \A n \in names \intersect DOMAIN d.entry :
              Exists(d, RenamedTo(n, src, dst)) => (d.entry[n] = Folder <=> d.entry[RenamedTo(n, src, dst)] = Folder)
    PROVE  Copies(d, CopyOver(d, names, src, dst), names, src, dst)
<1> DEFINE there == names \intersect DOMAIN d.entry
           to(n) == RenamedTo(n, src, dst)
           from(m) == RenamedTo(m, dst, src)
           old(m) == CHOOSE n \in there : to(n) = m
           image == {to(n) : n \in there}
           above == {Self(SubSeq(dst, 1, k)) : k \in 1 .. Len(dst) - 1}
           object(n) == CASE d.entry[old(n)] = Folder -> Folder
                          [] d.entry[old(n)] # Folder /\ Exists(d, n) -> d.entry[n]
                          [] OTHER -> Fresh(d, n)
           files == {n \in image : d.entry[old(n)] # Folder}
           objects == {object(n) : n \in files}
           new == CopyOver(d, names, src, dst)
           put == [n \in image \union above |-> IF n \in image THEN object(n) ELSE Folder]
           written == [o \in objects |-> Data(d, old(CHOOSE n \in files : object(n) = o))]
<1>1. Shape(d) /\ Kinds(d) /\ OneName(d) /\ Hung(d)
  BY DEF DiskOK
<1>2. \A n \in names : /\ n \in FileName /\ IsPrefix(src, n[1])
                       /\ to(n) \in FileName /\ to(n)[1] \in Path /\ to(n)[2] = n[2] /\ IsPrefix(dst, to(n)[1])
                       /\ to(n) # Self(Root) /\ to(n) # PropertiesPath(Root)
                       /\ from(to(n)) = n
  <2> SUFFICES ASSUME NEW n \in names
               PROVE  /\ n \in FileName /\ IsPrefix(src, n[1])
                      /\ to(n) \in FileName /\ to(n)[1] \in Path /\ to(n)[2] = n[2] /\ IsPrefix(dst, to(n)[1])
                      /\ to(n) # Self(Root) /\ to(n) # PropertiesPath(Root)
                      /\ from(to(n)) = n
    OBVIOUS
  <2>1. n \in FileName /\ IsPrefix(src, n[1])
    BY DEF Takes
  <2>2. QED
    BY <2>1, TakenFacts
<1>3. src \in Seq(Segment) /\ dst \in Seq(Segment) /\ Len(src) \in Nat \ {0} /\ Len(dst) \in Nat \ {0}
  BY PathFacts
<1>4. /\ new = [entry |-> new.entry, data |-> new.data]
      /\ new.entry = Updated(d.entry, put) /\ new.data = Updated(d.data, written)
  BY DEF CopyOver
<1> HIDE DEF new, to, from
<1>5. \A n \in there : old(to(n)) = n
  <2> SUFFICES ASSUME NEW n \in there PROVE old(to(n)) = n
    OBVIOUS
  <2>1. \A x \in there : to(x) = to(n) => x = n
    BY <1>2
  <2>2. QED
    BY <2>1
<1>6. \A m \in image : old(m) \in there /\ to(old(m)) = m
  BY <1>5
<1> HIDE DEF old
<1>7. ASSUME NEW m \in image
      PROVE  /\ d.entry[old(m)] = Folder => object(m) = Folder
             /\ d.entry[old(m)] # Folder /\ Exists(d, m) => object(m) = d.entry[m] /\ object(m) \in DOMAIN d.data
             /\ d.entry[old(m)] # Folder /\ ~Exists(d, m) => object(m) = Fresh(d, m) /\ object(m) \notin DOMAIN d.data
             /\ d.entry[old(m)] # Folder => /\ object(m) # Folder /\ object(m) \in FileName \X (Nat \ {0})
                                            /\ object(m)[1][2] = m[2]
             /\ Exists(d, m) => object(m) = d.entry[m]
  <2>1. m \in FileName /\ old(m) \in there /\ to(old(m)) = m
    BY <1>2, <1>6
  <2>2. Exists(d, m) => (d.entry[old(m)] = Folder <=> d.entry[m] = Folder)
    BY <2>1 DEF to
  <2>3. CASE d.entry[old(m)] = Folder
    BY <2>2, <2>3
  <2>4. CASE d.entry[old(m)] # Folder /\ Exists(d, m)
    <3>1. object(m) = d.entry[m] /\ d.entry[m] # Folder
      BY <2>2, <2>4
    <3>2. d.entry[m] \in DOMAIN d.data /\ d.entry[m][1][2] = m[2] /\ d.entry[m] \in FileName \X (Nat \ {0})
      BY <1>1, <2>4, <3>1 DEF Kinds, Exists
    <3>3. QED
      BY <2>4, <3>1, <3>2
  <2>5. CASE d.entry[old(m)] # Folder /\ ~Exists(d, m)
    <3>1. object(m) = Fresh(d, m)
      BY <2>5
    <3>2. Fresh(d, m)[1] = m /\ Fresh(d, m) \in FileName \X (Nat \ {0}) /\ Fresh(d, m) \notin DOMAIN d.data
      BY <2>1, FreshIsNew
    <3>3. Fresh(d, m) # Folder
      BY <3>2, ObjectIsNoFolder
    <3>4. QED
      BY <2>5, <3>1, <3>2, <3>3
  <2>6. QED
    BY <2>3, <2>4, <2>5
<1> HIDE DEF object
<1>8. \A x, y \in files : object(x) = object(y) => x = y
  <2> SUFFICES ASSUME NEW x \in files, NEW y \in files, object(x) = object(y) PROVE x = y
    OBVIOUS
  <2>1. CASE Exists(d, x) /\ Exists(d, y)
    BY <1>1, <1>7, <2>1 DEF OneName, Exists
  <2>2. CASE ~Exists(d, x) /\ ~Exists(d, y)
    <3>1. Fresh(d, x) = Fresh(d, y)
      BY <1>7, <2>2
    <3>2. QED
      BY <3>1, FreshIsNew
  <2>3. CASE Exists(d, x) /\ ~Exists(d, y)
    BY <1>7, <2>3
  <2>4. CASE ~Exists(d, x) /\ Exists(d, y)
    BY <1>7, <2>4
  <2>5. QED
    BY <2>1, <2>2, <2>3, <2>4
<1>9. \A m \in files : object(m) \in objects /\ written[object(m)] = Data(d, old(m))
  <2> SUFFICES ASSUME NEW m \in files PROVE object(m) \in objects /\ written[object(m)] = Data(d, old(m))
    OBVIOUS
  <2>1. (CHOOSE n \in files : object(n) = object(m)) = m
    BY <1>8
  <2>2. QED
    BY <2>1
<1>10. /\ DOMAIN new.entry = DOMAIN d.entry \union (image \union above)
       /\ \A m \in DOMAIN new.entry :
            new.entry[m] = IF m \in image THEN object(m) ELSE IF m \in above THEN Folder ELSE d.entry[m]
       /\ new.entry = [m \in DOMAIN new.entry |-> new.entry[m]]
  <2>1. DOMAIN put = image \union above /\ \A m \in image \union above : put[m] = IF m \in image THEN object(m) ELSE Folder
    OBVIOUS
  <2> HIDE DEF put, image, above
  <2>2. QED
    BY <1>4, <2>1 DEF Updated
<1>11. /\ DOMAIN new.data = DOMAIN d.data \union objects
       /\ \A o \in DOMAIN new.data : new.data[o] = IF o \in objects THEN written[o] ELSE d.data[o]
       /\ new.data = [o \in DOMAIN new.data |-> new.data[o]]
  <2>1. DOMAIN written = objects
    OBVIOUS
  <2> HIDE DEF written, objects
  <2>2. QED
    BY <1>4, <2>1 DEF Updated
<1> HIDE DEF put, written
<1>12. IsFiniteSet(image) /\ IsFiniteSet(above) /\ IsFiniteSet(objects)
  <2>1. IsFiniteSet(there)
    BY <1>1, FS_Subset DEF Shape
  <2> DEFINE g == [n \in there |-> to(n)]
             h == [k \in 1 .. Len(dst) - 1 |-> Self(SubSeq(dst, 1, k))]
             f == [m \in files |-> object(m)]
  <2>2. DOMAIN g = there /\ g = [n \in there |-> g[n]] /\ image = {g[n] : n \in there}
    OBVIOUS
  <2>3. /\ DOMAIN h = 1 .. Len(dst) - 1 /\ h = [k \in 1 .. Len(dst) - 1 |-> h[k]]
        /\ above = {h[k] : k \in 1 .. Len(dst) - 1}
    OBVIOUS
  <2>4. DOMAIN f = files /\ f = [m \in files |-> f[m]] /\ objects = {f[m] : m \in files}
    OBVIOUS
  <2>5. files \subseteq image
    OBVIOUS
  <2>6. IsFiniteSet(1 .. Len(dst) - 1)
    BY <1>3, FS_Interval
  <2> HIDE DEF g, h, f, there, image, above, objects, files
  <2>7. IsFiniteSet(image) /\ IsFiniteSet(above)
    BY <2>1, <2>2, <2>3, <2>6, ImageIsFinite
  <2>8. IsFiniteSet(files)
    BY <2>5, <2>7, FS_Subset
  <2>9. IsFiniteSet(objects)
    BY <2>4, <2>8, ImageIsFinite
  <2>10. QED
    BY <2>7, <2>9
<1>13. Shape(new)
  <2> HIDE DEF image, above, objects
  <2>1. IsFiniteSet(image \union above)
    BY <1>12, FS_Union
  <2>2. IsFiniteSet(DOMAIN d.entry \union (image \union above)) /\ IsFiniteSet(DOMAIN d.data \union objects)
    BY <1>1, <1>12, <2>1, FS_Union DEF Shape
  <2>3. QED
    BY <1>4, <1>10, <1>11, <2>2 DEF Shape
<1>14. ASSUME NEW m \in above
       PROVE  /\ m \in FileName /\ m[1] \in Path /\ m[2] = "self" /\ m \notin image
              /\ \E k \in 1 .. Len(dst) - 1 : m = Self(SubSeq(dst, 1, k)) /\ m[1] = SubSeq(dst, 1, k)
              /\ Exists(d, m) => d.entry[m] = Folder
  <2>1. PICK k \in 1 .. Len(dst) - 1 : m = Self(SubSeq(dst, 1, k))
    OBVIOUS
  <2> DEFINE q == SubSeq(dst, 1, k)
  <2>2. k \in 0 .. Len(dst) /\ k \in 1 .. Len(dst)
    BY <1>3
  <2>3. q \in Path /\ q \in Seq(Segment) /\ Len(q) = k
    BY <1>3, <2>2, FoldersAbove, FirstSegments
  <2>4. ~IsFile(d, q)
    OBVIOUS
  <2> HIDE DEF q
  <2>5. m = Self(q) /\ m[1] = q /\ m[2] = "self" /\ m \in FileName
    BY <2>1, <2>3 DEF q, Self, FileName
  <2>6. Exists(d, m) => d.entry[m] = Folder
    BY <2>4, <2>5 DEF IsFile
  <2>7. m \notin image
    <3> SUFFICES ASSUME m \in image PROVE FALSE
      OBVIOUS
    <3>1. IsPrefix(dst, q)
      BY <1>2, <2>5
    <3>2. Len(dst) <= k
      BY <1>3, <2>3, <3>1, PrefixIsFirst
    <3>3. QED
      BY <1>3, <3>2
  <2>8. QED
    BY <2>1, <2>3, <2>5, <2>6, <2>7 DEF q
<1>15. \A m \in DOMAIN d.entry : m \in DOMAIN new.entry /\ new.entry[m] = d.entry[m]
  BY <1>7, <1>10, <1>14 DEF Exists
<1>16. ASSUME NEW n \in there
       PROVE  /\ to(n) \in image /\ old(to(n)) = n /\ to(n) \in DOMAIN new.entry /\ new.entry[to(n)] = object(to(n))
              /\ d.entry[n] # Folder => to(n) \in files
  BY <1>5, <1>10
<1>17. ASSUME NEW m \in DOMAIN new.entry
       PROVE  \/ m \in DOMAIN d.entry /\ new.entry[m] = d.entry[m]
              \/ new.entry[m] = Folder /\ (m \in above \/ \E n \in there : m = to(n) /\ d.entry[n] = Folder)
              \/ m \in files /\ new.entry[m] = Fresh(d, m) /\ new.entry[m] \notin DOMAIN d.data
  <2>1. CASE m \in DOMAIN d.entry
    BY <1>15, <2>1
  <2>2. CASE m \in above
    BY <1>10, <1>14, <2>2
  <2>3. CASE m \in image /\ m \notin DOMAIN d.entry
    <3>1. new.entry[m] = object(m) /\ old(m) \in there /\ to(old(m)) = m
      BY <1>6, <1>10, <2>3
    <3>2. QED
      BY <1>7, <2>3, <3>1 DEF Exists
  <2>4. QED
    BY <1>10, <2>1, <2>2, <2>3
<1> HIDE DEF there, image, above, files, objects
<1>18. \A m \in files : m \in image /\ old(m) \in there /\ d.entry[old(m)] # Folder /\ to(old(m)) = m
  BY <1>6 DEF files
<1>19. \A o \in objects : \E m \in files : o = object(m)
  BY DEF objects
<1>20. Kinds(new)
  <2>1. ASSUME NEW m \in DOMAIN new.entry PROVE m \in FileName \ {PropertiesPath(Root)}
    <3>1. CASE m \in DOMAIN d.entry
      BY <1>1, <3>1 DEF Kinds
    <3>2. CASE m \in above
      <4>1. m # PropertiesPath(Root)
        BY <1>14, <3>2 DEF PropertiesPath
      <4>2. QED
        BY <1>14, <3>2, <4>1
    <3>3. CASE m \in image
      BY <1>2, <1>6, <3>3 DEF there
    <3>4. QED
      BY <1>10, <3>1, <3>2, <3>3
  <2>2. Self(Root) \in DOMAIN new.entry /\ new.entry[Self(Root)] = Folder
    BY <1>1, <1>15 DEF Kinds
  <2>3. ASSUME NEW m \in DOMAIN new.entry
        PROVE  IF new.entry[m] = Folder THEN m[2] = "self"
               ELSE new.entry[m] \in DOMAIN new.data /\ new.entry[m][1][2] = m[2]
    <3>1. CASE m \in DOMAIN d.entry
      <4>1. IF d.entry[m] = Folder THEN m[2] = "self" ELSE d.entry[m] \in DOMAIN d.data /\ d.entry[m][1][2] = m[2]
        BY <1>1, <3>1 DEF Kinds
      <4>2. QED
        BY <1>11, <1>15, <3>1, <4>1
    <3>2. CASE m \in above
      BY <1>10, <1>14, <3>2
    <3>3. CASE m \in image
      <4>1. new.entry[m] = object(m) /\ old(m) \in DOMAIN d.entry /\ m[2] = old(m)[2]
        BY <1>2, <1>6, <1>10, <3>3 DEF there
      <4>2. CASE d.entry[old(m)] = Folder
        BY <1>1, <1>7, <3>3, <4>1, <4>2 DEF Kinds, image
      <4>3. CASE d.entry[old(m)] # Folder
        <5>1. m \in files
          BY <3>3, <4>3 DEF files
        <5>2. object(m) \in objects
          BY <5>1 DEF objects
        <5>3. object(m) # Folder /\ object(m)[1][2] = m[2]
          BY <1>7, <3>3, <4>3 DEF image
        <5>4. QED
          BY <1>11, <4>1, <5>2, <5>3
      <4>4. QED
        BY <4>2, <4>3
    <3>4. QED
      BY <1>10, <3>1, <3>2, <3>3
  <2>4. ASSUME NEW o \in DOMAIN new.data
        PROVE  o \in FileName \X (Nat \ {0}) /\ (o[1][2] = "self" => new.data[o] \in Seq(Block))
    <3>1. CASE o \notin objects
      BY <1>1, <1>11, <3>1 DEF Kinds
    <3>2. CASE o \in objects
      <4>1. PICK m \in files : o = object(m)
        BY <1>19, <3>2
      <4>2. m \in image /\ old(m) \in DOMAIN d.entry /\ d.entry[old(m)] # Folder /\ to(old(m)) = m /\ old(m) \in names
        BY <1>18 DEF there
      <4>3. o \in FileName \X (Nat \ {0}) /\ o[1][2] = m[2] /\ m[2] = old(m)[2]
        BY <1>2, <1>7, <4>1, <4>2 DEF image
      <4>4. new.data[o] = d.data[d.entry[old(m)]]
        BY <1>9, <1>11, <3>2, <4>1 DEF Data
      <4>5. d.entry[old(m)] \in DOMAIN d.data /\ d.entry[old(m)][1][2] = m[2]
        BY <1>1, <4>2, <4>3 DEF Kinds
      <4>6. QED
        BY <1>1, <4>3, <4>4, <4>5 DEF Kinds
    <3>3. QED
      BY <3>1, <3>2
  <2>5. QED
    BY <2>1, <2>2, <2>3, <2>4 DEF Kinds
<1>21. OneName(new)
  <2> SUFFICES ASSUME NEW x \in DOMAIN new.entry, NEW y \in DOMAIN new.entry,
                      new.entry[x] = new.entry[y], new.entry[x] # Folder
               PROVE  x = y
    BY DEF OneName
  <2>1. ASSUME NEW m \in DOMAIN new.entry, new.entry[m] # Folder
        PROVE  \/ m \in DOMAIN d.entry /\ new.entry[m] = d.entry[m] /\ d.entry[m] \in DOMAIN d.data
               \/ new.entry[m] = Fresh(d, m) /\ new.entry[m] \notin DOMAIN d.data
    BY <1>1, <1>17, <2>1 DEF Kinds
  <2>2. CASE new.entry[x] \in DOMAIN d.data
    BY <1>1, <2>1, <2>2 DEF OneName
  <2>3. CASE new.entry[x] \notin DOMAIN d.data
    <3>1. Fresh(d, x) = Fresh(d, y)
      BY <2>1, <2>3
    <3>2. QED
      BY <3>1, FreshIsNew
  <2>4. QED
    BY <2>2, <2>3
<1>22. \A q : IsDir(d, q) => IsDir(new, q)
  BY <1>15 DEF IsDir, Exists
<1>23. ASSUME NEW k \in 0 .. Len(dst) - 1 PROVE IsDir(new, SubSeq(dst, 1, k))
  <2>1. CASE k = 0
    <3>1. SubSeq(dst, 1, k) = Root
      <4>1. SubSeq(dst, 1, k) \in Seq(Segment) /\ Len(SubSeq(dst, 1, k)) = 0
        BY <1>3, <2>1, FirstSegments
      <4>2. QED
        BY <4>1 DEF Root
    <3>2. IsDir(d, Root)
      BY <1>1 DEF Kinds, IsDir, Exists
    <3>3. QED
      BY <1>22, <3>1, <3>2
  <2>2. CASE k \in 1 .. Len(dst) - 1
    <3> DEFINE q == SubSeq(dst, 1, k)
    <3>1. Self(q) \in above
      BY <2>2 DEF above
    <3> HIDE DEF q
    <3>2. Self(q) \notin image
      BY <1>14, <3>1
    <3>3. Self(q) \in DOMAIN new.entry /\ new.entry[Self(q)] = Folder
      BY <1>10, <3>1, <3>2
    <3>4. QED
      BY <3>3 DEF q, IsDir, Exists
  <2>3. QED
    BY <1>3, <2>1, <2>2
<1>24. ASSUME NEW n \in there, NEW k \in 0 .. Len(to(n)[1]) - 1
       PROVE  IsDir(new, SubSeq(to(n)[1], 1, k))
  <2> DEFINE j == k - Len(dst) + Len(src)
  <2>1. n \in names /\ n \in DOMAIN d.entry
    BY DEF there
  <2>2. /\ k < Len(dst) => SubSeq(to(n)[1], 1, k) = SubSeq(dst, 1, k)
        /\ k >= Len(dst) => /\ j \in Len(src) .. Len(n[1]) - 1
                            /\ Self(SubSeq(to(n)[1], 1, k)) = to(Self(SubSeq(n[1], 1, j)))
    BY <1>2, <2>1, AboveRenamed DEF to
  <2>3. CASE k < Len(dst)
    <3>1. k \in 0 .. Len(dst) - 1
      BY <1>3, <2>3
    <3>2. QED
      BY <1>23, <2>2, <2>3, <3>1
  <2>4. CASE k >= Len(dst)
    <3> DEFINE q == SubSeq(n[1], 1, j)
    <3>1. j \in Len(src) .. Len(n[1]) - 1 /\ Self(SubSeq(to(n)[1], 1, k)) = to(Self(q))
      BY <2>2, <2>4
    <3>2. Self(q) \in names
      BY <2>1, <3>1 DEF Takes
    <3>3. j \in 0 .. Len(n[1]) - 1
      BY <1>3, <3>1
    <3>4. IsDir(d, q)
      BY <1>1, <2>1, <3>3 DEF Hung
    <3> HIDE DEF q
    <3>5. Self(q) \in there /\ d.entry[Self(q)] = Folder
      BY <3>2, <3>4 DEF IsDir, Exists, there
    <3>6. to(Self(q)) \in DOMAIN new.entry /\ new.entry[to(Self(q))] = Folder
      BY <1>7, <1>16, <3>5 DEF image
    <3>7. QED
      BY <3>1, <3>6 DEF IsDir, Exists
  <2>5. k < Len(dst) \/ k >= Len(dst)
    <3>1. to(n)[1] \in Seq(Segment)
      BY <1>2, <2>1, PathFacts
    <3>2. QED
      BY <1>3, <3>1
  <2>6. QED
    BY <2>3, <2>4, <2>5
<1>25. ASSUME NEW m \in above, NEW k \in 0 .. Len(m[1]) - 1 PROVE IsDir(new, SubSeq(m[1], 1, k))
  <2>1. PICK i \in 1 .. Len(dst) - 1 : m[1] = SubSeq(dst, 1, i)
    BY <1>14 DEF above
  <2>2. i \in 0 .. Len(dst)
    BY <1>3
  <2>3. m[1] \in Seq(Segment) /\ Len(m[1]) = i /\ IsPrefix(m[1], dst)
    BY <1>3, <2>1, <2>2, FirstSegments
  <2>4. k \in 0 .. Len(m[1]) /\ k \in 0 .. Len(dst) - 1
    BY <1>3, <2>3
  <2>5. SubSeq(m[1], 1, k) = SubSeq(dst, 1, k)
    BY <1>3, <2>3, <2>4, PrefixIsFirst
  <2>6. QED
    BY <1>23, <2>4, <2>5
<1>26. Hung(new)
  <2> SUFFICES ASSUME NEW m \in DOMAIN new.entry, NEW k \in 0 .. Len(m[1]) - 1 PROVE IsDir(new, SubSeq(m[1], 1, k))
    BY DEF Hung
  <2>1. CASE m \in DOMAIN d.entry
    BY <1>1, <1>22, <2>1 DEF Hung
  <2>2. CASE m \in above
    BY <1>25, <2>2
  <2>3. CASE m \in image
    <3>1. PICK n \in there : m = to(n)
      BY <2>3 DEF image
    <3>2. QED
      BY <1>24, <3>1
  <2>4. QED
    BY <1>10, <2>1, <2>2, <2>3
<1>27. \A n \in there : /\ new.entry[to(n)] = Folder <=> d.entry[n] = Folder
                        /\ d.entry[n] # Folder => Data(new, to(n)) = Data(d, n)
  <2> SUFFICES ASSUME NEW n \in there
               PROVE  /\ new.entry[to(n)] = Folder <=> d.entry[n] = Folder
                      /\ d.entry[n] # Folder => Data(new, to(n)) = Data(d, n)
    OBVIOUS
  <2>1. to(n) \in image /\ old(to(n)) = n /\ new.entry[to(n)] = object(to(n)) /\ (d.entry[n] # Folder => to(n) \in files)
    BY <1>16
  <2>2. new.entry[to(n)] = Folder <=> d.entry[n] = Folder
    BY <1>7, <2>1 DEF image
  <2>3. ASSUME d.entry[n] # Folder PROVE Data(new, to(n)) = Data(d, n)
    <3>1. object(to(n)) \in objects /\ written[object(to(n))] = Data(d, n)
      BY <1>9, <2>1, <2>3
    <3>2. QED
      BY <1>11, <2>1, <3>1 DEF Data
  <2>4. QED
    BY <2>2, <2>3
<1>28. ASSUME NEW m, m \notin image, m \in above => Exists(d, m) PROVE Same(d, new, m)
  <2>1. m \in DOMAIN new.entry <=> m \in DOMAIN d.entry
    BY <1>10, <1>28 DEF Exists
  <2>2. ASSUME m \in DOMAIN d.entry, d.entry[m] # Folder PROVE new.data[d.entry[m]] = d.data[d.entry[m]]
    <3>1. d.entry[m] \in DOMAIN d.data
      BY <1>1, <2>2 DEF Kinds
    <3>2. d.entry[m] \notin objects
      <4> SUFFICES ASSUME NEW n \in files, d.entry[m] = object(n) PROVE FALSE
        BY <1>19
      <4>1. n \in image /\ Exists(d, n) /\ object(n) = d.entry[n]
        BY <1>7, <1>18, <3>1 DEF image
      <4>2. m = n
        BY <1>1, <2>2, <4>1 DEF OneName, Exists
      <4>3. QED
        BY <1>28, <4>1, <4>2
    <3>3. QED
      BY <1>11, <3>1, <3>2
  <2>3. QED
    BY <1>15, <2>1, <2>2 DEF Same
<1>29. \A m \in DOMAIN new.entry : \/ new.entry[m] = Folder \/ new.entry[m] \notin DOMAIN d.data
                                   \/ m \in DOMAIN d.entry /\ new.entry[m] = d.entry[m]
  BY <1>17
<1>30. DOMAIN d.data \subseteq DOMAIN new.data
  BY <1>11
<1>31. Copies(d, new, names, src, dst)
  BY <1>10, <1>13, <1>20, <1>21, <1>26, <1>27, <1>28, <1>29, <1>30 DEF DiskOK, Copies, to, image, above, there
<1>32. QED
  BY <1>31 DEF new

-----------------------------------------------------------------------------
(* What a request touches                                                  *)

LEMMA ScopeFacts ==
    ASSUME NEW r \in Requests
    PROVE  /\ r.path \in Path /\ r.path \in Seq(Segment)
           /\ Resource(r.path) \subseteq Scope(r) /\ Self(Parent(r.path)) \in Scope(r)
           /\ Self(r.path) \in Resource(r.path) /\ PropertiesPath(r.path) \in Resource(r.path)
           /\ Own(r) \in {Self(r.path), PropertiesPath(r.path)} /\ Own(r) \in FileName /\ Own(r) \in Scope(r)
           /\ r.method \in {"COPY", "MOVE"} =>
                /\ r.dst \in Path /\ r.dst \in Seq(Segment) /\ ~IsPrefix(r.path, r.dst) /\ ~IsPrefix(r.dst, r.path)
                /\ Resource(r.dst) \subseteq Scope(r) /\ Self(Parent(r.dst)) \in Scope(r)
                /\ Self(r.dst) \in Resource(r.dst) /\ PropertiesPath(r.dst) \in Resource(r.dst)
<1>1. r.path \in Path /\ r.path \in Seq(Segment)
  BY ProviderAssumption, PathFacts
<1>2. \A p : Self(p) \in Resource(p) /\ PropertiesPath(p) \in Resource(p)
  BY DEF Resource, Tree
<1> DEFINE around(p) == Tree(p) \union {PropertiesPath(p), Self(Parent(p))}
           paths == {r.path} \union (IF r.method \in {"COPY", "MOVE"} THEN {r.dst} ELSE {})
<1>3. Scope(r) = UNION {around(p) : p \in paths}
  BY DEF Scope
<1>4. \A p \in paths : around(p) \subseteq Scope(r)
  BY <1>3
<1>5. \A p : Resource(p) \subseteq around(p) /\ Self(Parent(p)) \in around(p)
  BY DEF Resource
<1>6. r.path \in paths /\ (r.method \in {"COPY", "MOVE"} => r.dst \in paths)
  OBVIOUS
<1>7. Own(r) \in {Self(r.path), PropertiesPath(r.path)}
  BY DEF Own
<1>8. Self(r.path) \in FileName /\ PropertiesPath(r.path) \in FileName
  BY <1>1 DEF Self, PropertiesPath, FileName
<1>9. r.method \in {"COPY", "MOVE"} =>
        r.dst \in Path /\ r.dst \in Seq(Segment) /\ ~IsPrefix(r.path, r.dst) /\ ~IsPrefix(r.dst, r.path)
  BY ProviderAssumption, PathFacts
<1> HIDE DEF around, paths
<1>10. QED
  BY <1>1, <1>2, <1>4, <1>5, <1>6, <1>7, <1>8, <1>9

LEMMA ChangesFacts ==
    ASSUME NEW r \in Requests
    PROVE  /\ r.method = "MOVE" => Changes(r) = Resource(r.path) \union Resource(r.dst)
           /\ r.method = "COPY" => Changes(r) = Resource(r.dst)
           /\ r.method = "GET" => Changes(r) = {}
           /\ r.method \in {"MKCOL", "DELETE", "PUT", "PROPPATCH"} => Changes(r) = Resource(r.path)
           /\ Changes(r) \subseteq Scope(r)
           /\ r.method \in {"PUT", "PROPPATCH"} => Own(r) \in Changes(r)
<1>1. r.method \in {"MKCOL", "DELETE", "PUT", "PROPPATCH", "GET", "COPY", "MOVE"}
  BY ProviderAssumption
<1>2. /\ r.method = "MOVE" => Changes(r) = Resource(r.path) \union Resource(r.dst)
      /\ r.method = "COPY" => Changes(r) = Resource(r.dst)
      /\ r.method = "GET" => Changes(r) = {}
      /\ r.method \in {"MKCOL", "DELETE", "PUT", "PROPPATCH"} => Changes(r) = Resource(r.path)
  BY DEF Changes, Resource
<1>3. QED
  BY <1>1, <1>2, ScopeFacts

\* With a folder, what is in it may change.
LEMMA ChangesBelow ==
    ASSUME NEW r \in Requests, NEW p \in Path, NEW k \in 1 .. Len(p), Self(SubSeq(p, 1, k)) \in Changes(r)
    PROVE  Self(p) \in Changes(r)
<1> DEFINE q == SubSeq(p, 1, k)
<1>1. p \in Seq(Segment) /\ k \in 0 .. Len(p)
  BY PathFacts
<1>2. q \in Path /\ q \in Seq(Segment) /\ IsPrefix(q, p)
  BY <1>1, FoldersAbove, FirstSegments
<1> HIDE DEF q
<1>3. Self(q) \in FileName /\ Self(q)[1] = q /\ Self(p) \in FileName /\ Self(p)[1] = p
  BY <1>2 DEF Self, FileName
<1>4. ASSUME NEW a \in Seq(Segment), Self(q) \in Resource(a) PROVE Self(p) \in Resource(a)
  <2>1. IsPrefix(a, q)
    BY <1>3, <1>4, TreeFacts
  <2>2. IsPrefix(a, p)
    BY <1>1, <1>2, <2>1, PrefixTransitive
  <2>3. QED
    BY <1>3, <2>2, TreeFacts
<1>5. Self(q) \in Changes(r)
  BY DEF q
<1>6. r.method \in {"MKCOL", "DELETE", "PUT", "PROPPATCH", "GET", "COPY", "MOVE"}
  BY ProviderAssumption
<1>7. CASE r.method = "MOVE"
  BY <1>4, <1>5, <1>7, ChangesFacts, ScopeFacts
<1>8. CASE r.method = "COPY"
  BY <1>4, <1>5, <1>8, ChangesFacts, ScopeFacts
<1>9. CASE r.method = "GET"
  BY <1>5, <1>9, ChangesFacts
<1>10. CASE r.method \in {"MKCOL", "DELETE", "PUT", "PROPPATCH"}
  BY <1>4, <1>5, <1>10, ChangesFacts, ScopeFacts
<1>11. QED
  BY <1>6, <1>7, <1>8, <1>9, <1>10

-----------------------------------------------------------------------------
(* What a step leaves alone                                                *)

\* What a call makes of the disk: nothing is lost but names the request may change, and
\* nothing that is another's, who is alone; and a name leads to what it led to, to
\* what another name of the request led to, or to something new.
Writes(t, new) ==
    /\ DiskOK(new)
    /\ DOMAIN disk.data \subseteq DOMAIN new.data
    /\ \A n \in DOMAIN disk.entry : n \notin Changes(Req(t)) => n \in DOMAIN new.entry
    /\ \A u \in Task : Alone(u) /\ u # t => \A n \in Scope(Req(u)) : Same(disk, new, n)
    /\ \A n \in DOMAIN new.entry :
         \/ new.entry[n] = Folder
         \/ new.entry[n] \notin DOMAIN disk.data
         \/ n \in DOMAIN disk.entry /\ new.entry[n] = disk.entry[n]
         \/ \E m \in Scope(Req(t)) \intersect DOMAIN disk.entry : new.entry[n] = disk.entry[m]

Asks == {"copy_dst", "copy_kind", "copy_tree"}

\* Where a request that goes on is to be.
Goes(t, x, new) ==
    /\ Running(x, new)
    /\ x.request = Req(t) /\ x.alone = task[t].alone
    /\ x.object # NoFile =>
         \/ x.object = task[t].object
         \/ Exists(new, Own(Req(t))) /\ new.entry[Own(Req(t))] = x.object
    /\ x.alone /\ x.object # NoFile => Exists(new, Own(Req(t))) /\ new.entry[Own(Req(t))] = x.object
    /\ x.at \in Asks => new = disk /\ (task[t].at \in Asks \/ Exists(disk, Self(Parent(Req(t).dst))))
    /\ x.alone => Reached(x, Shown(new, Scope(Req(t))))

\* The objects that are open are no folders.
LEMMA OpenFacts ==
    ASSUME NEW d, DiskOK(d), NEW x, Running(x, d)
    PROVE  /\ x # IdleTask /\ x.request \in Requests
           /\ x.object # NoFile => /\ x.at \in Opened /\ x.object \in DOMAIN d.data /\ x.object # Folder
                                   /\ x.request.method \in {"PUT", "PROPPATCH", "GET"}
<1>1. x # IdleTask
  <2>1. "alone" \in DOMAIN x /\ "alone" \notin DOMAIN IdleTask
    BY DEF Running, Field, IdleTask
  <2>2. QED
    BY <2>1
<1>2. x.object # NoFile => x.at \in Opened /\ x.object \in DOMAIN d.data
  BY DEF Running
<1>3. x.object # NoFile => x.object # Folder
  BY <1>2, ObjectIsNoFolder DEF DiskOK, Kinds
<1>4. x.at \in Opened => x.request.method \in {"PUT", "PROPPATCH", "GET"}
  <2>1. x.request.method \in {"MKCOL", "DELETE", "PUT", "PROPPATCH", "GET", "COPY", "MOVE"} /\ x.at \in Stages(x.request.method)
    BY ProviderAssumption DEF Running
  <2>2. QED
    BY <2>1 DEF Opened, Stages, Ending
<1>5. QED
  BY <1>1, <1>2, <1>3, <1>4 DEF Running

\* Whatever a call is, if it writes and goes on so, the invariant holds after it.
LEMMA StepKeeps ==
    ASSUME FSInv, NEW t \in Task, Busy(t), NEW x, NEW new, Step(t, x, new), Writes(t, new),
           x = IdleTask \/ Goes(t, x, new)
    PROVE  FSInv' /\ \A n : Same(new, disk', n)
<1> DEFINE open == {task'[u].object : u \in Task}
<1>1. /\ DiskOK(disk) /\ TaskOK /\ Others /\ Holding /\ Apart /\ Standing
      /\ \A u \in Task : Alone(u) => Reached(task[u], Shown(disk, Scope(Req(u))))
  BY DEF FSInv
<1>2. /\ task' = [task EXCEPT ![t] = x] /\ disk' = Settled(new, open)
      /\ DOMAIN task = Task /\ DOMAIN task' = Task
  BY <1>1 DEF Step, TaskOK
<1>3. task'[t] = x /\ \A u \in Task : u # t => task'[u] = task[u]
  BY <1>2
<1>4. /\ DiskOK(new) /\ DOMAIN disk.data \subseteq DOMAIN new.data
      /\ \A u \in Task : Alone(u) /\ u # t => \A n \in Scope(Req(u)) : Same(disk, new, n)
  BY DEF Writes
<1>5. \A u \in Task : task'[u].object \in open
  OBVIOUS
<1> HIDE DEF open
<1>6. /\ DiskOK(disk') /\ disk'.entry = new.entry /\ DOMAIN disk'.data \subseteq DOMAIN new.data
      /\ \A o \in open \intersect DOMAIN new.data : o \in DOMAIN disk'.data /\ disk'.data[o] = new.data[o]
      /\ \A n : Same(new, disk', n)
  BY <1>2, <1>4, SettledOK
<1>7. ASSUME NEW u \in Task, u # t
      PROVE  Busy(u)' = Busy(u) /\ Alone(u)' = Alone(u) /\ Req(u)' = Req(u) /\ task'[u] = task[u]
  BY <1>3, <1>7 DEF Busy, Alone, Req
<1>8. \A u \in Task : Busy(u) => Running(task[u], disk) /\ task[u] # IdleTask
  BY <1>1 DEF TaskOK, Busy
<1>9. IdleTask.object = NoFile
  BY DEF IdleTask
<1>10. ASSUME Busy(t)'
       PROVE  /\ Goes(t, x, new) /\ Running(x, new) /\ Req(t)' = Req(t) /\ x.request = Req(t)
              /\ (Alone(t)' <=> x.alone) /\ (Alone(t)' <=> Alone(t))
  <2>1. x # IdleTask
    BY <1>3, <1>10 DEF Busy
  <2>2. Goes(t, x, new)
    BY <2>1
  <2>3. task[t].alone \in BOOLEAN /\ x.alone \in BOOLEAN /\ x.alone = task[t].alone
    BY <1>8, <2>2 DEF Goes, Running
  <2>4. Alone(t)' <=> x.alone
    BY <1>3, <1>10 DEF Alone
  <2>5. Alone(t) <=> task[t].alone
    BY DEF Alone
  <2>6. Alone(t)' <=> Alone(t)
    BY <2>3, <2>4, <2>5
  <2>7. Running(x, new) /\ x.request = Req(t) /\ Req(t)' = Req(t)
    BY <1>3, <2>2 DEF Goes, Req
  <2>8. QED
    BY <2>2, <2>4, <2>6, <2>7
<1>11. ASSUME NEW u \in Task, Busy(u)'
       PROVE  /\ Busy(u) /\ Req(u)' = Req(u) /\ (Alone(u)' <=> Alone(u)) /\ Req(u) \in Requests
  <2>1. CASE u = t
    BY <1>8, <1>10, <1>11, <2>1 DEF Running, Req
  <2>2. CASE u # t
    BY <1>7, <1>8, <1>11, <2>2 DEF Running, Req
  <2>3. QED
    BY <2>1, <2>2
<1>12. ASSUME NEW u \in Task, Alone(u)'
       PROVE  Busy(u)' /\ Busy(u) /\ Alone(u) /\ Req(u)' = Req(u) /\ Req(u) \in Requests
  BY <1>11, <1>12 DEF Alone
<1>13. TaskOK'
  <2> SUFFICES ASSUME NEW u \in Task, Busy(u)' PROVE Running(task'[u], disk')
    BY <1>2 DEF TaskOK
  <2>1. ASSUME NEW y, NEW d, DOMAIN d.data \subseteq DOMAIN new.data, Running(y, d), y.object \in open PROVE Running(y, disk')
    BY <1>6, <2>1 DEF Running
  <2>2. task'[u].object \in open
    BY <1>5
  <2>3. CASE u = t
    BY <1>3, <1>10, <2>1, <2>2, <2>3
  <2>4. CASE u # t
    BY <1>4, <1>7, <1>8, <2>1, <2>2, <2>4
  <2>5. QED
    BY <2>3, <2>4
<1>14. Others'
  <2> SUFFICES ASSUME NEW u \in Task, NEW v \in Task, Alone(u)', Busy(v)', v # u
               PROVE  Disjoint(Req(u)', Req(v)') /\ Disjoint(Req(v)', Req(u)')
    BY DEF Others
  <2>1. Alone(u) /\ Busy(v) /\ Req(u)' = Req(u) /\ Req(v)' = Req(v)
    BY <1>11, <1>12
  <2>2. QED
    BY <1>1, <2>1 DEF Others
<1>15. Holding'
  <2> SUFFICES ASSUME NEW u \in Task, Alone(u)', task'[u].object # NoFile
               PROVE  Exists(disk', Own(Req(u)')) /\ disk'.entry[Own(Req(u)')] = task'[u].object
    BY DEF Holding
  <2>1. Alone(u) /\ Req(u)' = Req(u) /\ Own(Req(u)) \in Scope(Req(u))
    BY <1>12, ScopeFacts
  <2>2. Exists(new, Own(Req(u))) /\ new.entry[Own(Req(u))] = task'[u].object
    <3>1. CASE u = t
      BY <1>3, <1>10, <1>12, <3>1 DEF Goes
    <3>2. CASE u # t
      <4>1. Exists(disk, Own(Req(u))) /\ disk.entry[Own(Req(u))] = task'[u].object
        BY <1>1, <1>7, <2>1, <3>2 DEF Holding
      <4>2. Same(disk, new, Own(Req(u)))
        BY <1>4, <2>1, <3>2
      <4>3. QED
        BY <4>1, <4>2 DEF Same, Exists
    <3>3. QED
      BY <3>1, <3>2
  <2>3. QED
    BY <1>6, <2>1, <2>2 DEF Exists
<1>16. Apart'
  <2> SUFFICES ASSUME NEW u \in Task, NEW v \in Task, Alone(u)', Busy(v)', v # u, Req(v)'.method # "GET",
                      task'[v].object # NoFile, NEW n \in Scope(Req(u)') \intersect DOMAIN disk'.entry
               PROVE  disk'.entry[n] # task'[v].object
    BY DEF Apart
  <2>1. /\ Alone(u) /\ Busy(u) /\ Busy(v) /\ Req(u)' = Req(u) /\ Req(v)' = Req(v)
        /\ Req(u) \in Requests /\ Req(v) \in Requests
        /\ n \in Scope(Req(u)) /\ n \in DOMAIN new.entry
    BY <1>6, <1>11, <1>12
  <2>2. \A m \in Scope(Req(u)) \intersect DOMAIN disk.entry : task[v].object # NoFile => disk.entry[m] # task[v].object
    BY <1>1, <2>1 DEF Apart
  <2>3. CASE u = t
    <3>1. task'[v] = task[v] /\ task[v].object \in DOMAIN disk.data /\ task[v].object # Folder
      BY <1>1, <1>7, <1>8, <2>1, <2>3, OpenFacts
    <3>2. \/ new.entry[n] = Folder \/ new.entry[n] \notin DOMAIN disk.data
          \/ n \in DOMAIN disk.entry /\ new.entry[n] = disk.entry[n]
          \/ \E m \in Scope(Req(t)) \intersect DOMAIN disk.entry : new.entry[n] = disk.entry[m]
      BY <2>1 DEF Writes
    <3>3. QED
      BY <1>6, <2>1, <2>2, <2>3, <3>1, <3>2
  <2>4. CASE u # t /\ v # t
    BY <1>4, <1>6, <1>7, <2>1, <2>2, <2>4 DEF Same
  <2>5. CASE v = t
    <3>1. Same(disk, new, n)
      BY <1>4, <2>1, <2>5
    <3>2. CASE x.object = task[t].object
      BY <1>3, <1>6, <2>1, <2>2, <2>5, <3>1, <3>2 DEF Same
    <3>3. CASE Exists(new, Own(Req(t))) /\ new.entry[Own(Req(t))] = x.object
      <4>1. x.object # Folder /\ x.request.method \in {"PUT", "PROPPATCH", "GET"} /\ x.request = Req(t)
        BY <1>3, <1>4, <1>10, <2>5, OpenFacts
      <4>2. Own(Req(t)) \in Changes(Req(t))
        BY <2>1, <2>5, <4>1, ChangesFacts
      <4>3. n # Own(Req(t))
        BY <1>1, <2>1, <2>5, <4>2 DEF Others, Disjoint
      <4>4. QED
        BY <1>3, <1>4, <1>6, <2>1, <2>5, <3>3, <4>1, <4>3 DEF DiskOK, OneName, Exists
    <3>4. QED
      BY <1>3, <1>10, <2>5, <3>2, <3>3 DEF Goes
  <2>6. QED
    BY <2>3, <2>4, <2>5
<1>17. Standing'
  <2> SUFFICES ASSUME NEW u \in Task, NEW v \in Task, Alone(u)', Busy(v)', task'[v].at \in Asks,
                      NEW k \in 1 .. Len(Req(v)'.dst) - 1, Self(SubSeq(Req(v)'.dst, 1, k)) \in Scope(Req(u)')
               PROVE  Exists(disk', Self(SubSeq(Req(v)'.dst, 1, k)))
    BY DEF Standing, Asks
  <2> DEFINE dst == Req(v).dst
             n == Self(SubSeq(dst, 1, k))
  <2>1. /\ Alone(u) /\ Busy(u) /\ Busy(v) /\ Req(u)' = Req(u) /\ Req(v)' = Req(v)
        /\ Req(u) \in Requests /\ Req(v) \in Requests /\ n \in Scope(Req(u)) /\ k \in 1 .. Len(dst) - 1
    BY <1>11, <1>12
  <2>2. dst \in Path /\ Self(Parent(dst)) \in Scope(Req(v)) /\ Len(dst) \in Nat \ {0}
    <3>1. task'[v].request = Req(v)' /\ task'[v].at \in Stages(task'[v].request.method)
      BY <1>2, <1>13 DEF TaskOK, Running, Req
    <3>2. Req(v).method \in {"MKCOL", "DELETE", "PUT", "PROPPATCH", "GET", "COPY", "MOVE"}
      BY <2>1, ProviderAssumption
    <3>3. Req(v).method = "COPY"
      BY <2>1, <3>1, <3>2 DEF Stages, Asks, Ending
    <3>4. QED
      BY <2>1, <3>3, ScopeFacts, PathFacts
  <2>3. k \in 0 .. Len(dst) - 1 /\ (k = Len(dst) - 1 \/ k \in 0 .. Len(dst) - 2)
    BY <2>1, <2>2
  <2>4. Parent(dst) = SubSeq(dst, 1, Len(dst) - 1)
    BY <2>2, PathFacts
  <2>5. task[v].at \in Asks => Exists(disk, n)
    BY <1>1, <2>1 DEF Standing, Asks
  <2> HIDE DEF dst
  <2>6. Exists(disk, n)
    <3>1. CASE v = t
      <4>1. Goes(t, x, new) /\ x.at \in Asks
        BY <1>3, <1>10, <3>1
      <4>2. CASE Exists(disk, Self(Parent(dst)))
        <5>1. \A j \in 0 .. Len(dst) - 2 : IsDir(disk, SubSeq(dst, 1, j))
          BY <1>1, <2>2, <4>2, FoldersUp
        <5>2. CASE k = Len(dst) - 1
          BY <2>4, <4>2, <5>2
        <5>3. CASE k \in 0 .. Len(dst) - 2
          BY <5>1, <5>3 DEF IsDir
        <5>4. QED
          BY <2>3, <5>2, <5>3
      <4>3. QED
        BY <2>5, <3>1, <4>1, <4>2 DEF Goes, dst
    <3>2. CASE v # t
      BY <1>7, <2>5, <3>2
    <3>3. QED
      BY <3>1, <3>2
  <2>7. Exists(new, n)
    <3>1. CASE u # t
      <4>1. Same(disk, new, n)
        BY <1>4, <2>1, <3>1
      <4>2. QED
        BY <2>6, <4>1 DEF Same, Exists
    <3>2. CASE v = t
      <4>1. new = disk
        BY <1>3, <1>10, <3>2 DEF Goes
      <4>2. QED
        BY <2>6, <4>1
    <3>3. CASE u = t /\ v # t
      <4>1. n \notin Changes(Req(t))
        <5> SUFFICES ASSUME n \in Changes(Req(t)) PROVE FALSE
          OBVIOUS
        <5>1. Self(Parent(dst)) \in Changes(Req(t))
          <6>1. CASE k = Len(dst) - 1
            BY <2>4, <6>1
          <6>2. CASE k \in 0 .. Len(dst) - 2
            <7> DEFINE q == Parent(dst)
            <7>1. Len(dst) > 1
              BY <2>1, <2>2, <6>2
            <7>2. q \in Path /\ q \in Seq(Segment) /\ dst \in Seq(Segment) /\ Len(dst) - 1 \in 0 .. Len(dst)
              BY <2>2, <7>1, FileAssumption, PathFacts
            <7>3. Len(q) = Len(dst) - 1 /\ IsPrefix(q, dst)
              BY <2>4, <7>2, FirstSegments
            <7>4. k \in 1 .. Len(q) /\ k \in 0 .. Len(q)
              BY <2>1, <2>2, <6>2, <7>3
            <7> HIDE DEF q
            <7>5. SubSeq(dst, 1, k) = SubSeq(q, 1, k)
              BY <7>2, <7>3, <7>4, PrefixIsFirst
            <7>6. Self(SubSeq(q, 1, k)) \in Changes(Req(t))
              BY <7>5
            <7>7. Self(q) \in Changes(Req(t))
              BY <2>1, <3>3, <7>2, <7>4, <7>6, ChangesBelow
            <7>8. QED
              BY <7>7 DEF q
          <6>3. QED
            BY <2>3, <6>1, <6>2
        <5>2. QED
          BY <1>1, <2>1, <2>2, <3>3, <5>1 DEF Others, Disjoint
      <4>2. QED
        BY <2>6, <4>1 DEF Writes, Exists
    <3>4. QED
      BY <3>1, <3>2, <3>3
  <2>8. QED
    BY <1>6, <2>1, <2>7 DEF Exists, dst
<1>18. ASSUME NEW u \in Task, Alone(u)' PROVE Reached(task'[u], Shown(disk', Scope(Req(u)')))
  <2>1. Alone(u) /\ Req(u)' = Req(u)
    BY <1>12, <1>18
  <2>2. Shown(disk', Scope(Req(u))) = Shown(new, Scope(Req(u)))
    BY <1>6, ShownSame
  <2>3. CASE u = t
    <3>1. Busy(t)' /\ x.alone
      BY <1>10, <1>12, <1>18, <2>3
    <3>2. QED
      BY <1>3, <1>10, <2>1, <2>2, <2>3, <3>1 DEF Goes
  <2>4. CASE u # t
    <3>1. Shown(new, Scope(Req(u))) = Shown(disk, Scope(Req(u)))
      BY <1>4, <2>1, <2>4, ShownSame
    <3>2. QED
      BY <1>1, <1>7, <2>1, <2>2, <2>4, <3>1
  <2>5. QED
    BY <2>3, <2>4
<1>19. FSInv'
  BY <1>6, <1>13, <1>14, <1>15, <1>16, <1>17, <1>18 DEF FSInv
<1>20. QED
  BY <1>6, <1>19

\* A request that comes in finds the others as they are, and they are alone still if it
\* has nothing to do with what is theirs.
LEMMA ArriveKeeps ==
    ASSUME FSInv, NEW t \in Task, NEW r \in Requests, Arrive(t, r)
    PROVE  FSInv' /\ disk' = disk /\ \A u \in Task : Busy(u) => task'[u] # IdleTask
<1> DEFINE x == Started(r)
<1>1. /\ DiskOK(disk) /\ TaskOK /\ Others /\ Holding /\ Apart /\ Standing
      /\ \A u \in Task : Alone(u) => Reached(task[u], Shown(disk, Scope(Req(u))))
  BY DEF FSInv
<1>2. disk' = disk /\ ~Busy(t) /\ DOMAIN task' = Task /\ task'[t] = x
  BY DEF Arrive
<1>3. ASSUME NEW u \in Task, Busy(u)
      PROVE  /\ u # t /\ Running(task[u], disk) /\ Running(task'[u], disk)
             /\ task'[u] = [task[u] EXCEPT !.alone = @ /\ Disjoint(Req(u), r)]
             /\ task'[u].alone <=> task[u].alone /\ Disjoint(Req(u), r)
             /\ task'[u].object = task[u].object /\ task'[u].request = task[u].request
             /\ task'[u].at = task[u].at
             /\ \A now : Reached(task[u], now) => Reached(task'[u], now)
  <2>1. u # t /\ Running(task[u], disk)
    BY <1>1, <1>2, <1>3 DEF TaskOK
  <2> DEFINE y == [task[u] EXCEPT !.alone = @ /\ Disjoint(Req(u), r)]
  <2>2. task'[u] = y
    BY <1>3, <2>1 DEF Arrive
  <2>3. DOMAIN task[u] = Field /\ task[u] = [f \in Field |-> task[u][f]] /\ "alone" \in Field
    BY <2>1 DEF Running, Field
  <2>4. /\ DOMAIN y = Field /\ y = [f \in Field |-> y[f]] /\ (y.alone <=> task[u].alone /\ Disjoint(Req(u), r))
        /\ y.alone \in BOOLEAN
        /\ \A f \in Field : f # "alone" => y[f] = task[u][f]
    BY <2>1, <2>3 DEF Running, Disjoint
  <2> HIDE DEF y
  <2>5. /\ y.at = task[u].at /\ y.object = task[u].object /\ y.request = task[u].request /\ y.parts = task[u].parts
        /\ y.props = task[u].props /\ y.seen = task[u].seen /\ y.length = task[u].length /\ y.sent = task[u].sent
        /\ y.wrote = task[u].wrote /\ y.before = task[u].before
    BY <2>4 DEF Field
  <2>6. Running(y, disk)
    BY <2>1, <2>4, <2>5 DEF Running
  <2>7. \A now : Reached(task[u], now) => Reached(y, now)
    BY <2>5 DEF Reached
  <2>8. QED
    BY <2>1, <2>2, <2>4, <2>5, <2>6, <2>7 DEF y
<1>4. ASSUME NEW u \in Task, u # t, ~Busy(u) PROVE task'[u] = IdleTask
  BY <1>4 DEF Arrive, Busy
<1>5. /\ DOMAIN x = Field /\ x = [f \in Field |-> x[f]]
      /\ x.at = FirstCall(r) /\ x.object = NoFile /\ x.request = r /\ x.parts = 0 /\ x.seen = {} /\ x.sent = << >>
      /\ x.wrote = FALSE /\ x.before = Shown(disk, Scope(r))
      /\ x.alone \in BOOLEAN
      /\ x.alone <=> \A u \in Task : Busy(u) => task[u].alone /\ Disjoint(r, Req(u))
  <2> DEFINE alone == \A u \in Task : Busy(u) => task[u].alone /\ Disjoint(r, Req(u))
             now == Shown(disk, Scope(r))
  <2>1. x = [at |-> FirstCall(r), object |-> NoFile, request |-> r, parts |-> 0, props |-> NoProperties,
             seen |-> {}, length |-> 0, sent |-> << >>, wrote |-> FALSE, before |-> now, alone |-> alone]
    BY DEF Started
  <2>2. alone \in BOOLEAN
    OBVIOUS
  <2> HIDE DEF x, alone, now
  <2>3. DOMAIN x = Field /\ x = [f \in Field |-> x[f]]
    BY <2>1 DEF Field
  <2>4. x.alone = alone
    BY <2>1
  <2>5. /\ x.at = FirstCall(r) /\ x.object = NoFile /\ x.request = r /\ x.parts = 0 /\ x.seen = {} /\ x.sent = << >>
        /\ x.wrote = FALSE /\ x.before = now
    BY <2>1
  <2>6. QED
    BY <2>2, <2>3, <2>4, <2>5 DEF alone, now
<1> HIDE DEF x
<1>6. /\ x.at \in Stages(r.method) /\ x.at \notin Opened /\ x.at \notin Asks /\ x.at \notin Ending
      /\ x.at \in {"mkcol", "delete", "put", "proppatch", "get", "copy", "move"}
  <2>1. r.method \in {"MKCOL", "DELETE", "PUT", "PROPPATCH", "GET", "COPY", "MOVE"}
    BY ProviderAssumption
  <2>2. x.at \in Stages(r.method) /\ x.at \in {"mkcol", "delete", "put", "proppatch", "get", "copy", "move"}
    BY <1>5, <2>1 DEF FirstCall, Stages
  <2>3. QED
    BY <2>2 DEF Opened, Asks, Ending
<1>7. Running(x, disk)
  <2>1. 0 \in 0 .. MaxParts - 1 /\ << >> \in Seq(Block)
    BY ProviderAssumption
  <2>2. QED
    BY <1>5, <1>6, <2>1 DEF Running, NoFile
<1>8. Reached(x, Shown(disk, Scope(r)))
  BY <1>5, <1>6 DEF Reached, DeleteReached, PutReached, ProppatchReached, GetReached, CopyReached, MoveReached, FirstCall, Ending
<1>9. x # IdleTask
  BY <1>1, <1>7, OpenFacts
<1>10. \A u \in Task : Busy(u) => task'[u] # IdleTask
  BY <1>1, <1>3, OpenFacts
<1>11. ASSUME NEW u \in Task, Busy(u)'
       PROVE  /\ u # t => /\ Busy(u) /\ Req(u)' = Req(u) /\ Req(u) \in Requests /\ task'[u].at = task[u].at
                          /\ task'[u].object = task[u].object
                          /\ Alone(u)' <=> Alone(u) /\ Disjoint(Req(u), r)
              /\ u = t => Req(u)' = r /\ (Alone(u)' <=> x.alone) /\ task'[u] = x
  BY <1>2, <1>3, <1>4, <1>5, <1>11 DEF Busy, Req, Alone, Running
<1>12. ASSUME Alone(t)', NEW u \in Task, u # t, Busy(u)'
       PROVE  Alone(u) /\ Disjoint(r, Req(u)) /\ Disjoint(Req(u), r)
  <2>1. x.alone /\ Busy(u) /\ Req(u) \in Requests
    BY <1>11, <1>12 DEF Alone
  <2>2. task[u].alone /\ Disjoint(r, Req(u))
    BY <1>5, <2>1
  <2>3. QED
    BY <2>1, <2>2 DEF Alone, Disjoint
<1>13. TaskOK'
  <2> SUFFICES ASSUME NEW u \in Task, Busy(u)' PROVE Running(task'[u], disk)
    BY <1>2 DEF TaskOK
  <2>1. QED
    BY <1>2, <1>3, <1>7, <1>11
<1>14. Others'
  <2> SUFFICES ASSUME NEW u \in Task, NEW v \in Task, Alone(u)', Busy(v)', v # u
               PROVE  Disjoint(Req(u)', Req(v)') /\ Disjoint(Req(v)', Req(u)')
    BY DEF Others
  <2>1. Busy(u)'
    BY DEF Alone
  <2>2. CASE u = t
    BY <1>11, <1>12, <2>1, <2>2
  <2>3. CASE v = t
    <3>1. Disjoint(Req(u), r) /\ Req(u)' = Req(u) /\ Req(v)' = r
      BY <1>11, <2>1, <2>3
    <3>2. QED
      BY <3>1 DEF Disjoint
  <2>4. CASE u # t /\ v # t
    BY <1>1, <1>11, <2>1, <2>4 DEF Others
  <2>5. QED
    BY <2>2, <2>3, <2>4
<1>15. Holding'
  <2> SUFFICES ASSUME NEW u \in Task, Alone(u)', task'[u].object # NoFile
               PROVE  Exists(disk, Own(Req(u)')) /\ disk.entry[Own(Req(u)')] = task'[u].object
    BY <1>2 DEF Holding
  <2>1. Busy(u)' /\ u # t
    BY <1>2, <1>5 DEF Alone
  <2>2. QED
    BY <1>1, <1>11, <2>1 DEF Holding
<1>16. Apart'
  <2> SUFFICES ASSUME NEW u \in Task, NEW v \in Task, Alone(u)', Busy(v)', v # u, Req(v)'.method # "GET",
                      task'[v].object # NoFile, NEW n \in Scope(Req(u)') \intersect DOMAIN disk.entry
               PROVE  disk.entry[n] # task'[v].object
    BY <1>2 DEF Apart
  <2>1. Busy(u)' /\ v # t
    BY <1>2, <1>5 DEF Alone
  <2>2. Busy(v) /\ Req(v)' = Req(v) /\ Req(v) \in Requests /\ task'[v].object = task[v].object
    BY <1>11, <2>1
  <2>3. CASE u # t
    BY <1>1, <1>11, <2>1, <2>2, <2>3 DEF Apart
  <2>4. CASE u = t
    <3>1. Req(u)' = r /\ Alone(v) /\ Disjoint(Req(v), r)
      BY <1>11, <1>12, <2>1, <2>4
    <3>2. Exists(disk, Own(Req(v))) /\ disk.entry[Own(Req(v))] = task[v].object
      BY <1>1, <2>2, <3>1 DEF Holding
    <3>3. task[v].object # Folder /\ Own(Req(v)) \in Changes(Req(v))
      <4>1. Running(task[v], disk) /\ task[v].object # NoFile /\ task[v].request = Req(v)
        BY <1>3, <2>2 DEF Req
      <4>2. task[v].object # Folder /\ Req(v).method \in {"PUT", "PROPPATCH", "GET"}
        BY <1>1, <4>1, OpenFacts
      <4>3. QED
        BY <2>2, <4>2, ChangesFacts
    <3>4. n # Own(Req(v))
      BY <3>1, <3>3 DEF Disjoint
    <3>5. QED
      BY <1>1, <2>2, <3>2, <3>3, <3>4 DEF DiskOK, OneName, Exists
  <2>5. QED
    BY <2>3, <2>4
<1>17. Standing'
  <2> SUFFICES ASSUME NEW u \in Task, NEW v \in Task, Alone(u)', Busy(v)', task'[v].at \in Asks,
                      NEW k \in 1 .. Len(Req(v)'.dst) - 1, Self(SubSeq(Req(v)'.dst, 1, k)) \in Scope(Req(u)')
               PROVE  Exists(disk, Self(SubSeq(Req(v)'.dst, 1, k)))
    BY <1>2 DEF Standing, Asks
  <2>1. Busy(u)' /\ v # t
    BY <1>2, <1>6 DEF Alone
  <2>2. Busy(v) /\ Req(v)' = Req(v) /\ Req(v) \in Requests /\ task[v].at \in Asks
    BY <1>11, <2>1
  <2>3. CASE u # t
    BY <1>1, <1>11, <2>1, <2>2, <2>3 DEF Standing, Asks
  <2>4. CASE u = t
    <3> DEFINE dst == Req(v).dst
    <3>1. Alone(v) /\ Running(task[v], disk) /\ task[v].request = Req(v)
      BY <1>3, <1>12, <2>1, <2>2, <2>4 DEF Req
    <3>2. Req(v).method = "COPY"
      <4>1. Req(v).method \in {"MKCOL", "DELETE", "PUT", "PROPPATCH", "GET", "COPY", "MOVE"}
        BY <2>2, ProviderAssumption
      <4>2. QED
        BY <2>2, <3>1, <4>1 DEF Running, Stages, Asks, Ending
    <3>3. dst \in Path /\ Self(Parent(dst)) \in Scope(Req(v)) /\ Len(dst) \in Nat \ {0}
          /\ Parent(dst) = SubSeq(dst, 1, Len(dst) - 1)
      BY <2>2, <3>2, ScopeFacts, PathFacts
    <3>4. CopyReached(Req(v), task[v].before, task[v].at, Shown(disk, Scope(Req(v))))
      BY <1>1, <3>1, <3>2 DEF Reached
    <3>5. Has(Shown(disk, Scope(Req(v))), Parent(dst))
      BY <2>2, <3>1, <3>4 DEF CopyReached, Asks, Ending
    <3>6. Exists(disk, Self(Parent(dst)))
      BY <1>1, <3>3, <3>5, ShownKind
    <3> HIDE DEF dst
    <3>7. \A j \in 0 .. Len(dst) - 2 : IsDir(disk, SubSeq(dst, 1, j))
      BY <1>1, <3>3, <3>6, FoldersUp
    <3>8. k \in 1 .. Len(dst) - 1
      BY <2>2 DEF dst
    <3>9. CASE k = Len(dst) - 1
      BY <2>2, <3>3, <3>6, <3>9 DEF dst
    <3>10. CASE k \in 0 .. Len(dst) - 2
      BY <2>2, <3>7, <3>10 DEF IsDir, dst
    <3>11. QED
      BY <3>3, <3>8, <3>9, <3>10
  <2>5. QED
    BY <2>3, <2>4
<1>18. ASSUME NEW u \in Task, Alone(u)' PROVE Reached(task'[u], Shown(disk, Scope(Req(u)')))
  <2>1. Busy(u)'
    BY <1>18 DEF Alone
  <2>2. CASE u = t
    BY <1>8, <1>11, <2>1, <2>2
  <2>3. CASE u # t
    BY <1>1, <1>3, <1>11, <1>18, <2>1, <2>3
  <2>4. QED
    BY <2>2, <2>3
<1>19. FSInv'
  BY <1>1, <1>2, <1>13, <1>14, <1>15, <1>16, <1>17, <1>18 DEF FSInv
<1>20. QED
  BY <1>2, <1>10, <1>19

-----------------------------------------------------------------------------
(* What a call makes of what is shown                                      *)

\* What a client can see under a name.
Look(d, n) == IF d.entry[n] = Folder THEN AFolder ELSE File(Data(d, n))

LEMMA ShownIs ==
    ASSUME NEW d, NEW S
    PROVE  /\ Shown(d, S) = [n \in S \intersect DOMAIN d.entry |-> Look(d, n)]
           /\ DOMAIN Shown(d, S) = S \intersect DOMAIN d.entry
           /\ \A n \in S \intersect DOMAIN d.entry : Shown(d, S)[n] = Look(d, n)
<1>1. Shown(d, S) = [n \in S \intersect DOMAIN d.entry |-> Look(d, n)]
  BY DEF Shown, Look, File, AFolder
<1>2. QED
  BY <1>1

LEMMA LookSame ==
    ASSUME NEW d, NEW new, NEW n, Same(d, new, n), n \in DOMAIN d.entry
    PROVE  Look(new, n) = Look(d, n)
BY DEF Same, Look, Data

LEMMA ShownMade ==
    ASSUME NEW new, NEW S, NEW f, f = [n \in DOMAIN f |-> f[n]], DOMAIN f = S \intersect DOMAIN new.entry,
           \A n \in DOMAIN f : f[n] = Look(new, n)
    PROVE  Shown(new, S) = f
<1>1. Shown(new, S) = [n \in S \intersect DOMAIN new.entry |-> Look(new, n)]
  BY ShownIs
<1>2. QED
  BY <1>1

LEMMA ShownWithout ==
    ASSUME NEW d, NEW new, NEW S, NEW names, DOMAIN new.entry = DOMAIN d.entry \ names,
           \A n : n \notin names => Same(d, new, n)
    PROVE  Shown(new, S) = Without(Shown(d, S), names)
<1> DEFINE was == Shown(d, S)
           f == Without(was, names)
<1>1. DOMAIN was = S \intersect DOMAIN d.entry /\ \A n \in S \intersect DOMAIN d.entry : was[n] = Look(d, n)
  BY ShownIs
<1> HIDE DEF was
<1>2. f = [n \in DOMAIN f |-> f[n]] /\ DOMAIN f = DOMAIN was \ names /\ \A n \in DOMAIN f : f[n] = was[n]
  BY DEF Without, Restrict
<1> HIDE DEF f
<1>3. DOMAIN f = S \intersect DOMAIN new.entry
  BY <1>1, <1>2
<1>4. \A n \in DOMAIN f : f[n] = Look(new, n)
  BY <1>1, <1>2, LookSame
<1>5. Shown(new, S) = f
  BY <1>2, <1>3, <1>4, ShownMade
<1>6. QED
  BY <1>5 DEF f, was

LEMMA ShownWith ==
    ASSUME NEW d, NEW new, NEW S, NEW n \in S, n \in DOMAIN new.entry, \A m : m # n => Same(d, new, m)
    PROVE  Shown(new, S) = With(Shown(d, S), n, Look(new, n))
<1> DEFINE was == Shown(d, S)
           f == With(was, n, Look(new, n))
<1>1. DOMAIN was = S \intersect DOMAIN d.entry /\ \A m \in S \intersect DOMAIN d.entry : was[m] = Look(d, m)
  BY ShownIs
<1> HIDE DEF was
<1>2. /\ f = [m \in DOMAIN f |-> f[m]] /\ DOMAIN f = DOMAIN was \union {n}
      /\ f[n] = Look(new, n) /\ \A m \in DOMAIN f : m # n => f[m] = was[m]
  BY DEF With
<1> HIDE DEF f
<1>3. DOMAIN new.entry = DOMAIN d.entry \union {n}
  BY DEF Same
<1>4. DOMAIN f = S \intersect DOMAIN new.entry
  BY <1>1, <1>2, <1>3
<1>5. \A m \in DOMAIN f : f[m] = Look(new, m)
  <2> SUFFICES ASSUME NEW m \in DOMAIN f, m # n PROVE f[m] = Look(new, m)
    BY <1>2
  <2>1. m \in S \intersect DOMAIN d.entry /\ f[m] = Look(d, m) /\ Same(d, new, m)
    BY <1>1, <1>2
  <2>2. QED
    BY <2>1, LookSame
<1>6. Shown(new, S) = f
  BY <1>2, <1>4, <1>5, ShownMade
<1>7. QED
  BY <1>6 DEF f, was

\* What is moved or copied has a name each, and is as it was.
Carries(f, files, names, src, dst) ==
    /\ f = [m \in DOMAIN f |-> f[m]]
    /\ \A n \in names \intersect DOMAIN files :
         RenamedTo(n, src, dst) \in DOMAIN f /\ f[RenamedTo(n, src, dst)] = files[n]
    /\ \A m \in DOMAIN f : \E n \in names \intersect DOMAIN files : m = RenamedTo(n, src, dst) /\ f[m] = files[n]

LEMMA ImageFacts ==
    ASSUME NEW src \in Seq(Segment), NEW dst \in Seq(Segment), NEW names,
           \A n \in names : n \in FileName /\ IsPrefix(src, n[1]), NEW files
    PROVE  Carries(Image(files, names, src, dst), files, names, src, dst)
<1> DEFINE there == names \intersect DOMAIN files
           to(n) == RenamedTo(n, src, dst)
           f == Image(files, names, src, dst)
<1>1. f = [m \in {to(n) : n \in there} |-> files[CHOOSE n \in there : to(n) = m]]
  BY DEF Image
<1>2. \A n \in there : RenamedTo(to(n), dst, src) = n
  BY RenamedFacts
<1> HIDE DEF f
<1>3. ASSUME NEW n \in there PROVE to(n) \in DOMAIN f /\ f[to(n)] = files[n]
  <2>1. \A x \in there : to(x) = to(n) => x = n
    BY <1>2
  <2>2. (CHOOSE x \in there : to(x) = to(n)) = n
    BY <2>1
  <2>3. QED
    BY <1>1, <2>2
<1>4. f = [m \in DOMAIN f |-> f[m]] /\ DOMAIN f = {to(n) : n \in there}
  BY <1>1
<1>5. \A m \in DOMAIN f : \E n \in there : m = to(n) /\ f[m] = files[n]
  BY <1>3, <1>4
<1>6. QED
  BY <1>3, <1>4, <1>5 DEF f, Carries

LEMMA UpdatedFacts ==
    ASSUME NEW f, NEW g
    PROVE  LET h == Updated(f, g)
           IN  /\ h = [x \in DOMAIN h |-> h[x]] /\ DOMAIN h = DOMAIN f \union DOMAIN g
               /\ \A x \in DOMAIN h : h[x] = IF x \in DOMAIN g THEN g[x] ELSE f[x]
BY DEF Updated

LEMMA WithoutFacts ==
    ASSUME NEW f, NEW names
    PROVE  LET h == Without(f, names)
           IN  /\ h = [x \in DOMAIN h |-> h[x]] /\ DOMAIN h = DOMAIN f \ names
               /\ \A x \in DOMAIN h : h[x] = f[x]
BY DEF Without, Restrict

\* A copy of what is shown under some names, over what is shown.
LEMMA ShownCopied ==
    ASSUME NEW d, NEW new, NEW S, NEW src \in Seq(Segment), NEW dst \in Seq(Segment), NEW names \in SUBSET S,
           \A n \in names : n \in FileName /\ IsPrefix(src, n[1]) /\ RenamedTo(n, src, dst) \in S,
           \A n \in names \intersect DOMAIN d.entry :
              /\ RenamedTo(n, src, dst) \in DOMAIN new.entry
              /\ Look(new, RenamedTo(n, src, dst)) = Look(d, n),
           \A m \in S : m \notin {RenamedTo(n, src, dst) : n \in names \intersect DOMAIN d.entry} => Same(d, new, m)
    PROVE  Shown(new, S) = Updated(Shown(d, S), Image(Shown(d, S), names, src, dst))
<1> DEFINE was == Shown(d, S)
           g == Image(was, names, src, dst)
           f == Updated(was, g)
           there == names \intersect DOMAIN was
           to(n) == RenamedTo(n, src, dst)
<1>1. DOMAIN was = S \intersect DOMAIN d.entry /\ \A n \in S \intersect DOMAIN d.entry : was[n] = Look(d, n)
  BY ShownIs
<1>2. there = names \intersect DOMAIN d.entry
  BY <1>1
<1> HIDE DEF was
<1>3. /\ DOMAIN g = {to(n) : n \in there} /\ \A n \in there : to(n) \in DOMAIN g /\ g[to(n)] = was[n]
      /\ \A m \in DOMAIN g : \E n \in there : m = to(n) /\ g[m] = was[n]
  <2>1. \A n \in names : n \in FileName /\ IsPrefix(src, n[1])
    OBVIOUS
  <2>2. Carries(g, was, names, src, dst)
    BY <2>1, ImageFacts
  <2> HIDE DEF g
  <2>3. QED
    BY ONLY <2>2 DEF Carries
<1> HIDE DEF g
<1>4. /\ f = [x \in DOMAIN f |-> f[x]] /\ DOMAIN f = DOMAIN was \union DOMAIN g
      /\ \A x \in DOMAIN f : f[x] = IF x \in DOMAIN g THEN g[x] ELSE was[x]
  BY UpdatedFacts
<1> HIDE DEF f
<1>5. \A m \in S : m \notin DOMAIN g => Same(d, new, m)
  BY <1>2, <1>3
<1>6. \A m \in DOMAIN g : m \in S /\ m \in DOMAIN new.entry /\ g[m] = Look(new, m)
  BY <1>1, <1>2, <1>3
<1>7. DOMAIN f = S \intersect DOMAIN new.entry
  BY <1>1, <1>4, <1>5, <1>6 DEF Same
<1>8. \A m \in DOMAIN f : f[m] = Look(new, m)
  BY <1>1, <1>4, <1>5, <1>6, LookSame
<1>9. Shown(new, S) = f
  BY ONLY <1>4, <1>7, <1>8, ShownMade, ZenonT(30)
<1>10. QED
  BY <1>9 DEF f, g, was

\* What is shown under some names, gone elsewhere.
LEMMA ShownRenamed ==
    ASSUME NEW d, NEW new, NEW S, NEW src \in Seq(Segment), NEW dst \in Seq(Segment), NEW names \in SUBSET S,
           \A n \in names : n \in FileName /\ IsPrefix(src, n[1]) /\ RenamedTo(n, src, dst) \in S,
           \A n \in names \intersect DOMAIN d.entry :
              /\ RenamedTo(n, src, dst) \in DOMAIN new.entry
              /\ Look(new, RenamedTo(n, src, dst)) = Look(d, n),
           \A n \in names : n \notin DOMAIN new.entry,
           \A m : m \notin names /\ m \notin {RenamedTo(n, src, dst) : n \in names \intersect DOMAIN d.entry}
                  => Same(d, new, m)
    PROVE  Shown(new, S) = Updated(Without(Shown(d, S), names), Image(Shown(d, S), names, src, dst))
<1> DEFINE was == Shown(d, S)
           rest == Without(was, names)
           g == Image(was, names, src, dst)
           f == Updated(rest, g)
           there == names \intersect DOMAIN was
           to(n) == RenamedTo(n, src, dst)
<1>1. DOMAIN was = S \intersect DOMAIN d.entry /\ \A n \in S \intersect DOMAIN d.entry : was[n] = Look(d, n)
  BY ShownIs
<1>2. there = names \intersect DOMAIN d.entry
  BY <1>1
<1> HIDE DEF was
<1>3. /\ DOMAIN g = {to(n) : n \in there} /\ \A n \in there : to(n) \in DOMAIN g /\ g[to(n)] = was[n]
      /\ \A m \in DOMAIN g : \E n \in there : m = to(n) /\ g[m] = was[n]
  <2>1. \A n \in names : n \in FileName /\ IsPrefix(src, n[1])
    OBVIOUS
  <2>2. Carries(g, was, names, src, dst)
    BY <2>1, ImageFacts
  <2> HIDE DEF g
  <2>3. QED
    BY ONLY <2>2 DEF Carries
<1> HIDE DEF g
<1>4. DOMAIN rest = DOMAIN was \ names /\ \A x \in DOMAIN rest : rest[x] = was[x]
  BY WithoutFacts
<1> HIDE DEF rest
<1>5. /\ f = [x \in DOMAIN f |-> f[x]] /\ DOMAIN f = DOMAIN rest \union DOMAIN g
      /\ \A x \in DOMAIN f : f[x] = IF x \in DOMAIN g THEN g[x] ELSE rest[x]
  BY UpdatedFacts, ZenonT(30)
<1> HIDE DEF f
<1>6. \A m : m \notin names /\ m \notin DOMAIN g => Same(d, new, m)
  BY <1>2, <1>3
<1>7. \A m \in DOMAIN g : m \in S /\ m \in DOMAIN new.entry /\ g[m] = Look(new, m)
  BY <1>1, <1>2, <1>3
<1>8. DOMAIN f = S \intersect DOMAIN new.entry
  BY <1>1, <1>4, <1>5, <1>6, <1>7 DEF Same
<1>9. \A m \in DOMAIN f : f[m] = Look(new, m)
  BY <1>1, <1>4, <1>5, <1>6, <1>7, LookSame
<1>10. Shown(new, S) = f
  BY ONLY <1>5, <1>8, <1>9, ShownMade, ZenonT(30)
<1>11. QED
  BY <1>10 DEF f, g, rest, was

-----------------------------------------------------------------------------
(* Calls                                                                   *)

\* The end of a request.
Ended(t, new) ==
    /\ Alone(t) /\ ~Clash(Req(t), task[t].before) =>
         Outcome(reply'.status, Shown(new, Scope(Req(t)))) \in Outcomes(Req(t), task[t].before)
    /\ reply'.status \in 400 .. 499 /\ ~At(t, "copy_dir") => ~reply'.wrote
    /\ Alone(t) /\ Req(t).method = "GET" /\ task[t].object # NoFile =>
         /\ reply'.sent = task[t].before[Self(Req(t).path)].data
         /\ reply'.length = Len(reply'.sent)

\* A call does what the invariant needs.
Handled(t) ==
    \E x, new : Step(t, x, new) /\ Writes(t, new) /\ (Goes(t, x, new) \/ (x = IdleTask /\ Ended(t, new)))

\* The task has gone to its next call, and nothing else is new about it.
Gone(t, x, at) ==
    /\ x.at = at /\ x.request = task[t].request /\ x.parts = task[t].parts /\ x.props = task[t].props
    /\ x.seen = task[t].seen /\ x.length = task[t].length /\ x.sent = task[t].sent
    /\ x.before = task[t].before

LEMMA BusyFacts ==
    ASSUME FSInv, NEW t \in Task, Busy(t)
    PROVE  /\ DiskOK(disk) /\ Running(task[t], disk) /\ Req(t) \in Requests
           /\ task[t].request = Req(t) /\ task[t].at \in Stages(Req(t).method)
           /\ (task[t].object = NoFile <=> task[t].at \notin Opened)
           /\ task[t].alone <=> Alone(t)
           /\ Alone(t) => Reached(task[t], Shown(disk, Scope(Req(t))))
<1>1. DiskOK(disk) /\ Running(task[t], disk)
  BY DEF FSInv, TaskOK
<1>2. Alone(t) => Reached(task[t], Shown(disk, Scope(Req(t))))
  BY DEF FSInv
<1>3. QED
  BY <1>1, <1>2 DEF Running, Req, Alone

LEMMA WritesNothing ==
    ASSUME FSInv, NEW t \in Task
    PROVE  Writes(t, disk)
BY DEF FSInv, Writes, Same

\* It is enough that a call leaves alone what the request may not change.
LEMMA WritesOwn ==
    ASSUME FSInv, NEW t \in Task, Busy(t), NEW new, DiskOK(new), DOMAIN disk.data \subseteq DOMAIN new.data,
           \A n : n \notin Changes(Req(t)) => Same(disk, new, n),
           \A n \in DOMAIN new.entry :
             \/ new.entry[n] = Folder
             \/ new.entry[n] \notin DOMAIN disk.data
             \/ n \in DOMAIN disk.entry /\ new.entry[n] = disk.entry[n]
             \/ \E m \in Scope(Req(t)) \intersect DOMAIN disk.entry : new.entry[n] = disk.entry[m]
    PROVE  Writes(t, new)
<1>1. \A n \in DOMAIN disk.entry : n \notin Changes(Req(t)) => n \in DOMAIN new.entry
  BY DEF Same
<1>2. \A u \in Task : Alone(u) /\ u # t => \A n \in Scope(Req(u)) : n \notin Changes(Req(t))
  BY DEF FSInv, Others, Disjoint
<1>3. QED
  BY <1>1, <1>2 DEF Writes

\* A task goes to a call without a file open.
LEMMA GotoHandled ==
    ASSUME FSInv, NEW t \in Task, Busy(t), NEW at, NEW new, Goto(t, at, new), Writes(t, new),
           at \in Stages(Req(t).method), at \notin Opened, task[t].at \notin Opened,
           at \in Asking => new = disk /\ task[t].at \in Asking,
           at \in Asks => new = disk /\ (task[t].at \in Asks \/ Exists(disk, Self(Parent(Req(t).dst)))),
           \A x : Alone(t) /\ Gone(t, x, at) => Reached(x, Shown(new, Scope(Req(t))))
    PROVE  Handled(t)
<1>1. /\ Running(task[t], disk) /\ task[t].request = Req(t) /\ task[t].object = NoFile
      /\ (task[t].alone <=> Alone(t))
  BY BusyFacts
<1>2. task[t].parts = 0 \/ task[t].parts \in 0 .. MaxParts - 1
  BY <1>1 DEF Running
<1> DEFINE y == [task[t] EXCEPT !.at = at]
           w == Wrote(t, new)
           x == [y EXCEPT !.wrote = w]
<1>3. Step(t, x, new)
  BY DEF Goto, GoOn
<1>4. w \in BOOLEAN /\ (at \in Asking => ~w)
  BY <1>1 DEF Wrote, Running
<1>5. DOMAIN task[t] = Field /\ task[t] = [f \in Field |-> task[t][f]]
  BY <1>1 DEF Running
<1> HIDE DEF w
<1>6. /\ DOMAIN x = Field /\ x = [f \in Field |-> x[f]] /\ x.at = at /\ x.wrote = w
      /\ \A f \in Field : f # "at" /\ f # "wrote" => x[f] = task[t][f]
  BY <1>5 DEF Field
<1> HIDE DEF x
<1>7. Gone(t, x, at) /\ x.object = NoFile /\ x.alone = task[t].alone
  BY <1>1, <1>6 DEF Gone, Field
<1>8. Running(x, new)
  BY <1>1, <1>4, <1>6, <1>7 DEF Running, Gone
<1>9. Goes(t, x, new)
  <2>1. x.alone => Reached(x, Shown(new, Scope(Req(t))))
    BY <1>1, <1>7
  <2>2. QED
    BY <1>1, <1>6, <1>7, <1>8, <2>1 DEF Goes, Gone
<1>10. Step(t, x, new) /\ Writes(t, new) /\ Goes(t, x, new)
  BY <1>3, <1>9
<1>11. QED
  BY <1>10 DEF Handled

\* A request ends without a file open.
LEMMA AnswerHandled ==
    ASSUME FSInv, NEW t \in Task, Busy(t), NEW status, NEW new, Answer(t, status, new), Writes(t, new),
           task[t].at \notin Opened \/ Req(t).method # "GET",
           status \in 400 .. 499 => task[t].at = "copy_dir" \/ (new = disk /\ task[t].at \in Asking),
           Alone(t) /\ ~Clash(Req(t), task[t].before) =>
             Outcome(status, Shown(new, Scope(Req(t)))) \in Outcomes(Req(t), task[t].before)
    PROVE  Handled(t)
<1>1. /\ Running(task[t], disk) /\ (task[t].object = NoFile <=> task[t].at \notin Opened)
  BY BusyFacts
<1>2. Step(t, IdleTask, new) /\ reply'.status = status /\ reply'.wrote = Wrote(t, new)
  BY DEF Answer
<1>3. status \in 400 .. 499 /\ ~At(t, "copy_dir") => ~Wrote(t, new)
  BY <1>1 DEF At, Wrote, Running
<1>4. Ended(t, new)
  BY <1>1, <1>2, <1>3 DEF Ended
<1>5. QED
  BY <1>2, <1>4 DEF Handled

\* An answer that changes nothing.
LEMMA RefuseHandled ==
    ASSUME FSInv, NEW t \in Task, Busy(t), NEW status, Answer(t, status, disk),
           task[t].at \notin Opened, status \in 400 .. 499 => task[t].at \in Asking,
           Alone(t) /\ ~Clash(Req(t), task[t].before) =>
             Outcome(status, Shown(disk, Scope(Req(t)))) \in Outcomes(Req(t), task[t].before)
    PROVE  Handled(t)
BY AnswerHandled, WritesNothing

\* What is promised, by method.
LEMMA MkcolOutcomes ==
    ASSUME NEW r, r.method = "MKCOL", NEW was
    PROVE  /\ Has(was, r.path) => Outcome(405, was) \in Outcomes(r, was)
           /\ ~Has(was, r.path) /\ ~Has(was, Parent(r.path)) => Outcome(409, was) \in Outcomes(r, was)
           /\ ~Has(was, r.path) /\ ~Fold(was, Parent(r.path)) => Outcome(500, was) \in Outcomes(r, was)
           /\ ~Has(was, r.path) /\ Fold(was, Parent(r.path)) =>
                Outcome(201, With(was, Self(r.path), AFolder)) \in Outcomes(r, was)
BY ZenonT(30) DEF Outcomes, Has, Fold, AFolder

LEMMA DeleteOutcomes ==
    ASSUME NEW r, r.method = "DELETE", NEW was
    PROVE  /\ Has(was, r.path) => Outcome(204, Without(was, Resource(r.path))) \in Outcomes(r, was)
           /\ ~Has(was, r.path) => Outcome(404, was) \in Outcomes(r, was)
BY DEF Outcomes, Has

LEMMA PutOutcomes ==
    ASSUME NEW r, r.method = "PUT", NEW was
    PROVE  /\ Fold(was, r.path) => Outcome(405, was) \in Outcomes(r, was)
           /\ ~Fold(was, r.path) /\ ~Fold(was, Parent(r.path)) => Outcome(409, was) \in Outcomes(r, was)
           /\ ~Fold(was, r.path) /\ Fold(was, Parent(r.path)) =>
                /\ Outcome(403, was) \in Outcomes(r, was)
                /\ \A k \in 0 .. MaxParts :
                   Outcome(201, With(was, Self(r.path), File([i \in 1 .. k |-> r.body]))) \in Outcomes(r, was)
BY ZenonT(30) DEF Outcomes, Has, Fold, File

LEMMA ProppatchOutcomes ==
    ASSUME NEW r, r.method = "PROPPATCH", NEW was
    PROVE  /\ Has(was, r.path) =>
                Outcome(207, With(was, PropertiesPath(r.path), File([FirstProperties(r, was) EXCEPT ![r.key] = r.value])))
                  \in Outcomes(r, was)
           /\ ~Has(was, r.path) => Outcome(404, was) \in Outcomes(r, was)
BY DEF Outcomes, Has, FirstProperties, File

LEMMA GetOutcomes ==
    ASSUME NEW r, r.method = "GET", NEW was
    PROVE  /\ Has(was, r.path) => Outcome(200, was) \in Outcomes(r, was)
           /\ ~Has(was, r.path) => Outcome(404, was) \in Outcomes(r, was)
BY DEF Outcomes, Has

\* What COPY and MOVE make of what there was.
MovedTo(r, was) ==
    Updated(Without(was, Tree(r.dst) \union Resource(r.path)), Image(was, Resource(r.path), r.path, r.dst))
CopiedTo(r, was) == Updated(was, Image(was, Taken(r) \union {PropertiesPath(r.path)}, r.path, r.dst))

LEMMA TransferOutcomes ==
    ASSUME NEW r, r.method \in {"COPY", "MOVE"}, NEW was
    PROVE  /\ ~Has(was, r.path) => Outcome(403, was) \in Outcomes(r, was)
           /\ Has(was, r.path) /\ ~Has(was, Parent(r.dst)) => Outcome(409, was) \in Outcomes(r, was)
           /\ Has(was, r.path) /\ Has(was, Parent(r.dst)) =>
                /\ Has(was, r.dst) /\ ~r.overwrite => Outcome(412, was) \in Outcomes(r, was)
                /\ (Has(was, r.dst) => r.overwrite) =>
                     /\ ~Fold(was, Parent(r.dst)) => Outcome(500, was) \in Outcomes(r, was)
                     /\ Fold(was, Parent(r.dst)) =>
                          /\ r.method = "COPY" => Outcome(Success(r), CopiedTo(r, was)) \in Outcomes(r, was)
                          /\ r.method = "MOVE" => Outcome(Success(r), MovedTo(r, was)) \in Outcomes(r, was)
BY DEF Outcomes, Has, Fold, CopiedTo, MovedTo, Taken

\* What the disk shows to a request.
LEMMA ShownToRequest ==
    ASSUME FSInv, NEW t \in Task, Busy(t), NEW p, Self(p) \in Scope(Req(t))
    PROVE  LET now == Shown(disk, Scope(Req(t)))
           IN  /\ Has(now, p) <=> Exists(disk, Self(p))
               /\ Fold(now, p) <=> IsDir(disk, p)
               /\ IsFile(disk, p) <=> Exists(disk, Self(p)) /\ ~IsDir(disk, p)
BY BusyFacts, ShownKind

\* What is below a file, and what is not.
LEMMA BelowFileFacts ==
    ASSUME DiskOK(disk), NEW p \in Path
    PROVE  /\ BelowFile(p) => ~IsDir(disk, Parent(p))
           /\ ~BelowFile(p) /\ Exists(disk, Self(Parent(p))) => IsDir(disk, Parent(p))
           /\ (IsFile(disk, p) \/ BelowFile(p)) <=> (\E k \in 1 .. Len(p) : IsFile(disk, SubSeq(p, 1, k)))
<1>1. p \in Seq(Segment) /\ Len(p) \in Nat \ {0} /\ Parent(p) = SubSeq(p, 1, Len(p) - 1)
  BY PathFacts
<1>2. \A q : ~(IsFile(disk, q) /\ IsDir(disk, q))
  BY DEF IsFile, IsDir
<1>3. BelowFile(p) => ~IsDir(disk, Parent(p))
  <2>1. \A k \in 1 .. Len(p) - 1 : k \in 0 .. Len(p) - 1
    BY <1>1
  <2>2. IsDir(disk, Parent(p)) => \A k \in 1 .. Len(p) - 1 : IsDir(disk, SubSeq(p, 1, k))
    BY <2>1, FoldersUp
  <2>3. QED
    BY <1>2, <2>2 DEF BelowFile
<1>4. ASSUME ~BelowFile(p), Exists(disk, Self(Parent(p))) PROVE IsDir(disk, Parent(p))
  <2>1. CASE Len(p) = 1
    <3>1. Parent(p) = << >>
      BY <1>1, <2>1
    <3>2. QED
      BY <3>1 DEF DiskOK, Kinds, IsDir, Exists, Root
  <2>2. CASE Len(p) # 1
    <3>1. Len(p) - 1 \in 1 .. Len(p) - 1
      <4>1. \A n \in Nat : n # 0 /\ n # 1 => n - 1 \in 1 .. n - 1
        OBVIOUS
      <4>2. QED
        BY <1>1, <2>2, <4>1
    <3>2. ~IsFile(disk, Parent(p))
      BY <1>1, <1>4, <3>1 DEF BelowFile
    <3>3. QED
      BY <1>4, <3>2 DEF IsFile, IsDir
  <2>3. QED
    BY <2>1, <2>2
<1>5. (IsFile(disk, p) \/ BelowFile(p)) <=> (\E k \in 1 .. Len(p) : IsFile(disk, SubSeq(p, 1, k)))
  <2>1. SubSeq(p, 1, Len(p)) = p /\ Len(p) \in 1 .. Len(p)
    BY <1>1
  <2>2. \A k : k \in 1 .. Len(p) <=> k \in 1 .. Len(p) - 1 \/ k = Len(p)
    BY <1>1
  <2>3. QED
    BY <2>1, <2>2, Zenon DEF BelowFile
<1>6. QED
  BY <1>3, <1>4, <1>5

LEMMA MkcolHandled ==
    ASSUME FSInv, NEW t \in Task, Busy(t), Req(t).method = "MKCOL", Mkcol(t)
    PROVE  Handled(t)
<1> DEFINE r == Req(t)
           p == r.path
           was == task[t].before
           S == Scope(r)
           now == Shown(disk, S)
           new == Mkdir(disk, p)
<1>1. DiskOK(disk) /\ r \in Requests /\ At(t, "mkcol") /\ task[t].at = "mkcol"
  BY BusyFacts DEF Mkcol, At
<1>2. /\ p \in Path /\ Self(p) \in S /\ Self(p) \in Changes(r) /\ Self(Parent(p)) \in S
  BY <1>1, ScopeFacts, ChangesFacts
<1>3. Alone(t) => now = was
  BY BusyFacts DEF Reached
<1>4. /\ Has(now, p) <=> Exists(disk, Self(p))
      /\ Has(now, Parent(p)) <=> Exists(disk, Self(Parent(p)))
      /\ Fold(now, Parent(p)) <=> IsDir(disk, Parent(p))
      /\ IsFile(disk, Parent(p)) <=> Exists(disk, Self(Parent(p))) /\ ~IsDir(disk, Parent(p))
  BY <1>2, ShownToRequest
<1>5. /\ Has(was, p) => Outcome(405, was) \in Outcomes(r, was)
      /\ ~Has(was, p) /\ ~Has(was, Parent(p)) => Outcome(409, was) \in Outcomes(r, was)
      /\ ~Has(was, p) /\ ~Fold(was, Parent(p)) => Outcome(500, was) \in Outcomes(r, was)
      /\ ~Has(was, p) /\ Fold(was, Parent(p)) => Outcome(201, With(was, Self(p), AFolder)) \in Outcomes(r, was)
  BY MkcolOutcomes
<1>6. \/ Exists(disk, Self(p)) /\ Answer(t, 405, disk)
      \/ ~Exists(disk, Self(p)) /\ ~Exists(disk, Self(Parent(p))) /\ Answer(t, 409, disk)
      \/ ~Exists(disk, Self(p)) /\ ~IsDir(disk, Parent(p)) /\ Answer(t, 500, disk)
      \/ ~Exists(disk, Self(p)) /\ IsDir(disk, Parent(p)) /\ Answer(t, 201, new)
  <2>1. /\ BelowFile(p) => ~IsDir(disk, Parent(p))
        /\ ~BelowFile(p) /\ Exists(disk, Self(Parent(p))) => IsDir(disk, Parent(p))
    BY <1>1, <1>2, BelowFileFacts
  <2>2. Exists(disk, Self(p)) => ~BelowFile(p) /\ Exists(disk, Self(Parent(p)))
    <3>1. Self(p) \in FileName /\ Self(p)[1] = p
      BY <1>2 DEF Self, FileName
    <3>2. Exists(disk, Self(p)) => IsDir(disk, Parent(p))
      BY <1>1, <1>2, <3>1, ParentIsThere
    <3>3. QED
      BY <2>1, <3>2 DEF IsDir
  <2> DEFINE some == Exists(disk, Self(p))
             home == Exists(disk, Self(Parent(p)))
             below == BelowFile(p)
  <2>7. (CASE some -> Answer(t, 405, disk)
          [] below -> Answer(t, 500, disk)
          [] ~home /\ ~below -> Answer(t, 409, disk)
          [] OTHER -> Answer(t, 201, new))
    BY DEF Mkcol, Raise
  <2>8. some => ~below /\ home
    BY <2>2
  <2> HIDE DEF some, home, below, new
  <2>3. CASE some
    <3>1. Answer(t, 405, disk)
      BY <2>3, <2>7, <2>8
    <3>2. QED
      BY <2>3, <3>1 DEF some
  <2>4. CASE below
    <3>1. Answer(t, 500, disk)
      BY <2>4, <2>7, <2>8
    <3>2. QED
      BY <2>1, <2>4, <2>8, <3>1 DEF some, below
  <2>5. CASE ~some /\ ~below
    <3>1. IF home THEN Answer(t, 201, new) ELSE Answer(t, 409, disk)
      BY <2>5, <2>7
    <3>2. QED
      BY <2>1, <2>5, <3>1 DEF some, home, below
  <2>6. QED
    BY <2>3, <2>4, <2>5
<1> HIDE DEF r, p, was, S, now, new
<1>7. task[t].at \in Asking /\ task[t].at \notin Opened
  BY <1>1 DEF Asking, Opened
<1>8. ASSUME NEW status, Answer(t, status, disk), Alone(t) => Outcome(status, was) \in Outcomes(r, was) PROVE Handled(t)
  <2>1. Alone(t) => Outcome(status, now) \in Outcomes(r, was)
    BY <1>3, <1>8
  <2>2. QED
    BY <1>7, <1>8, <2>1, RefuseHandled DEF r, was, S, now
<1>9. CASE Exists(disk, Self(p)) /\ Answer(t, 405, disk)
  BY <1>3, <1>4, <1>5, <1>8, <1>9
<1>10. CASE ~Exists(disk, Self(p)) /\ ~Exists(disk, Self(Parent(p))) /\ Answer(t, 409, disk)
  BY <1>3, <1>4, <1>5, <1>8, <1>10
<1>11. CASE ~Exists(disk, Self(p)) /\ ~IsDir(disk, Parent(p)) /\ Answer(t, 500, disk)
  BY <1>3, <1>4, <1>5, <1>8, <1>11
<1>12. CASE ~Exists(disk, Self(p)) /\ IsDir(disk, Parent(p)) /\ Answer(t, 201, new)
  <2>1. DiskOK(new) /\ new.entry = With(disk.entry, Self(p), Folder) /\ new.data = disk.data /\ \A n : n # Self(p) => Same(disk, new, n)
    BY <1>1, <1>2, <1>12, MkdirOK DEF new
  <2>2. Writes(t, new)
    <3>1. \A n \in DOMAIN new.entry : n # Self(p) => n \in DOMAIN disk.entry /\ new.entry[n] = disk.entry[n]
      BY <2>1 DEF Same
    <3>2. new.entry[Self(p)] = Folder /\ Self(p) \in DOMAIN new.entry
      BY <2>1 DEF With
    <3>3. \A n : n \notin Changes(r) => Same(disk, new, n)
      BY <1>2, <2>1
    <3>4. QED
      BY <2>1, <3>1, <3>2, <3>3, WritesOwn DEF r
  <2>3. Shown(new, S) = With(now, Self(p), AFolder)
    <3>1. /\ Self(p) \in DOMAIN new.entry /\ Self(p) \in S
          /\ \A m : m # Self(p) => Same(disk, new, m)
      BY <1>2, <2>1 DEF With
    <3>2. Shown(new, S) = With(Shown(disk, S), Self(p), Look(new, Self(p)))
      BY <3>1, ShownWith
    <3>3. Look(new, Self(p)) = AFolder
      BY <2>1 DEF With, Look
    <3>4. QED
      BY <3>2, <3>3 DEF now
  <2>4. Alone(t) => Outcome(201, Shown(new, S)) \in Outcomes(r, was)
    BY <1>3, <1>4, <1>5, <1>12, <2>3
  <2>5. QED
    BY <1>7, <1>12, <2>2, <2>4, AnswerHandled DEF r, was, S
<1>13. QED
  BY <1>6, <1>9, <1>10, <1>11, <1>12

\* What is left of a tree and its property file, one after the other.
LEMMA WithoutBoth ==
    ASSUME NEW f, NEW a, NEW b
    PROVE  Without(Without(f, a), b) = Without(f, a \union b)
<1> DEFINE g == Without(f, a)
           h == Without(g, b)
           k == Without(f, a \union b)
<1>1. DOMAIN g = DOMAIN f \ a /\ \A x \in DOMAIN g : g[x] = f[x]
  BY WithoutFacts
<1> HIDE DEF g
<1>2. h = [x \in DOMAIN h |-> h[x]] /\ DOMAIN h = DOMAIN g \ b /\ \A x \in DOMAIN h : h[x] = g[x]
  BY WithoutFacts
<1>3. k = [x \in DOMAIN k |-> k[x]] /\ DOMAIN k = DOMAIN f \ (a \union b) /\ \A x \in DOMAIN k : k[x] = f[x]
  BY WithoutFacts
<1> HIDE DEF h, k
<1>4. DOMAIN h = DOMAIN k /\ \A x \in DOMAIN h : h[x] = k[x]
  BY <1>1, <1>2, <1>3
<1>5. h = k
  BY <1>2, <1>3, <1>4
<1>6. QED
  BY <1>5 DEF g, h, k

\* Whatever is removed is removed below as well, and nothing else.
LEMMA UnlinkHandled ==
    ASSUME FSInv, NEW t \in Task, Busy(t), NEW names \in SUBSET Changes(Req(t)), Self(Root) \notin names,
           \A n \in DOMAIN disk.entry : \A k \in 0 .. Len(n[1]) - 1 : Self(SubSeq(n[1], 1, k)) \in names => n \in names
    PROVE  /\ Writes(t, Unlink(disk, names))
           /\ Shown(Unlink(disk, names), Scope(Req(t))) = Without(Shown(disk, Scope(Req(t))), names)
<1> DEFINE new == Unlink(disk, names)
           S == Scope(Req(t))
<1>1. DiskOK(disk) /\ Req(t) \in Requests
  BY BusyFacts
<1>2. /\ DiskOK(new) /\ DOMAIN new.entry = DOMAIN disk.entry \ names /\ new.data = disk.data
      /\ \A n : n \notin names => Same(disk, new, n)
  BY <1>1, UnlinkOK
<1> HIDE DEF new
<1>3. Shown(new, S) = Without(Shown(disk, S), names)
  BY <1>2, ShownWithout
<1>4. \A n \in DOMAIN new.entry : n \in DOMAIN disk.entry /\ new.entry[n] = disk.entry[n]
  BY <1>2 DEF Same
<1>5. \A n : n \notin Changes(Req(t)) => Same(disk, new, n)
  BY <1>2
<1>6. Writes(t, new)
  BY <1>2, <1>4, <1>5, WritesOwn
<1>7. QED
  BY <1>3, <1>6 DEF new

LEMMA DeleteHandled ==
    ASSUME FSInv, NEW t \in Task, Busy(t), Req(t).method = "DELETE", Delete(t)
    PROVE  Handled(t)
<1> DEFINE r == Req(t)
           p == r.path
           was == task[t].before
           S == Scope(r)
           now == Shown(disk, S)
<1>1. /\ DiskOK(disk) /\ r \in Requests /\ task[t].request = r
      /\ p \in Path /\ Self(p) \in S /\ Changes(r) = Resource(p) /\ S = Scope(Req(t))
  BY BusyFacts, ScopeFacts, ChangesFacts
<1>2. Alone(t) => DeleteReached(r, was, task[t].at, now)
  BY BusyFacts DEF Reached
<1>3. /\ Has(now, p) <=> Exists(disk, Self(p))
      /\ Fold(now, p) <=> IsDir(disk, p)
      /\ IsFile(disk, p) <=> Exists(disk, Self(p)) /\ ~IsDir(disk, p)
  BY <1>1, ShownToRequest
<1>4. /\ Has(was, p) => Outcome(204, Without(was, Resource(p))) \in Outcomes(r, was)
      /\ ~Has(was, p) => Outcome(404, was) \in Outcomes(r, was)
  BY DeleteOutcomes
<1>5. {"delete", "delete_kind", "rmtree", "remove", "delete_props"} = Stages(r.method)
  BY DEF Stages
<1>6. ASSUME NEW at, NEW f, Alone(t) => DeleteReached(r, was, at, f)
      PROVE  \A x : Alone(t) /\ Gone(t, x, at) => Reached(x, f)
  BY <1>1, <1>6 DEF Gone, Reached
<1>8. /\ Writes(t, disk)
      /\ Writes(t, Unlink(disk, Tree(p))) /\ Shown(Unlink(disk, Tree(p)), S) = Without(now, Tree(p))
      /\ Writes(t, Unlink(disk, {PropertiesPath(p)}))
      /\ Shown(Unlink(disk, {PropertiesPath(p)}), S) = Without(now, {PropertiesPath(p)})
      /\ ~IsDir(disk, p) => /\ Writes(t, Unlink(disk, {Self(p)}))
                            /\ Shown(Unlink(disk, {Self(p)}), S) = Without(now, {Self(p)})
  <2>1. Writes(t, disk)
    BY WritesNothing
  <2>2. Tree(p) \subseteq Resource(p) /\ {PropertiesPath(p)} \subseteq Resource(p) /\ {Self(p)} \subseteq Resource(p)
    BY DEF Resource, Tree
  <2>3. Writes(t, Unlink(disk, Tree(p))) /\ Shown(Unlink(disk, Tree(p)), S) = Without(now, Tree(p))
    BY <1>1, <2>2, TreeIsClosed, UnlinkHandled
  <2>4. /\ Writes(t, Unlink(disk, {PropertiesPath(p)}))
        /\ Shown(Unlink(disk, {PropertiesPath(p)}), S) = Without(now, {PropertiesPath(p)})
    <3>1. PropertiesPath(p) # Self(p)
      BY DEF PropertiesPath, Self
    <3>2. QED
      BY <1>1, <2>2, <3>1, FileIsClosed, UnlinkHandled
  <2>5. ASSUME ~IsDir(disk, p)
        PROVE  Writes(t, Unlink(disk, {Self(p)})) /\ Shown(Unlink(disk, {Self(p)}), S) = Without(now, {Self(p)})
    BY <1>1, <2>2, <2>5, FileIsClosed, UnlinkHandled
  <2>6. QED
    BY <2>1, <2>3, <2>4, <2>5
<1>9. /\ "delete_kind" \in Asking /\ "delete" \in Asking
      /\ {"rmtree", "remove", "delete_props"} \intersect Asking = {}
      /\ {"delete", "delete_kind", "rmtree", "remove", "delete_props"} \intersect (Opened \union Asks) = {}
  BY DEF Asking, Opened, Asks
<1> HIDE DEF r, p, was, S, now
<1>10. CASE At(t, "delete")
  <2>1. task[t].at = "delete"
    BY <1>10 DEF At
  <2>2. IF Exists(disk, Self(p)) THEN Goto(t, "delete_kind", disk) ELSE Answer(t, 404, disk)
    BY <2>1 DEF Delete, DeleteProperties, Ask, At, r, p
  <2>3. CASE Exists(disk, Self(p))
    <3>1. \A x : Alone(t) /\ Gone(t, x, "delete_kind") => Reached(x, now)
      BY <1>2, <1>3, <1>6, <2>1, <2>3 DEF DeleteReached, p
    <3>2. QED
      BY <1>1, <1>5, <1>8, <1>9, <2>1, <2>2, <2>3, <3>1, GotoHandled DEF r, now
  <2>4. CASE ~Exists(disk, Self(p))
    <3>1. Alone(t) => Outcome(404, now) \in Outcomes(r, was)
      BY <1>2, <1>3, <1>4, <2>1, <2>4 DEF DeleteReached, p
    <3>2. QED
      BY <1>1, <1>9, <2>1, <2>2, <2>4, <3>1, RefuseHandled DEF r, was, now
  <2>5. QED
    BY <2>3, <2>4
<1>11. CASE At(t, "delete_kind")
  <2>1. task[t].at = "delete_kind"
    BY <1>11 DEF At
  <2>2. \/ IsDir(disk, p) /\ Goto(t, "rmtree", disk)
        \/ ~IsDir(disk, p) /\ Goto(t, "remove", disk)
    BY <2>1 DEF Delete, DeleteProperties, Ask, At, r, p
  <2>3. ASSUME NEW at \in {"rmtree", "remove"}, Goto(t, at, disk), IsDir(disk, p) <=> at = "rmtree" PROVE Handled(t)
    <3>1. \A x : Alone(t) /\ Gone(t, x, at) => Reached(x, now)
      BY <1>2, <1>3, <1>6, <2>1, <2>3 DEF DeleteReached, p
    <3>2. QED
      BY <1>1, <1>5, <1>8, <1>9, <2>1, <2>3, <3>1, GotoHandled DEF r, now
  <2>4. QED
    BY <2>2, <2>3
<1>12. CASE At(t, "rmtree")
  <2>1. task[t].at = "rmtree"
    BY <1>12 DEF At
  <2>2. IF IsDir(disk, p) THEN Goto(t, "delete_props", Unlink(disk, Tree(p))) ELSE Answer(t, 500, disk)
    BY <2>1 DEF Delete, DeleteProperties, Ask, At, Raise, r, p
  <2>3. CASE IsDir(disk, p)
    <3>1. \A x : Alone(t) /\ Gone(t, x, "delete_props") => Reached(x, Shown(Unlink(disk, Tree(p)), S))
      BY <1>2, <1>6, <1>8, <2>1 DEF DeleteReached, p
    <3>2. QED
      BY <1>1, <1>5, <1>8, <1>9, <2>1, <2>2, <2>3, <3>1, GotoHandled DEF r, now
  <2>4. CASE ~IsDir(disk, p)
    <3>1. ~Alone(t)
      BY <1>2, <1>3, <2>1, <2>4 DEF DeleteReached, p
    <3>2. QED
      BY <1>1, <1>9, <2>1, <2>2, <2>4, <3>1, RefuseHandled
  <2>5. QED
    BY <2>3, <2>4
<1>13. CASE At(t, "remove")
  <2>1. task[t].at = "remove"
    BY <1>13 DEF At
  <2>2. IF IsFile(disk, p) THEN Goto(t, "delete_props", Unlink(disk, {Self(p)})) ELSE Answer(t, 500, disk)
    BY <2>1 DEF Delete, DeleteProperties, Ask, At, Raise, r, p
  <2>3. CASE IsFile(disk, p)
    <3>1. ~IsDir(disk, p)
      BY <1>3, <2>3
    <3>2. Without(now, {Self(p)}) = Without(now, Tree(p))
      <4>1. Inside(p) \intersect DOMAIN disk.entry = {}
        BY <1>1, <3>1, NothingInside
      <4>2. DOMAIN now = S \intersect DOMAIN disk.entry
        BY ShownIs DEF now
      <4>3. DOMAIN now \ Tree(p) = DOMAIN now \ {Self(p)}
        BY <4>1, <4>2 DEF Tree
      <4>4. QED
        BY <4>3 DEF Without, Restrict
    <3>3. \A x : Alone(t) /\ Gone(t, x, "delete_props") => Reached(x, Shown(Unlink(disk, {Self(p)}), S))
      BY <1>2, <1>6, <1>8, <2>1, <3>1, <3>2 DEF DeleteReached, p
    <3>4. QED
      BY <1>1, <1>5, <1>8, <1>9, <2>1, <2>2, <2>3, <3>1, <3>3, GotoHandled DEF r, now
  <2>4. CASE ~IsFile(disk, p)
    <3>1. ~Alone(t)
      BY <1>2, <1>3, <2>1, <2>4 DEF DeleteReached, p
    <3>2. QED
      BY <1>1, <1>9, <2>1, <2>2, <2>4, <3>1, RefuseHandled
  <2>5. QED
    BY <2>3, <2>4
<1>14. CASE At(t, "delete_props")
  <2>1. task[t].at = "delete_props"
    BY <1>14 DEF At
  <2>2. Answer(t, 204, Unlink(disk, {PropertiesPath(p)}))
    BY <2>1 DEF Delete, DeleteProperties, Ask, At, r, p
  <2>3. Alone(t) => Outcome(204, Shown(Unlink(disk, {PropertiesPath(p)}), S)) \in Outcomes(r, was)
    <3>1. Resource(p) = Tree(p) \union {PropertiesPath(p)}
      BY DEF Resource
    <3>2. Alone(t) => Has(was, p) /\ now = Without(was, Tree(p))
      BY <1>2, <2>1 DEF DeleteReached, p
    <3>3. QED
      BY <1>4, <1>8, <3>1, <3>2, WithoutBoth
  <2>4. QED
    BY <1>1, <1>8, <1>9, <2>1, <2>2, <2>3, AnswerHandled DEF r, was
<1>15. At(t, "delete") \/ At(t, "delete_kind") \/ At(t, "rmtree") \/ At(t, "remove") \/ At(t, "delete_props")
  BY DEF Delete, DeleteProperties, Ask
<1>16. QED
  BY <1>10, <1>11, <1>12, <1>13, <1>14, <1>15

\* A task goes on, with a file open or not.
LEMMA GoOnHandled ==
    ASSUME FSInv, NEW t \in Task, Busy(t), NEW y, NEW new, GoOn(t, y, new), Writes(t, new),
           DOMAIN y = Field, y = [f \in Field |-> y[f]], y.request = Req(t), y.alone = task[t].alone,
           y.at \in Stages(Req(t).method), y.at \notin Asks,
           y.at \in Asking => new = disk /\ task[t].at \in Asking,
           y.parts \in 0 .. MaxParts - 1, y.sent \in Seq(Block),
           y.at \in Opened <=> y.object # NoFile,
           y.object # NoFile => /\ y.object \in DOMAIN new.data /\ y.object[1][2] = Own(Req(t))[2]
                                /\ \/ y.object = task[t].object
                                   \/ Exists(new, Own(Req(t))) /\ new.entry[Own(Req(t))] = y.object,
           Alone(t) /\ y.object # NoFile => Exists(new, Own(Req(t))) /\ new.entry[Own(Req(t))] = y.object,
           Alone(t) => Reached(y, Shown(new, Scope(Req(t))))
    PROVE  Handled(t)
<1>1. Running(task[t], disk) /\ (task[t].alone <=> Alone(t)) /\ task[t].alone \in BOOLEAN /\ Req(t) \in Requests
  BY BusyFacts DEF Running
<1> DEFINE w == Wrote(t, new)
           x == [y EXCEPT !.wrote = w]
<1>2. Step(t, x, new)
  BY DEF GoOn
<1>3. w \in BOOLEAN /\ (y.at \in Asking => ~w)
  BY <1>1 DEF Wrote, Running
<1> HIDE DEF w
<1>4. /\ DOMAIN x = Field /\ x = [f \in Field |-> x[f]] /\ x.wrote = w
      /\ \A f \in Field : f # "wrote" => x[f] = y[f]
  BY DEF Field
<1> HIDE DEF x
<1>5. /\ x.at = y.at /\ x.object = y.object /\ x.request = y.request /\ x.parts = y.parts /\ x.props = y.props
      /\ x.seen = y.seen /\ x.length = y.length /\ x.sent = y.sent /\ x.before = y.before /\ x.alone = y.alone
  BY <1>4 DEF Field
<1>6. Running(x, new)
  BY <1>1, <1>3, <1>4, <1>5 DEF Running
<1>7. Alone(t) => Reached(x, Shown(new, Scope(Req(t))))
  BY <1>5 DEF Reached
<1>8. Goes(t, x, new)
  BY <1>1, <1>5, <1>6, <1>7 DEF Goes
<1>9. QED
  BY <1>2, <1>8 DEF Handled

LEMMA WithTwice ==
    ASSUME NEW f, NEW x, NEW a, NEW b
    PROVE  With(With(f, x, a), x, b) = With(f, x, b)
<1> DEFINE g == With(f, x, a)
<1>1. DOMAIN g = DOMAIN f \union {x} /\ \A z \in DOMAIN g : g[z] = IF z = x THEN a ELSE f[z]
  BY DEF With
<1> HIDE DEF g
<1>2. DOMAIN g \union {x} = DOMAIN f \union {x}
  BY <1>1
<1>3. With(g, x, b) = With(f, x, b)
  BY <1>1, <1>2 DEF With
<1>4. QED
  BY <1>3 DEF g

\* A write into an open file reaches none of the others' files, and the request's own
\* file if nobody touches it.
LEMMA OverwriteHandled ==
    ASSUME FSInv, NEW t \in Task, Busy(t), task[t].at \in Opened, Req(t).method \in {"PUT", "PROPPATCH"},
           NEW v, Own(Req(t))[2] = "self" => v \in Seq(Block)
    PROVE  LET new == Overwrite(disk, task[t].object, v)
           IN  /\ Writes(t, new) /\ new.entry = disk.entry /\ task[t].object \in DOMAIN new.data
               /\ Alone(t) => /\ Exists(new, Own(Req(t))) /\ new.entry[Own(Req(t))] = task[t].object
                              /\ Shown(new, Scope(Req(t))) = With(Shown(disk, Scope(Req(t))), Own(Req(t)), File(v))
<1> DEFINE o == task[t].object
           r == Req(t)
           n == Own(r)
           S == Scope(r)
           new == Overwrite(disk, o, v)
<1>1. /\ DiskOK(disk) /\ r \in Requests /\ o # NoFile /\ o \in DOMAIN disk.data /\ o[1][2] = n[2] /\ o # Folder
  BY BusyFacts, OpenFacts DEF Running
<1>2. /\ DiskOK(new) /\ new.entry = disk.entry /\ DOMAIN new.data = DOMAIN disk.data /\ new.data[o] = v
      /\ \A m : (m \in DOMAIN disk.entry => disk.entry[m] # o) => Same(disk, new, m)
  BY <1>1, OverwriteOK
<1>3. n \in S
  BY <1>1, ScopeFacts
<1> HIDE DEF new
<1>4. \A u \in Task : Alone(u) /\ u # t => \A m \in Scope(Req(u)) : Same(disk, new, m)
  <2>1. \A u \in Task : Alone(u) /\ u # t => \A m \in Scope(Req(u)) \intersect DOMAIN disk.entry : disk.entry[m] # o
    BY <1>1 DEF FSInv, Apart
  <2>2. QED
    BY <1>2, <2>1
<1>5. Writes(t, new)
  BY <1>2, <1>4 DEF Writes
<1>6. ASSUME Alone(t)
      PROVE  /\ Exists(new, n) /\ new.entry[n] = o
             /\ Shown(new, S) = With(Shown(disk, S), n, File(v))
  <2>1. n \in DOMAIN disk.entry /\ disk.entry[n] = o
    BY <1>1, <1>6 DEF FSInv, Holding, Exists
  <2>2. \A m : m # n => Same(disk, new, m)
    BY <1>1, <1>2, <2>1 DEF DiskOK, OneName
  <2>3. Look(new, n) = File(v)
    BY <1>1, <1>2, <2>1 DEF Look, Data
  <2>4. Shown(new, S) = With(Shown(disk, S), n, Look(new, n))
    BY <1>2, <1>3, <2>1, <2>2, ShownWith
  <2>5. QED
    BY <1>2, <2>1, <2>3, <2>4 DEF Exists
<1>7. QED
  BY <1>1, <1>2, <1>5, <1>6 DEF new

\* A body that comes in without others writing is its parts, one after the other.
LEMMA PartWritten ==
    ASSUME NEW k \in Nat, NEW body
    PROVE  WriteAt([i \in 1 .. k |-> body], k + 1, body) = [i \in 1 .. k + 1 |-> body]
<1> DEFINE s == [i \in 1 .. k |-> body]
<1>1. s \in Seq({body}) /\ Len(s) = k
  OBVIOUS
<1>2. \A i \in 1 .. k : s[i] = body
  OBVIOUS
<1> HIDE DEF s
<1>3. WriteAt(s, k + 1, body) = [i \in 1 .. k + 1 |-> IF i = k + 1 THEN body ELSE IF i <= Len(s) THEN s[i] ELSE "zeros"]
  BY <1>1 DEF WriteAt
<1>4. QED
  BY <1>1, <1>2, <1>3 DEF s

LEMMA PutHandled ==
    ASSUME FSInv, NEW t \in Task, Busy(t), Req(t).method = "PUT", Put(t)
    PROVE  Handled(t)
<1> DEFINE r == Req(t)
           p == r.path
           was == task[t].before
           S == Scope(r)
           now == Shown(disk, S)
           parts == task[t].parts
           o == task[t].object
<1>1. /\ DiskOK(disk) /\ r \in Requests /\ task[t].request = r /\ Running(task[t], disk) /\ (task[t].alone <=> Alone(t))
      /\ p \in Path /\ Self(p) \in S /\ Self(p) \in Changes(r) /\ Self(Parent(p)) \in S /\ Own(r) = Self(p)
  BY BusyFacts, ScopeFacts, ChangesFacts DEF Own
<1>2. Alone(t) => PutReached(r, was, task[t].at, parts, now)
  BY BusyFacts DEF Reached
<1>3. /\ Has(now, p) <=> Exists(disk, Self(p))
      /\ Fold(now, p) <=> IsDir(disk, p)
      /\ IsFile(disk, p) <=> Exists(disk, Self(p)) /\ ~IsDir(disk, p)
      /\ Fold(now, Parent(p)) <=> IsDir(disk, Parent(p))
  BY <1>1, ShownToRequest
<1>4. /\ Fold(was, p) => Outcome(405, was) \in Outcomes(r, was)
      /\ ~Fold(was, p) /\ ~Fold(was, Parent(p)) => Outcome(409, was) \in Outcomes(r, was)
      /\ ~Fold(was, p) /\ Fold(was, Parent(p)) => Outcome(403, was) \in Outcomes(r, was)
      /\ ~Fold(was, p) /\ Fold(was, Parent(p)) =>
           \A k \in 0 .. MaxParts : Outcome(201, With(was, Self(p), File([i \in 1 .. k |-> r.body]))) \in Outcomes(r, was)
  BY PutOutcomes
<1>5. {"put", "put_kind", "put_parent", "put_open", "receive"} = Stages(r.method)
  BY DEF Stages
<1>6. ASSUME NEW at, NEW f, Alone(t) => PutReached(r, was, at, parts, f)
      PROVE  \A x : Alone(t) /\ Gone(t, x, at) => Reached(x, f)
  BY <1>1, <1>6 DEF Gone, Reached
<1>7. /\ {"put", "put_kind", "put_parent", "put_open"} \subseteq Asking
      /\ "receive" \notin Asking
      /\ {"put", "put_kind", "put_parent", "put_open"} \intersect (Opened \union Asks) = {}
      /\ "receive" \in Opened /\ "receive" \notin Asks
  BY DEF Asking, Opened, Asks
<1>8. Writes(t, disk)
  BY WritesNothing
<1>9. /\ parts \in 0 .. MaxParts - 1 /\ MaxParts \in Nat \ {0} /\ task[t].sent \in Seq(Block)
      /\ DOMAIN task[t] = Field /\ task[t] = [f \in Field |-> task[t][f]]
  BY <1>1, ProviderAssumption DEF Running
<1>10. task[t].at # "receive" => task[t].at \notin Opened
  BY BusyFacts, <1>5, <1>7
<1> HIDE DEF r, p, was, S, now, parts, o
<1>11. ASSUME NEW at \in {"put_kind", "put_parent", "put_open"}, Goto(t, at, disk), task[t].at # "receive",
              at \in Asking => task[t].at \in Asking, Alone(t) => PutReached(r, was, at, parts, now)
       PROVE  Handled(t)
  <2>1. \A x : Alone(t) /\ Gone(t, x, at) => Reached(x, now)
    BY <1>6, <1>11
  <2>2. QED
    BY <1>5, <1>7, <1>8, <1>10, <1>11, <2>1, GotoHandled DEF r, S, now
<1>12. CASE At(t, "put")
  <2>1. task[t].at = "put"
    BY <1>12 DEF At
  <2>2. IF Exists(disk, Self(p)) THEN Goto(t, "put_kind", disk) ELSE Goto(t, "put_parent", disk)
    BY <2>1 DEF Put, Ask, At, r, p
  <2>3. Alone(t) => /\ Exists(disk, Self(p)) => PutReached(r, was, "put_kind", parts, now)
                    /\ ~Exists(disk, Self(p)) => PutReached(r, was, "put_parent", parts, now)
    BY <1>2, <1>3, <2>1 DEF PutReached, p, Fold
  <2>4. QED
    BY <1>7, <1>11, <2>1, <2>2, <2>3
<1>13. CASE At(t, "put_kind")
  <2>1. task[t].at = "put_kind"
    BY <1>13 DEF At
  <2>2. IF IsDir(disk, p) THEN Answer(t, 405, disk) ELSE Goto(t, "put_parent", disk)
    BY <2>1 DEF Put, Ask, At, r, p
  <2>3. CASE IsDir(disk, p)
    <3>1. Alone(t) => Outcome(405, now) \in Outcomes(r, was)
      BY <1>2, <1>3, <1>4, <2>1, <2>3 DEF PutReached
    <3>2. QED
      BY <1>7, <2>1, <2>2, <2>3, <3>1, RefuseHandled DEF r, was, S, now
  <2>4. CASE ~IsDir(disk, p)
    <3>1. Alone(t) => PutReached(r, was, "put_parent", parts, now)
      BY <1>2, <1>3, <2>1, <2>4 DEF PutReached, p
    <3>2. QED
      BY <1>7, <1>11, <2>1, <2>2, <2>4, <3>1
  <2>5. QED
    BY <2>3, <2>4
<1>14. CASE At(t, "put_parent")
  <2>1. task[t].at = "put_parent"
    BY <1>14 DEF At
  <2>2. IF IsDir(disk, Parent(p)) THEN Goto(t, "put_open", disk) ELSE Answer(t, 409, disk)
    BY <2>1 DEF Put, Ask, At, r, p
  <2>3. CASE IsDir(disk, Parent(p))
    <3>1. Alone(t) => PutReached(r, was, "put_open", parts, now)
      BY <1>2, <1>3, <2>1, <2>3 DEF PutReached, p
    <3>2. QED
      BY <1>7, <1>11, <2>1, <2>2, <2>3, <3>1
  <2>4. CASE ~IsDir(disk, Parent(p))
    <3>1. Alone(t) => Outcome(409, now) \in Outcomes(r, was)
      BY <1>2, <1>3, <1>4, <2>1, <2>4 DEF PutReached, p
    <3>2. QED
      BY <1>7, <2>1, <2>2, <2>4, <3>1, RefuseHandled DEF r, was, S, now
  <2>5. QED
    BY <2>3, <2>4
<1>15. CASE At(t, "put_open")
  <2> DEFINE new == Truncate(disk, Self(p))
             open == new.entry[Self(p)]
             y == [task[t] EXCEPT !.at = "receive", !.object = open]
  <2>1. task[t].at = "put_open"
    BY <1>15 DEF At
  <2>2. \/ IF IsDir(disk, Parent(p)) /\ ~IsDir(disk, p) THEN GoOn(t, y, new) ELSE Answer(t, 500, disk)
        \/ Answer(t, 403, disk)
    BY <2>1 DEF Put, Ask, At, r, p, Open, Creatable, Raise
  <2>3. CASE IsDir(disk, Parent(p)) /\ ~IsDir(disk, p) /\ GoOn(t, y, new)
    <3>1. Self(p) \in FileName /\ Self(p)[1] = p /\ Self(p)[2] = "self" /\ (Exists(disk, Self(p)) => disk.entry[Self(p)] # Folder)
      BY <1>1, <2>3 DEF FileName, Self, IsDir
    <3>2. /\ DiskOK(new)
          /\ DOMAIN new.entry = DOMAIN disk.entry \union {Self(p)} /\ DOMAIN disk.data \subseteq DOMAIN new.data
          /\ open = IF Exists(disk, Self(p)) THEN disk.entry[Self(p)] ELSE Fresh(disk, Self(p))
          /\ open # Folder /\ open \in DOMAIN new.data /\ open[1][2] = "self"
          /\ ~Exists(disk, Self(p)) => open \notin DOMAIN disk.data
          /\ Data(new, Self(p)) = << >>
          /\ \A m : m # Self(p) => Same(disk, new, m)
      BY <1>1, <2>3, <3>1, TruncateOK
    <3>3. GoOn(t, y, new)
      BY <2>3
    <3>4. /\ DOMAIN y = Field /\ y = [f \in Field |-> y[f]] /\ y.at = "receive" /\ y.object = open
          /\ \A f \in Field : f # "at" /\ f # "object" => y[f] = task[t][f]
      BY <1>9 DEF Field
    <3> HIDE DEF new, open, y
    <3>5. Writes(t, new)
      <4>1. \A n : n \notin Changes(r) => Same(disk, new, n)
        BY <1>1, <3>2
      <4>2. \A n \in DOMAIN new.entry : \/ new.entry[n] \notin DOMAIN disk.data
                                        \/ n \in DOMAIN disk.entry /\ new.entry[n] = disk.entry[n]
        BY <3>2 DEF open, Same, Exists
      <4>3. QED
        BY <3>2, <4>1, <4>2, WritesOwn DEF r
    <3>6. Shown(new, S) = With(now, Self(p), File(<< >>))
      <4>1. Look(new, Self(p)) = File(<< >>)
        BY <3>2 DEF Look, open
      <4>2. Shown(new, S) = With(Shown(disk, S), Self(p), Look(new, Self(p)))
        BY <1>1, <3>2, ShownWith
      <4>3. QED
        BY <4>1, <4>2 DEF now
    <3>7. Alone(t) => PutReached(r, was, "receive", parts, Shown(new, S))
      <4>1. << >> = [i \in 1 .. 0 |-> r.body]
        OBVIOUS
      <4>2. Alone(t) => parts = 0 /\ now = was /\ ~Fold(was, p) /\ Fold(was, Parent(p))
        BY <1>2, <2>1 DEF PutReached, p
      <4>3. Alone(t) => Shown(new, S) = With(was, Self(p), File([i \in 1 .. parts |-> r.body]))
        BY <3>6, <4>1, <4>2
      <4>4. QED
        BY <4>2, <4>3 DEF PutReached, p
    <3>8. /\ y.request = r /\ y.alone = task[t].alone /\ y.parts = parts /\ y.sent = task[t].sent /\ y.before = was
      BY <1>1, <3>4 DEF Field, parts, was
    <3>9. Alone(t) => Reached(y, Shown(new, S))
      BY <1>1, <3>4, <3>7, <3>8 DEF Reached, r
    <3>10. Exists(new, Self(p)) /\ new.entry[Self(p)] = open /\ open # NoFile
      BY <3>2 DEF Exists, open, NoFile, Folder
    <3>11. y.at \in Stages(r.method) /\ y.at \notin Asks /\ y.at \notin Asking /\ y.at \in Opened
      BY <1>5, <1>7, <3>4
    <3>12. y.object \in DOMAIN new.data /\ y.object[1][2] = Own(r)[2] /\ y.object # NoFile
           /\ Exists(new, Own(r)) /\ new.entry[Own(r)] = y.object
      BY <1>1, <3>1, <3>2, <3>4, <3>10
    <3>13. y.parts \in 0 .. MaxParts - 1 /\ y.sent \in Seq(Block)
      BY <1>9, <3>8
    <3>14. QED
      BY <3>3, <3>4, <3>5, <3>8, <3>9, <3>11, <3>12, <3>13, GoOnHandled DEF r, S
  <2>4. CASE ~(IsDir(disk, Parent(p)) /\ ~IsDir(disk, p)) /\ Answer(t, 500, disk)
    <3>1. ~Alone(t)
      BY <1>2, <1>3, <2>1, <2>4 DEF PutReached, p
    <3>2. QED
      BY <1>7, <2>1, <2>4, <3>1, RefuseHandled
  <2>5. CASE Answer(t, 403, disk)
    <3>1. Alone(t) => Outcome(403, now) \in Outcomes(r, was)
      BY <1>2, <1>4, <2>1 DEF PutReached, p
    <3>2. QED
      BY <1>7, <2>1, <2>5, <3>1, RefuseHandled DEF r, was, S, now
  <2> HIDE DEF new, open, y
  <2>6. QED
    BY <2>2, <2>3, <2>4, <2>5
<1>16. CASE At(t, "receive")
  <2> DEFINE v == WriteAt(disk.data[o], parts + 1, r.body)
             new == Overwrite(disk, o, v)
             y == [task[t] EXCEPT !.parts = @ + 1]
  <2>1. task[t].at = "receive"
    BY <1>16 DEF At
  <2>2. \/ parts + 1 < MaxParts /\ GoOn(t, y, new)
        \/ parts + 1 = MaxParts /\ Answer(t, 201, new)
        \/ Answer(t, 201, disk)
    BY <2>1 DEF Put, Ask, At, Received, r, parts, o
  <2>3. o # NoFile /\ o \in DOMAIN disk.data /\ o[1][2] = "self" /\ disk.data[o] \in Seq(Block)
    <3>1. o # NoFile /\ o \in DOMAIN disk.data /\ o[1][2] = "self"
      BY <1>1, <1>7, <2>1 DEF Running, o, Self
    <3>2. QED
      BY <1>1, <3>1 DEF DiskOK, Kinds
  <2>4. v \in Seq(Block)
    <3>1. r.body \in Block /\ "zeros" \in Block
      BY <1>1 DEF Block, r
    <3>2. QED
      BY <1>9, <2>3, <3>1, SMTT(30) DEF WriteAt
  <2>5. /\ Writes(t, new) /\ new.entry = disk.entry /\ o \in DOMAIN new.data
        /\ Alone(t) => /\ Exists(new, Self(p)) /\ new.entry[Self(p)] = o
                       /\ Shown(new, S) = With(now, Self(p), File(v))
    BY <1>1, <1>7, <2>1, <2>4, OverwriteHandled DEF r, S, now, o
  <2>6. Alone(t) => /\ ~Fold(was, p) /\ Fold(was, Parent(p))
                    /\ now = With(was, Self(p), File([i \in 1 .. parts |-> r.body]))
    BY <1>2, <2>1 DEF PutReached, p
  <2>7. Alone(t) => Shown(new, S) = With(was, Self(p), File([i \in 1 .. parts + 1 |-> r.body]))
    <3>1. SUFFICES ASSUME Alone(t) PROVE Shown(new, S) = With(was, Self(p), File([i \in 1 .. parts + 1 |-> r.body]))
      OBVIOUS
    <3>2. Self(p) \in DOMAIN disk.entry /\ disk.entry[Self(p)] = o
      BY <1>1, <2>3, <3>1 DEF FSInv, Holding, Exists, r, o
    <3>3. now[Self(p)] = Look(disk, Self(p))
      <4>1. \A n \in S \intersect DOMAIN disk.entry : now[n] = Look(disk, n)
        BY ShownIs DEF now
      <4>2. QED
        BY <1>1, <3>2, <4>1
    <3>4. Look(disk, Self(p)) = File(disk.data[o])
      BY <1>1, <2>3, <3>2 DEF Look, Data, NoFile, Folder
    <3>5. now[Self(p)] = File([i \in 1 .. parts |-> r.body])
      BY <2>6, <3>1 DEF With
    <3>6. disk.data[o] = [i \in 1 .. parts |-> r.body]
      <4>1. \A a : File(a).data = a
        BY DEF File
      <4>2. File(disk.data[o]).data = File([i \in 1 .. parts |-> r.body]).data
        BY <3>3, <3>4, <3>5
      <4>3. QED
        BY <4>1, <4>2
    <3>7. v = [i \in 1 .. parts + 1 |-> r.body]
      <4>1. parts \in Nat
        BY <1>9
      <4>2. WriteAt([i \in 1 .. parts |-> r.body], parts + 1, r.body) = [i \in 1 .. parts + 1 |-> r.body]
        BY <4>1, PartWritten
      <4>3. QED
        BY <3>6, <4>2
    <3>8. QED
      BY <2>5, <2>6, <3>1, <3>7, WithTwice
  <2>8. CASE parts + 1 < MaxParts /\ GoOn(t, y, new)
    <3>1. /\ DOMAIN y = Field /\ y = [f \in Field |-> y[f]] /\ y.parts = parts + 1
          /\ \A f \in Field : f # "parts" => y[f] = task[t][f]
      BY <1>9 DEF Field, parts
    <3> HIDE DEF y, new, v
    <3>2. y.request = r /\ y.alone = task[t].alone /\ y.at = "receive" /\ y.object = o /\ y.sent = task[t].sent /\ y.before = was
      BY <1>1, <2>1, <3>1 DEF Field, was, o
    <3>3. y.parts \in 0 .. MaxParts - 1
      BY <1>9, <2>8, <3>1
    <3>4. Alone(t) => PutReached(r, was, "receive", y.parts, Shown(new, S))
      BY <2>6, <2>7, <3>1 DEF PutReached, p
    <3>5. Alone(t) => Reached(y, Shown(new, S))
      BY <1>1, <3>2, <3>4 DEF Reached, r
    <3>6. y.at \in Stages(r.method) /\ y.at \notin Asks /\ y.at \notin Asking /\ y.at \in Opened
      BY <1>5, <1>7, <3>2
    <3>7. o[1][2] = Own(r)[2]
      BY <1>1, <2>3 DEF Self
    <3>8. QED
      BY <1>1, <1>9, <2>3, <2>5, <2>8, <3>1, <3>2, <3>3, <3>5, <3>6, <3>7, GoOnHandled DEF r, S, o
  <2>9. ASSUME NEW k \in 0 .. MaxParts, NEW e, Answer(t, 201, e), Writes(t, e),
               Alone(t) => Shown(e, S) = With(was, Self(p), File([i \in 1 .. k |-> r.body]))
        PROVE  Handled(t)
    <3>1. Alone(t) => Outcome(201, Shown(e, S)) \in Outcomes(r, was)
      BY <1>4, <2>6, <2>9
    <3>2. 201 \notin 400 .. 499 /\ Req(t).method # "GET"
      OBVIOUS
    <3>3. QED
      BY ONLY FSInv, t \in Task, Busy(t), <2>9, <3>1, <3>2, AnswerHandled DEF r, was, S
  <2>10. parts \in 0 .. MaxParts /\ parts + 1 \in 0 .. MaxParts
    BY <1>9
  <2> HIDE DEF new, y
  <2>11. CASE Answer(t, 201, disk)
    BY <1>8, <2>6, <2>9, <2>10, <2>11 DEF now
  <2>12. CASE parts + 1 = MaxParts /\ Answer(t, 201, new)
    BY <2>5, <2>7, <2>9, <2>10, <2>12
  <2>13. QED
    BY <2>2, <2>8, <2>11, <2>12
<1>17. At(t, "put") \/ At(t, "put_kind") \/ At(t, "put_parent") \/ At(t, "put_open") \/ At(t, "receive")
  BY DEF Put, Ask
<1>18. QED
  BY <1>12, <1>13, <1>14, <1>15, <1>16, <1>17

LEMMA ProppatchHandled ==
    ASSUME FSInv, NEW t \in Task, Busy(t), Req(t).method = "PROPPATCH", Proppatch(t)
    PROVE  Handled(t)
<1> DEFINE r == Req(t)
           p == r.path
           file == PropertiesPath(p)
           was == task[t].before
           first == FirstProperties(r, was)
           S == Scope(r)
           now == Shown(disk, S)
           props == task[t].props
           o == task[t].object
<1>1. /\ DiskOK(disk) /\ r \in Requests /\ task[t].request = r /\ Running(task[t], disk) /\ (task[t].alone <=> Alone(t))
      /\ p \in Path /\ Self(p) \in S /\ file \in Changes(r) /\ file \in S /\ Own(r) = file /\ file \in FileName
      /\ file[1] = p /\ file[2] = "props" /\ Self(p)[1] = p /\ Self(p) \in FileName
  <2>1. /\ DiskOK(disk) /\ r \in Requests /\ task[t].request = r /\ Running(task[t], disk) /\ (task[t].alone <=> Alone(t))
    BY BusyFacts
  <2>2. /\ p \in Path /\ Self(p) \in S /\ file \in Changes(r) /\ file \in S /\ Own(r) = file
    BY <2>1, ScopeFacts, ChangesFacts DEF Own
  <2>3. file \in FileName /\ file[1] = p /\ file[2] = "props" /\ Self(p)[1] = p /\ Self(p) \in FileName
    BY <2>2 DEF PropertiesPath, FileName, Self
  <2>4. QED
    BY <2>1, <2>2, <2>3
<1>2. Alone(t) => ProppatchReached(r, was, task[t].at, props, now)
  BY BusyFacts DEF Reached
<1>3. Has(now, p) <=> Exists(disk, Self(p))
  BY <1>1, ShownToRequest
<1>4. /\ Has(was, p) => Outcome(207, With(was, file, File([first EXCEPT ![r.key] = r.value]))) \in Outcomes(r, was)
      /\ ~Has(was, p) => Outcome(404, was) \in Outcomes(r, was)
  BY ProppatchOutcomes
<1>5. {"proppatch", "touch", "read_props", "write_props"} = Stages(r.method)
  BY DEF Stages
<1>6. ASSUME NEW at, NEW f, Alone(t) => ProppatchReached(r, was, at, props, f)
      PROVE  \A x : Alone(t) /\ Gone(t, x, at) => Reached(x, f)
  BY <1>1, <1>6 DEF Gone, Reached
<1>7. /\ "proppatch" \in Asking /\ {"touch", "read_props", "write_props"} \intersect Asking = {}
      /\ {"proppatch", "touch", "read_props"} \intersect (Opened \union Asks) = {}
      /\ "write_props" \in Opened /\ "write_props" \notin Asks
  BY DEF Asking, Opened, Asks
<1>8. Writes(t, disk)
  BY WritesNothing
<1>9. /\ task[t].parts \in 0 .. MaxParts - 1 /\ task[t].sent \in Seq(Block)
      /\ DOMAIN task[t] = Field /\ task[t] = [f \in Field |-> task[t][f]]
  BY <1>1 DEF Running
<1>10. Exists(disk, file) => /\ disk.entry[file] # Folder /\ disk.entry[file] \in DOMAIN disk.data
                             /\ disk.entry[file][1][2] = "props" /\ now[file] = File(Data(disk, file)) /\ file \in DOMAIN now
  <2>1. SUFFICES ASSUME Exists(disk, file)
                 PROVE  /\ disk.entry[file] # Folder /\ disk.entry[file] \in DOMAIN disk.data
                        /\ disk.entry[file][1][2] = "props" /\ now[file] = File(Data(disk, file)) /\ file \in DOMAIN now
    OBVIOUS
  <2>2. disk.entry[file] # Folder /\ disk.entry[file] \in DOMAIN disk.data /\ disk.entry[file][1][2] = "props"
    BY <1>1, <2>1 DEF DiskOK, Kinds, Exists
  <2>3. DOMAIN now = S \intersect DOMAIN disk.entry /\ \A n \in S \intersect DOMAIN disk.entry : now[n] = Look(disk, n)
    BY ShownIs
  <2>4. QED
    BY <1>1, <2>1, <2>2, <2>3 DEF Look, Exists
<1>11. \A a : File(a).data = a
  BY DEF File
<1>12. Exists(disk, file) <=> file \in DOMAIN now
  <2>1. DOMAIN now = S \intersect DOMAIN disk.entry
    BY ShownIs
  <2>2. QED
    BY <1>1, <2>1 DEF Exists
<1> HIDE DEF r, p, was, S, now, props, o, file, first
<1>13. CASE At(t, "proppatch")
  <2>1. task[t].at = "proppatch"
    BY <1>13 DEF At
  <2>2. IF Exists(disk, Self(p)) THEN Goto(t, "touch", disk) ELSE Answer(t, 404, disk)
    BY <2>1 DEF Proppatch, Ask, At, r, p
  <2>3. CASE Exists(disk, Self(p))
    <3>1. \A x : Alone(t) /\ Gone(t, x, "touch") => Reached(x, now)
      BY <1>2, <1>3, <1>6, <2>1, <2>3 DEF ProppatchReached, p
    <3>2. QED
      BY <1>5, <1>7, <1>8, <2>1, <2>2, <2>3, <3>1, GotoHandled DEF r, S, now
  <2>4. CASE ~Exists(disk, Self(p))
    <3>1. Alone(t) => Outcome(404, now) \in Outcomes(r, was)
      BY <1>2, <1>3, <1>4, <2>1, <2>4 DEF ProppatchReached
    <3>2. QED
      BY <1>7, <2>1, <2>2, <2>4, <3>1, RefuseHandled DEF r, was, S, now
  <2>5. QED
    BY <2>3, <2>4
<1>14. CASE At(t, "touch")
  <2> DEFINE new == Touch(disk, file)
  <2>1. task[t].at = "touch"
    BY <1>14 DEF At
  <2>2. IF Exists(disk, file) \/ IsDir(disk, Parent(p)) THEN Goto(t, "read_props", new) ELSE Answer(t, 500, disk)
    BY <2>1 DEF Proppatch, Ask, At, Creatable, Raise, r, p, file
  <2>3. CASE Exists(disk, file) \/ IsDir(disk, Parent(p))
    <3>1. /\ DiskOK(new)
          /\ DOMAIN new.entry = DOMAIN disk.entry \union {file} /\ DOMAIN disk.data \subseteq DOMAIN new.data
          /\ new.entry[file] # Folder
          /\ ~Exists(disk, file) => new.entry[file] \notin DOMAIN disk.data
          /\ Data(new, file) = IF Exists(disk, file) THEN Data(disk, file) ELSE NoProperties
          /\ \A m : m # file \/ Exists(disk, file) => Same(disk, new, m)
      BY <1>1, <2>3, TouchOK DEF file
    <3> HIDE DEF new
    <3>2. Writes(t, new)
      <4>1. \A n : n \notin Changes(r) => Same(disk, new, n)
        BY <1>1, <3>1
      <4>2. \A n \in DOMAIN new.entry : \/ new.entry[n] \notin DOMAIN disk.data
                                        \/ n \in DOMAIN disk.entry /\ new.entry[n] = disk.entry[n]
        BY <3>1 DEF Same, Exists
      <4>3. QED
        BY <3>1, <4>1, <4>2, WritesOwn DEF r
    <3>3. Alone(t) => Has(was, p) /\ Shown(new, S) = With(was, file, File(first))
      <4>1. SUFFICES ASSUME Alone(t) PROVE Has(was, p) /\ Shown(new, S) = With(was, file, File(first))
        OBVIOUS
      <4>2. now = was /\ Has(was, p)
        BY <1>2, <2>1, <4>1 DEF ProppatchReached, p
      <4>3. Shown(new, S) = With(Shown(disk, S), file, Look(new, file))
        <5>1. file \in DOMAIN new.entry /\ \A m : m # file => Same(disk, new, m)
          BY <3>1
        <5>2. QED
          BY <1>1, <5>1, ShownWith
      <4>4. Look(new, file) = File(Data(new, file))
        BY <3>1 DEF Look
      <4>5. Data(new, file) = first
        BY <1>10, <1>11, <1>12, <3>1, <4>2 DEF first, FirstProperties, file, p
      <4>6. QED
        BY <4>2, <4>3, <4>4, <4>5 DEF now
    <3>4. Alone(t) => ProppatchReached(r, was, "read_props", props, Shown(new, S))
      BY <3>3 DEF ProppatchReached, file, p, first
    <3>5. \A x : Alone(t) /\ Gone(t, x, "read_props") => Reached(x, Shown(new, S))
      BY <1>6, <3>4
    <3>6. QED
      BY <1>5, <1>7, <2>1, <2>2, <2>3, <3>2, <3>5, GotoHandled DEF r, S
  <2>4. CASE ~(Exists(disk, file) \/ IsDir(disk, Parent(p)))
    <3>1. ~Alone(t)
      <4>1. Exists(disk, Self(p)) => IsDir(disk, Parent(p))
        BY <1>1, ParentIsThere
      <4>2. QED
        BY <1>2, <1>3, <2>1, <2>4, <4>1 DEF ProppatchReached, p
    <3>2. QED
      BY <1>7, <2>1, <2>2, <2>4, <3>1, RefuseHandled
  <2>5. QED
    BY <2>3, <2>4
<1>15. CASE At(t, "read_props")
  <2> DEFINE patched == Patched(file, r)
             y == [task[t] EXCEPT !.at = "write_props", !.object = disk.entry[file], !.props = patched]
  <2>1. task[t].at = "read_props"
    BY <1>15 DEF At
  <2>2. IF Exists(disk, file) THEN GoOn(t, y, disk) ELSE Answer(t, 500, disk)
    BY <2>1 DEF Proppatch, Ask, At, Raise, r, p, file
  <2>3. Alone(t) => /\ Has(was, p) /\ file \in DOMAIN now
                    /\ now = With(was, file, File(first)) /\ now[file] = File(first)
    <3>1. Alone(t) => Has(was, p) /\ now = With(was, file, File(first))
      BY <1>2, <2>1 DEF ProppatchReached, p, file, first
    <3>2. QED
      BY <3>1 DEF With
  <2>4. CASE Exists(disk, file)
    <3>1. /\ DOMAIN y = Field /\ y = [f \in Field |-> y[f]] /\ y.at = "write_props" /\ y.object = disk.entry[file]
          /\ y.props = patched
          /\ \A f \in Field : f # "at" /\ f # "object" /\ f # "props" => y[f] = task[t][f]
      BY <1>9 DEF Field
    <3>2. Alone(t) => patched = [first EXCEPT ![r.key] = r.value]
      <4>1. Alone(t) => File(Data(disk, file)).data = File(first).data
        BY <1>10, <2>3, <2>4
      <4>2. Alone(t) => Data(disk, file) = first
        BY <1>11, <4>1
      <4>3. QED
        BY <4>2 DEF Patched
    <3> HIDE DEF y, patched
    <3>3. y.request = r /\ y.alone = task[t].alone /\ y.parts = task[t].parts /\ y.sent = task[t].sent /\ y.before = was
      BY <1>1, <3>1 DEF Field, was
    <3>4. Alone(t) => ProppatchReached(r, was, "write_props", y.props, now)
      BY <2>3, <3>1, <3>2 DEF ProppatchReached, p, file, first
    <3>5. Alone(t) => Reached(y, now)
      BY <1>1, <3>1, <3>3, <3>4 DEF Reached, r
    <3>6. y.at \in Stages(r.method) /\ y.at \notin Asks /\ y.at \notin Asking /\ y.at \in Opened
      BY <1>5, <1>7, <3>1
    <3>7. y.object # NoFile /\ y.object \in DOMAIN disk.data /\ y.object[1][2] = Own(r)[2]
          /\ Exists(disk, Own(r)) /\ disk.entry[Own(r)] = y.object
      BY <1>1, <1>10, <2>4, <3>1 DEF NoFile, Folder
    <3>8. QED
      BY <1>8, <1>9, <2>2, <2>4, <3>1, <3>3, <3>5, <3>6, <3>7, GoOnHandled DEF r, S, now
  <2>5. CASE ~Exists(disk, file)
    <3>1. ~Alone(t)
      BY <1>12, <2>3, <2>5
    <3>2. QED
      BY <1>7, <2>1, <2>2, <2>5, <3>1, RefuseHandled
  <2>6. QED
    BY <2>4, <2>5
<1>16. CASE At(t, "write_props")
  <2> DEFINE new == Overwrite(disk, o, props)
  <2>1. task[t].at = "write_props"
    BY <1>16 DEF At
  <2>2. Answer(t, 207, new)
    BY <2>1 DEF Proppatch, Ask, At, o, props
  <2>3. Writes(t, new) /\ (Alone(t) => Shown(new, S) = With(now, file, File(props)))
    <3>1. Own(Req(t))[2] # "self"
      BY <1>1 DEF r
    <3>2. QED
      BY <1>1, <1>7, <2>1, <3>1, OverwriteHandled DEF r, S, now, o
  <2> HIDE DEF new
  <2>4. Alone(t) => Outcome(207, Shown(new, S)) \in Outcomes(r, was)
    <3>1. SUFFICES ASSUME Alone(t) PROVE Outcome(207, Shown(new, S)) \in Outcomes(r, was)
      OBVIOUS
    <3>2. Has(was, p) /\ now = With(was, file, File(first)) /\ props = [first EXCEPT ![r.key] = r.value]
      BY <1>2, <2>1, <3>1 DEF ProppatchReached, p, file, first
    <3>3. Shown(new, S) = With(was, file, File(props))
      BY <2>3, <3>1, <3>2, WithTwice
    <3>4. QED
      BY <1>4, <3>2, <3>3
  <2>5. 207 \notin 400 .. 499 /\ Req(t).method # "GET"
    OBVIOUS
  <2>6. QED
    BY ONLY FSInv, t \in Task, Busy(t), <2>2, <2>3, <2>4, <2>5, AnswerHandled DEF r, was, S
<1>17. At(t, "proppatch") \/ At(t, "touch") \/ At(t, "read_props") \/ At(t, "write_props")
  BY DEF Proppatch, Ask
<1>18. QED
  BY <1>13, <1>14, <1>15, <1>16, <1>17

LEMMA GetHandled ==
    ASSUME FSInv, NEW t \in Task, Busy(t), Req(t).method = "GET", Get(t)
    PROVE  Handled(t)
<1> DEFINE r == Req(t)
           p == r.path
           was == task[t].before
           S == Scope(r)
           now == Shown(disk, S)
           o == task[t].object
           length == task[t].length
           sent == task[t].sent
           file == Data(disk, Self(p))
<1>1. /\ DiskOK(disk) /\ r \in Requests /\ task[t].request = r /\ Running(task[t], disk) /\ (task[t].alone <=> Alone(t))
      /\ p \in Path /\ Self(p) \in S /\ Own(r) = Self(p) /\ Self(p)[2] = "self"
  BY BusyFacts, ScopeFacts DEF Own, Self
<1>2. Alone(t) => GetReached(r, was, task[t].at, length, sent, now)
  BY BusyFacts DEF Reached
<1>3. /\ Has(now, p) <=> Exists(disk, Self(p))
      /\ Fold(now, p) <=> IsDir(disk, p)
      /\ IsFile(disk, p) <=> Exists(disk, Self(p)) /\ ~IsDir(disk, p)
  BY <1>1, ShownToRequest
<1>4. /\ Has(was, p) => Outcome(200, was) \in Outcomes(r, was)
      /\ ~Has(was, p) => Outcome(404, was) \in Outcomes(r, was)
  BY GetOutcomes
<1>5. {"get", "stat", "get_kind", "get_open", "send"} = Stages(r.method)
  BY DEF Stages
<1>6. ASSUME NEW at, NEW f, Alone(t) => GetReached(r, was, at, length, sent, f)
      PROVE  \A x : Alone(t) /\ Gone(t, x, at) => Reached(x, f)
  BY <1>1, <1>6 DEF Gone, Reached
<1>7. /\ {"get", "stat", "get_kind"} \subseteq Asking /\ {"get_open", "send"} \intersect Asking = {}
      /\ {"get", "stat", "get_kind", "get_open"} \intersect (Opened \union Asks) = {}
      /\ "send" \in Opened /\ "send" \notin Asks
  BY DEF Asking, Opened, Asks
<1>8. Writes(t, disk)
  BY WritesNothing
<1>9. /\ task[t].parts \in 0 .. MaxParts - 1 /\ sent \in Seq(Block)
      /\ DOMAIN task[t] = Field /\ task[t] = [f \in Field |-> task[t][f]]
  BY <1>1 DEF Running
<1>10. IsFile(disk, p) => /\ disk.entry[Self(p)] # Folder /\ disk.entry[Self(p)] \in DOMAIN disk.data
                          /\ disk.entry[Self(p)][1][2] = "self" /\ file \in Seq(Block)
                          /\ now[Self(p)] = File(file)
  <2>1. SUFFICES ASSUME IsFile(disk, p)
                 PROVE  /\ disk.entry[Self(p)] # Folder /\ disk.entry[Self(p)] \in DOMAIN disk.data
                        /\ disk.entry[Self(p)][1][2] = "self" /\ file \in Seq(Block)
                        /\ now[Self(p)] = File(file)
    OBVIOUS
  <2>2. Self(p) \in DOMAIN disk.entry /\ disk.entry[Self(p)] # Folder
    BY <2>1 DEF IsFile, Exists
  <2>3. disk.entry[Self(p)] \in DOMAIN disk.data /\ disk.entry[Self(p)][1][2] = "self"
    BY <1>1, <2>2 DEF DiskOK, Kinds
  <2>4. file \in Seq(Block)
    BY <1>1, <2>3 DEF DiskOK, Kinds, Data
  <2>5. \A n \in S \intersect DOMAIN disk.entry : now[n] = Look(disk, n)
    BY ShownIs
  <2>6. QED
    BY <1>1, <2>2, <2>3, <2>4, <2>5 DEF Look
<1>11. \A a : File(a).data = a
  BY DEF File
<1> HIDE DEF r, p, was, S, now, o, length, sent, file
<1>12. ASSUME NEW status \in {200, 404, 500}, Answer(t, status, disk), task[t].at # "send",
              status = 404 => task[t].at = "get",
              Alone(t) => Outcome(status, now) \in Outcomes(r, was)
       PROVE  Handled(t)
  <2>1. task[t].at \notin Opened
    BY BusyFacts, <1>5, <1>7, <1>12 DEF r
  <2>2. status \in 400 .. 499 => task[t].at \in Asking
    BY <1>7, <1>12
  <2>3. QED
    BY <1>12, <2>1, <2>2, RefuseHandled DEF r, was, S, now
<1>13. CASE At(t, "get")
  <2>1. task[t].at = "get"
    BY <1>13 DEF At
  <2>2. IF Exists(disk, Self(p)) THEN Goto(t, "stat", disk) ELSE Answer(t, 404, disk)
    BY <2>1 DEF Get, Ask, At, r, p
  <2>3. CASE Exists(disk, Self(p))
    <3>1. \A x : Alone(t) /\ Gone(t, x, "stat") => Reached(x, now)
      BY <1>2, <1>3, <1>6, <2>1, <2>3 DEF GetReached, p
    <3>2. QED
      BY <1>5, <1>7, <1>8, <2>1, <2>2, <2>3, <3>1, GotoHandled DEF r, S, now
  <2>4. CASE ~Exists(disk, Self(p))
    <3>1. Alone(t) => Outcome(404, now) \in Outcomes(r, was)
      BY <1>2, <1>3, <1>4, <2>1, <2>4 DEF GetReached
    <3>2. QED
      BY <1>12, <2>1, <2>2, <2>4, <3>1
  <2>5. QED
    BY <2>3, <2>4
<1>14. CASE At(t, "stat")
  <2> DEFINE size == IF IsDir(disk, p) THEN 0 ELSE Len(file)
             y == [task[t] EXCEPT !.at = "get_kind", !.length = size]
  <2>1. task[t].at = "stat"
    BY <1>14 DEF At
  <2>2. IF Exists(disk, Self(p)) THEN GoOn(t, y, disk) ELSE Answer(t, 500, disk)
    BY <2>1 DEF Get, Ask, At, Raise, r, p, file
  <2>3. Alone(t) => now = was /\ Has(was, p) /\ sent = << >>
    BY <1>2, <2>1 DEF GetReached, p
  <2>4. CASE ~Exists(disk, Self(p))
    <3>1. ~Alone(t)
      BY <1>3, <2>3, <2>4
    <3>2. QED
      BY <1>12, <2>1, <2>2, <2>4, <3>1
  <2>5. CASE Exists(disk, Self(p))
    <3>1. /\ DOMAIN y = Field /\ y = [f \in Field |-> y[f]] /\ y.at = "get_kind" /\ y.length = size
          /\ \A f \in Field : f # "at" /\ f # "length" => y[f] = task[t][f]
      BY <1>9 DEF Field
    <3> HIDE DEF y
    <3>2. /\ y.request = r /\ y.alone = task[t].alone /\ y.parts = task[t].parts /\ y.sent = sent /\ y.before = was
          /\ y.object = o
      BY <1>1, <3>1 DEF Field, was, sent, o
    <3>3. o = NoFile
      BY BusyFacts, <1>7, <2>1 DEF o
    <3>4. Alone(t) => GetReached(r, was, "get_kind", y.length, sent, now)
      <4>1. SUFFICES ASSUME Alone(t) PROVE GetReached(r, was, "get_kind", y.length, sent, now)
        OBVIOUS
      <4>2. now = was /\ Has(was, p) /\ sent = << >>
        BY <2>3, <4>1
      <4>3. ~Fold(was, p) => was[Self(p)].data \in Seq(Block) /\ y.length = Len(was[Self(p)].data)
        <5>1. SUFFICES ASSUME ~Fold(was, p) PROVE was[Self(p)].data \in Seq(Block) /\ y.length = Len(was[Self(p)].data)
          OBVIOUS
        <5>2. IsFile(disk, p) /\ ~IsDir(disk, p)
          BY <1>3, <2>5, <4>2, <5>1
        <5>3. was[Self(p)].data = file /\ file \in Seq(Block)
          BY <1>10, <1>11, <4>2, <5>2
        <5>4. QED
          BY <3>1, <5>2, <5>3
      <4>4. QED
        BY <4>2, <4>3 DEF GetReached, p
    <3>5. Alone(t) => Reached(y, now)
      BY <1>1, <3>1, <3>2, <3>4 DEF Reached, r
    <3>6. y.at \in Stages(r.method) /\ y.at \notin Asks /\ y.at \notin Opened
      BY <1>5, <1>7, <3>1
    <3>7. y.object = NoFile /\ task[t].at \in Asking
      BY <1>7, <2>1, <3>2, <3>3
    <3>8. GoOn(t, y, disk)
      BY <2>2, <2>5
    <3>9. y.parts \in 0 .. MaxParts - 1 /\ y.sent \in Seq(Block)
      BY <1>9, <3>2
    <3> HIDE DEF size
    <3>10. QED
      BY <1>8, <3>1, <3>2, <3>5, <3>6, <3>7, <3>8, <3>9, GoOnHandled DEF r, S, now
  <2>6. QED
    BY <2>4, <2>5
<1>19. CASE At(t, "get_kind")
  <2>1. task[t].at = "get_kind"
    BY <1>19 DEF At
  <2>2. IF IsDir(disk, p) THEN Answer(t, 200, disk) ELSE Goto(t, "get_open", disk)
    BY <2>1 DEF Get, Ask, At, r, p
  <2>3. Alone(t) => now = was /\ Has(was, p)
    BY <1>2, <2>1 DEF GetReached, p
  <2>4. CASE IsDir(disk, p)
    BY <1>4, <1>12, <2>1, <2>2, <2>3, <2>4
  <2>5. CASE ~IsDir(disk, p)
    <3>1. Alone(t) => GetReached(r, was, "get_open", length, sent, now)
      BY <1>2, <1>3, <2>1, <2>3, <2>5 DEF GetReached, p
    <3>2. \A x : Alone(t) /\ Gone(t, x, "get_open") => Reached(x, now)
      BY <1>6, <3>1
    <3>3. QED
      BY <1>5, <1>7, <1>8, <2>1, <2>2, <2>5, <3>2, GotoHandled DEF r, S, now
  <2>6. QED
    BY <2>4, <2>5
<1>15. CASE At(t, "get_open")
  <2> DEFINE y == [task[t] EXCEPT !.at = "send", !.object = disk.entry[Self(p)]]
  <2>1. task[t].at = "get_open"
    BY <1>15 DEF At
  <2>2. IF IsFile(disk, p) THEN GoOn(t, y, disk) ELSE Answer(t, 500, disk)
    BY <2>1 DEF Get, Ask, At, Raise, Open, r, p
  <2>3. Alone(t) => /\ now = was /\ Has(was, p) /\ sent = << >> /\ ~Fold(was, p)
                    /\ was[Self(p)].data \in Seq(Block) /\ length = Len(was[Self(p)].data)
    BY <1>2, <2>1 DEF GetReached, p
  <2>4. CASE IsFile(disk, p)
    <3>1. /\ DOMAIN y = Field /\ y = [f \in Field |-> y[f]] /\ y.at = "send" /\ y.object = disk.entry[Self(p)]
          /\ \A f \in Field : f # "at" /\ f # "object" => y[f] = task[t][f]
      BY <1>9 DEF Field
    <3> HIDE DEF y
    <3>2. /\ y.request = r /\ y.alone = task[t].alone /\ y.parts = task[t].parts /\ y.sent = sent /\ y.before = was
          /\ y.length = length
      BY <1>1, <3>1 DEF Field, was, sent, length
    <3>3. y.object # NoFile /\ y.object \in DOMAIN disk.data /\ y.object[1][2] = Own(r)[2]
          /\ Exists(disk, Own(r)) /\ disk.entry[Own(r)] = y.object
      BY <1>1, <1>3, <1>10, <2>4, <3>1 DEF NoFile, Folder
    <3>4. Alone(t) => GetReached(r, was, "send", length, sent, now)
      <4>1. SUFFICES ASSUME Alone(t) PROVE GetReached(r, was, "send", length, sent, now)
        OBVIOUS
      <4>2. Len(sent) = 0 /\ Len(sent) <= length
        BY <2>3, <4>1
      <4>3. SubSeq(was[Self(p)].data, 1, Len(sent)) = << >>
        BY <2>3, <4>1, <4>2
      <4>4. QED
        BY <2>3, <4>1, <4>2, <4>3 DEF GetReached, p
    <3>5. Alone(t) => Reached(y, now)
      BY <1>1, <3>1, <3>2, <3>4 DEF Reached, r
    <3>6. y.at \in Stages(r.method) /\ y.at \notin Asks /\ y.at \notin Asking /\ y.at \in Opened
      BY <1>5, <1>7, <3>1
    <3>7. QED
      BY <1>8, <1>9, <2>2, <2>4, <3>1, <3>2, <3>3, <3>5, <3>6, GoOnHandled DEF r, S, now
  <2>5. CASE ~IsFile(disk, p)
    <3>1. ~Alone(t)
      BY <1>3, <2>3, <2>5
    <3>2. QED
      BY <1>12, <2>1, <2>2, <2>5, <3>1
  <2>6. QED
    BY <2>4, <2>5
<1>16. CASE At(t, "send")
  <2> DEFINE blocks == disk.data[o]
             k == Len(sent) + 1
             y == [task[t] EXCEPT !.sent = Append(sent, blocks[k])]
  <2>1. task[t].at = "send"
    BY <1>16 DEF At
  <2>2. IF k <= Len(blocks) THEN GoOn(t, y, disk)
        ELSE /\ Step(t, IdleTask, disk)
             /\ reply' = [status |-> 200, wrote |-> FALSE, length |-> length, sent |-> sent]
    BY <2>1 DEF Get, Ask, At, NextBlock, o, sent, length
  <2>3. o # NoFile /\ o \in DOMAIN disk.data /\ o[1][2] = "self" /\ blocks \in Seq(Block)
    <3>1. o # NoFile /\ o \in DOMAIN disk.data /\ o[1][2] = "self"
      BY <1>1, <1>7, <2>1 DEF Running, o
    <3>2. QED
      BY <1>1, <3>1 DEF DiskOK, Kinds
  <2>4. ASSUME Alone(t)
        PROVE  /\ Exists(disk, Self(p)) /\ disk.entry[Self(p)] = o
               /\ now = was /\ Has(was, p) /\ ~Fold(was, p) /\ was[Self(p)].data = blocks
               /\ length = Len(blocks) /\ Len(sent) <= Len(blocks) /\ sent = SubSeq(blocks, 1, Len(sent))
    <3>1. Exists(disk, Self(p)) /\ disk.entry[Self(p)] = o
      BY <1>1, <2>3, <2>4 DEF FSInv, Holding, r, o
    <3>2. /\ now = was /\ Has(was, p) /\ ~Fold(was, p) /\ length = Len(was[Self(p)].data)
          /\ Len(sent) <= length /\ sent = SubSeq(was[Self(p)].data, 1, Len(sent))
      BY <1>2, <2>1, <2>4 DEF GetReached, p
    <3>3. file = blocks
      BY <3>1 DEF file, Data
    <3>4. IsFile(disk, p)
      BY <1>3, <3>1, <3>2
    <3>5. was[Self(p)].data = blocks
      BY <1>10, <1>11, <3>2, <3>3, <3>4
    <3>6. QED
      BY <3>1, <3>2, <3>5
  <2>5. Len(sent) \in Nat /\ Len(blocks) \in Nat
    BY <1>9, <2>3
  <2>6. CASE k <= Len(blocks)
    <3>1. /\ DOMAIN y = Field /\ y = [f \in Field |-> y[f]] /\ y.sent = Append(sent, blocks[k])
          /\ \A f \in Field : f # "sent" => y[f] = task[t][f]
      BY <1>9 DEF Field
    <3>2. GoOn(t, y, disk)
      BY <2>2, <2>6
    <3> HIDE DEF y
    <3>3. /\ y.request = r /\ y.alone = task[t].alone /\ y.parts = task[t].parts /\ y.at = "send" /\ y.before = was
          /\ y.length = length /\ y.object = o
      BY <1>1, <2>1, <3>1 DEF Field, was, length, o
    <3>4. k \in 1 .. Len(blocks)
      BY <2>5, <2>6
    <3>5. /\ y.sent \in Seq(Block) /\ Len(y.sent) = k /\ y.sent[k] = blocks[k]
          /\ \A i \in 1 .. Len(sent) : y.sent[i] = sent[i]
      <4>1. blocks[k] \in Block
        BY <2>3, <3>4
      <4>2. ASSUME NEW s \in Seq(Block), NEW b \in Block
            PROVE  /\ Append(s, b) \in Seq(Block) /\ Len(Append(s, b)) = Len(s) + 1 /\ Append(s, b)[Len(s) + 1] = b
                   /\ \A i \in 1 .. Len(s) : Append(s, b)[i] = s[i]
        OBVIOUS
      <4>3. ASSUME NEW b \in Block, y.sent = Append(sent, b)
            PROVE  /\ y.sent \in Seq(Block) /\ Len(y.sent) = Len(sent) + 1 /\ y.sent[Len(sent) + 1] = b
                   /\ \A i \in 1 .. Len(sent) : y.sent[i] = sent[i]
        BY <1>9, <4>2, <4>3
      <4>4. QED
        BY <3>1, <4>1, <4>3
    <3>6. Alone(t) => GetReached(r, was, "send", length, y.sent, now)
      <4>1. SUFFICES ASSUME Alone(t) PROVE GetReached(r, was, "send", length, y.sent, now)
        OBVIOUS
      <4>2. y.sent = SubSeq(blocks, 1, k)
        <5>1. sent = SubSeq(blocks, 1, Len(sent))
          BY <2>4, <4>1
        <5>2. \A i \in 1 .. Len(sent) : sent[i] = blocks[i]
          BY <2>3, <2>5, <2>6, <5>1
        <5>3. \A i \in 1 .. k : y.sent[i] = blocks[i]
          BY <2>5, <3>5, <5>2
        <5>4. SubSeq(blocks, 1, k) \in Seq(Block) /\ Len(SubSeq(blocks, 1, k)) = k
              /\ \A i \in 1 .. k : SubSeq(blocks, 1, k)[i] = blocks[i]
          BY <2>3, <2>5, <3>4
        <5> HIDE DEF k, blocks
        <5>5. QED
          BY <3>5, <5>3, <5>4
      <4>3. /\ now = was /\ Has(was, p) /\ ~Fold(was, p) /\ was[Self(p)].data = blocks
            /\ length = Len(blocks)
        BY <2>4, <4>1
      <4>4. Len(y.sent) <= length
        BY <2>6, <3>5, <4>3
      <4> HIDE DEF blocks, k
      <4>5. y.sent = SubSeq(was[Self(p)].data, 1, Len(y.sent))
        BY <3>5, <4>2, <4>3
      <4>6. QED
        BY <2>3, <4>3, <4>4, <4>5 DEF GetReached, p
    <3>7. Alone(t) => Reached(y, now)
      BY <1>1, <3>3, <3>6 DEF Reached, r
    <3>8. y.at \in Stages(r.method) /\ y.at \notin Asks /\ y.at \notin Asking /\ y.at \in Opened
      BY <1>5, <1>7, <3>3
    <3>9. Alone(t) => Exists(disk, Own(r)) /\ disk.entry[Own(r)] = o
      BY <1>1, <2>4
    <3>10. y.object # NoFile /\ y.object \in DOMAIN disk.data /\ y.object[1][2] = Own(r)[2] /\ y.object = task[t].object
      BY <1>1, <2>3, <3>3 DEF o
    <3>11. QED
      BY <1>8, <1>9, <3>1, <3>2, <3>3, <3>5, <3>7, <3>8, <3>9, <3>10, GoOnHandled DEF r, S, now
  <2>7. CASE ~(k <= Len(blocks))
    <3>1. /\ Step(t, IdleTask, disk)
          /\ reply' = [status |-> 200, wrote |-> FALSE, length |-> length, sent |-> sent]
      BY <2>2, <2>7
    <3>2. reply'.status = 200 /\ reply'.length = length /\ reply'.sent = sent
      BY <3>1
    <3>3. Alone(t) => length = Len(sent) /\ sent = was[Self(p)].data
      <4>1. SUFFICES ASSUME Alone(t) PROVE length = Len(sent) /\ sent = was[Self(p)].data
        OBVIOUS
      <4>2. Len(sent) = Len(blocks)
        BY <2>4, <2>5, <2>7, <4>1
      <4>3. SubSeq(blocks, 1, Len(blocks)) = blocks
        BY <2>3
      <4>4. QED
        BY <2>4, <4>1, <4>2, <4>3
    <3>4. Alone(t) => Outcome(200, now) \in Outcomes(r, was)
      BY <1>4, <2>4
    <3>5. 200 \notin 400 .. 499
      OBVIOUS
    <3>6. Ended(t, disk)
      BY <3>2, <3>3, <3>4, <3>5 DEF Ended, r, was, S, now, p
    <3>7. QED
      BY <1>8, <3>1, <3>6 DEF Handled
  <2>8. QED
    BY <2>6, <2>7
<1>17. At(t, "get") \/ At(t, "stat") \/ At(t, "get_kind") \/ At(t, "get_open") \/ At(t, "send")
  BY DEF Get, Ask
<1>18. QED
  BY <1>13, <1>14, <1>15, <1>16, <1>17, <1>19

-----------------------------------------------------------------------------
(* COPY and MOVE                                                           *)

\* Where the names of a resource go.
LEMMA ImageNames ==
    ASSUME FSInv, NEW r \in Requests, r.method \in {"COPY", "MOVE"}
    PROVE  LET src == r.path  dst == r.dst
           IN  /\ RenamedTo(PropertiesPath(src), src, dst) = PropertiesPath(dst)
               /\ RenamedTo(Self(src), src, dst) = Self(dst)
               /\ \A n \in Resource(src) :
                    LET m == RenamedTo(n, src, dst)
                    IN  /\ n \in FileName /\ IsPrefix(src, n[1]) /\ m \in Resource(dst) /\ m \in FileName
                        /\ RenamedTo(m, dst, src) = n /\ n \notin Resource(dst)
                        /\ n \in Tree(src) => m \in Tree(dst)
               /\ \A p \in {src, dst} : /\ Resource(p) = Tree(p) \union {PropertiesPath(p)}
                                        /\ PropertiesPath(p) \notin Tree(p) /\ Self(p) \in Tree(p)
               /\ Self(Parent(dst)) \notin Resource(src) /\ Self(Parent(dst)) \notin Resource(dst)
<1> DEFINE src == r.path
           dst == r.dst
<1>1. /\ src \in Path /\ dst \in Path /\ src \in Seq(Segment) /\ dst \in Seq(Segment)
      /\ ~IsPrefix(src, dst) /\ ~IsPrefix(dst, src)
  BY ScopeFacts
<1>2. Len(src) \in Nat \ {0} /\ Len(dst) \in Nat \ {0}
      /\ Parent(dst) \in Path \union {Root} /\ Parent(dst) = SubSeq(dst, 1, Len(dst) - 1)
  BY <1>1, PathFacts
<1>3. DiskOK(disk)
  BY DEF FSInv
<1>4. /\ Takes(disk, Tree(src), src, dst) /\ Takes(disk, {PropertiesPath(src)}, src, dst)
      /\ Takes(disk, {Self(src)}, src, dst)
  BY <1>3, TreeIsTaken
<1> HIDE DEF src, dst
<1>5. /\ \A p \in {src, dst} : Resource(p) = Tree(p) \union {PropertiesPath(p)} /\ PropertiesPath(p) \notin Tree(p)
                               /\ Self(p) \in Tree(p)
  <2>1. \A p \in {src, dst} : PropertiesPath(p) \in FileName /\ PropertiesPath(p)[1] = p /\ PropertiesPath(p)[2] = "props"
    BY <1>1 DEF FileName, PropertiesPath
  <2>2. \A p \in {src, dst} : PropertiesPath(p) \notin Tree(p)
    BY <1>1, <2>1, TreeFacts
  <2>3. QED
    BY <2>2 DEF Resource, Tree
<1>6. ASSUME NEW n \in Resource(src)
      PROVE  LET m == RenamedTo(n, src, dst)
             IN  /\ n \in FileName /\ IsPrefix(src, n[1]) /\ m \in Resource(dst) /\ m \in FileName
                 /\ RenamedTo(m, dst, src) = n /\ n \notin Resource(dst)
                 /\ n \in Tree(src) => m \in Tree(dst)
  <2> DEFINE m == RenamedTo(n, src, dst)
  <2>1. n \in Tree(src) \/ n = PropertiesPath(src)
    BY <1>5, <1>6
  <2>2. n \in FileName
    BY <1>4, <2>1 DEF Takes
  <2>3. n[1] \in Seq(Segment)
    BY <2>2, NameFacts
  <2>4. IsPrefix(src, n[1]) /\ (n \in Tree(src) => (n[1] = src => n[2] = "self"))
    BY <1>1, <1>6, <2>2, TreeFacts
  <2>5. m \in FileName
    <3>1. CASE n \in Tree(src)
      BY <1>1, <1>4, <3>1, TakenFacts
    <3>2. CASE n = PropertiesPath(src)
      BY <1>1, <1>4, <3>2, TakenFacts
    <3>3. QED
      BY <2>1, <3>1, <3>2
  <2>6. /\ m[2] = n[2] /\ IsPrefix(dst, m[1]) /\ (m[1] = dst <=> n[1] = src) /\ RenamedTo(m, dst, src) = n
    BY <1>1, <2>2, <2>4, RenamedFacts
  <2> HIDE DEF m
  <2>7. m \in Resource(dst) /\ (n \in Tree(src) => m \in Tree(dst))
    BY <1>1, <2>4, <2>5, <2>6, TreeFacts
  <2>8. n \notin Resource(dst)
    <3>1. ~IsPrefix(dst, n[1])
      BY <1>1, <2>3, <2>4, Separate
    <3>2. QED
      BY <1>1, <2>2, <3>1, TreeFacts
  <2>9. QED
    BY <2>2, <2>4, <2>5, <2>6, <2>7, <2>8 DEF m
<1>7. RenamedTo(PropertiesPath(src), src, dst) = PropertiesPath(dst) /\ RenamedTo(Self(src), src, dst) = Self(dst)
  <2>1. ASSUME NEW k \in {"self", "props"} PROVE RenamedTo(<< src, k >>, src, dst) = << dst, k >>
    <3> DEFINE n == << src, k >>
               m == RenamedTo(n, src, dst)
    <3>1. n \in FileName /\ n[1] = src /\ n[2] = k
      BY <1>1 DEF FileName
    <3>2. IsPrefix(src, n[1])
      BY <1>1, <3>1, PrefixReflexive DEF IsParentOfOrIsSelf
    <3> HIDE DEF n
    <3>3. m = << m[1], m[2] >> /\ m[2] = n[2] /\ (m[1] = dst <=> n[1] = src)
      BY <1>1, <3>1, <3>2, RenamedFacts
    <3> HIDE DEF m
    <3>4. m = << dst, k >>
      BY <3>1, <3>3
    <3>5. QED
      BY <3>4 DEF m, n
  <2>2. QED
    BY <2>1 DEF PropertiesPath, Self
<1>8. Self(Parent(dst)) \notin Resource(src) /\ Self(Parent(dst)) \notin Resource(dst)
  <2> DEFINE q == Parent(dst)
  <2>1. q \in Seq(Segment) /\ Len(q) = Len(dst) - 1 /\ IsPrefix(q, dst)
    <3>1. Len(dst) - 1 \in 0 .. Len(dst) /\ q = SubSeq(dst, 1, Len(dst) - 1)
      BY <1>2
    <3> HIDE DEF q
    <3>2. QED
      BY <1>1, <3>1, FirstSegments
  <2>2. Self(q) \in FileName /\ Self(q)[1] = q
    BY <1>2 DEF FileName, Self
  <2> HIDE DEF q
  <2>3. ~IsPrefix(dst, q)
    BY <1>1, <1>2, <2>1, PrefixBySegment
  <2>4. ~IsPrefix(src, q)
    BY <1>1, <2>1, PrefixTransitive
  <2>5. QED
    BY <1>1, <2>2, <2>3, <2>4, TreeFacts DEF q
<1>9. QED
  BY <1>5, <1>6, <1>7, <1>8 DEF src, dst

LEMMA SameFunction ==
    ASSUME NEW f, NEW g, f = [x \in DOMAIN f |-> f[x]], g = [x \in DOMAIN g |-> g[x]],
           DOMAIN f = DOMAIN g, \A x \in DOMAIN f : f[x] = g[x]
    PROVE  f = g
OBVIOUS

\* An image depends on what there is under the names, and on nothing else.
LEMMA ImageSame ==
    ASSUME NEW src \in Seq(Segment), NEW dst \in Seq(Segment), NEW names, NEW others,
           \A n \in names \union others : n \in FileName /\ IsPrefix(src, n[1]), NEW files, NEW left,
           names \intersect DOMAIN files = others \intersect DOMAIN left,
           \A n \in names \intersect DOMAIN files : left[n] = files[n]
    PROVE  Image(left, others, src, dst) = Image(files, names, src, dst)
<1> DEFINE f == Image(files, names, src, dst)
           g == Image(left, others, src, dst)
           there == names \intersect DOMAIN files
           to(n) == RenamedTo(n, src, dst)
<1>1. Carries(f, files, names, src, dst) /\ Carries(g, left, others, src, dst)
  <2>1. /\ \A n \in names : n \in FileName /\ IsPrefix(src, n[1])
        /\ \A n \in others : n \in FileName /\ IsPrefix(src, n[1])
    OBVIOUS
  <2>2. Carries(f, files, names, src, dst)
    BY <2>1, ImageFacts
  <2>3. Carries(g, left, others, src, dst)
    BY <2>1, ImageFacts
  <2>4. QED
    BY <2>2, <2>3
<1> HIDE DEF f, g
<1>2. /\ f = [m \in DOMAIN f |-> f[m]]
      /\ \A n \in there : to(n) \in DOMAIN f /\ f[to(n)] = files[n]
      /\ \A m \in DOMAIN f : \E n \in there : m = to(n) /\ f[m] = files[n]
  BY ONLY <1>1 DEF Carries
<1>3. /\ g = [m \in DOMAIN g |-> g[m]]
      /\ \A n \in there : to(n) \in DOMAIN g /\ g[to(n)] = files[n]
      /\ \A m \in DOMAIN g : \E n \in there : m = to(n) /\ g[m] = files[n]
  BY <1>1 DEF Carries
<1> HIDE DEF there, to
<1>4. DOMAIN f = DOMAIN g /\ \A m \in DOMAIN f : f[m] = g[m]
  BY ONLY <1>2, <1>3
<1>5. f = g
  BY ONLY <1>2, <1>3, <1>4, SameFunction
<1>6. QED
  BY <1>5 DEF f, g

\* The property file comes to the other names.
LEMMA ImageAndProperties ==
    ASSUME FSInv, NEW r \in Requests, r.method \in {"COPY", "MOVE"}, NEW names \in SUBSET Tree(r.path), NEW files
    PROVE  LET some == Image(files, names, r.path, r.dst)
               all == Image(files, names \union {PropertiesPath(r.path)}, r.path, r.dst)
               props == Image(files, {PropertiesPath(r.path)}, r.path, r.dst)
           IN  /\ DOMAIN some \subseteq Tree(r.dst)
               /\ PropertiesPath(r.path) \notin DOMAIN files => all = some
               /\ PropertiesPath(r.path) \in DOMAIN files =>
                    /\ DOMAIN all = DOMAIN some \union {PropertiesPath(r.dst)}
                    /\ all[PropertiesPath(r.dst)] = files[PropertiesPath(r.path)]
                    /\ \A x \in DOMAIN some : all[x] = some[x]
                    /\ DOMAIN props = {PropertiesPath(r.dst)}
                    /\ props[PropertiesPath(r.dst)] = files[PropertiesPath(r.path)]
<1> DEFINE src == r.path
           dst == r.dst
           pp == PropertiesPath(src)
           qq == PropertiesPath(dst)
           both == names \union {pp}
           some == Image(files, names, src, dst)
           all == Image(files, both, src, dst)
           props == Image(files, {pp}, src, dst)
           to(n) == RenamedTo(n, src, dst)
<1>1. src \in Seq(Segment) /\ dst \in Seq(Segment)
  BY ScopeFacts
<1>2. /\ to(pp) = qq /\ pp \notin Tree(src) /\ qq \notin Tree(dst)
      /\ \A n \in both : n \in FileName /\ IsPrefix(src, n[1])
      /\ \A n \in names : to(n) \in Tree(dst)
  BY ImageNames
<1>3. Carries(some, files, names, src, dst)
  BY <1>1, <1>2, ImageFacts
<1>4. Carries(all, files, both, src, dst)
  BY <1>1, <1>2, ImageFacts
<1>5. Carries(props, files, {pp}, src, dst)
  BY <1>1, <1>2, ImageFacts
<1>6. pp \notin DOMAIN files => all = some
  <2>1. pp \notin DOMAIN files => both \intersect DOMAIN files = names \intersect DOMAIN files
    OBVIOUS
  <2>2. QED
    BY <1>1, <1>2, <2>1, ImageSame
<1> HIDE DEF some, all, props, pp, qq, src, dst
<1>7. /\ \A n \in names \intersect DOMAIN files : to(n) \in DOMAIN some /\ some[to(n)] = files[n]
      /\ \A m \in DOMAIN some : \E n \in names \intersect DOMAIN files : m = to(n) /\ some[m] = files[n]
  BY <1>3 DEF Carries
<1>8. /\ \A n \in both \intersect DOMAIN files : to(n) \in DOMAIN all /\ all[to(n)] = files[n]
      /\ \A m \in DOMAIN all : \E n \in both \intersect DOMAIN files : m = to(n) /\ all[m] = files[n]
  BY <1>4 DEF Carries
<1>9. /\ \A n \in {pp} \intersect DOMAIN files : to(n) \in DOMAIN props /\ props[to(n)] = files[n]
      /\ \A m \in DOMAIN props : \E n \in {pp} \intersect DOMAIN files : m = to(n) /\ props[m] = files[n]
  BY <1>5 DEF Carries
<1> HIDE DEF to
<1>10. DOMAIN some \subseteq Tree(dst)
  BY <1>2, <1>7
<1>11. pp \in DOMAIN files =>
         /\ DOMAIN all = DOMAIN some \union {qq} /\ all[qq] = files[pp]
         /\ \A x \in DOMAIN some : all[x] = some[x]
         /\ DOMAIN props = {qq} /\ props[qq] = files[pp]
  <2>1. ASSUME pp \in DOMAIN files PROVE DOMAIN all = DOMAIN some \union {qq} /\ all[qq] = files[pp]
    <3>1. qq \in DOMAIN all /\ all[qq] = files[pp]
      BY <1>2, <1>8, <2>1
    <3>2. \A m \in DOMAIN some : m \in DOMAIN all
      BY <1>7, <1>8
    <3>3. \A m \in DOMAIN all : m \in DOMAIN some \/ m = qq
      BY <1>2, <1>7, <1>8
    <3>4. QED
      BY <3>1, <3>2, <3>3
  <2>2. \A x \in DOMAIN some : all[x] = some[x]
    BY <1>7, <1>8
  <2>3. pp \in DOMAIN files => DOMAIN props = {qq} /\ props[qq] = files[pp]
    BY <1>2, <1>9
  <2>4. QED
    BY <2>1, <2>2, <2>3
<1>12. QED
  BY <1>6, <1>10, <1>11 DEF some, all, props, pp, qq, src, dst

\* What a COPY or MOVE has made before it comes to the property files, ...
DoneBy(r, was) ==
    IF r.method = "COPY" THEN Updated(was, Image(was, Taken(r), r.path, r.dst))
    ELSE Updated(Without(was, Tree(r.dst) \union Tree(r.path)), Image(was, Tree(r.path), r.path, r.dst))

\* ... and what becomes of that when the property file of the source has gone as well.
Carried(r, files) ==
    LET image == Image(files, {PropertiesPath(r.path)}, r.path, r.dst)
    IN  IF r.method = "COPY" THEN Updated(files, image) ELSE Updated(Without(files, {PropertiesPath(r.path)}), image)

MadeOf(r, was) == IF r.method = "COPY" THEN CopiedTo(r, was) ELSE MovedTo(r, was)

\* The resource first, its property file then, comes to what is to be done.
LEMMA DoneFacts ==
    ASSUME FSInv, NEW r \in Requests, r.method \in {"COPY", "MOVE"}, NEW was
    PROVE  LET done == DoneBy(r, was)
               rest == Without(done, {PropertiesPath(r.dst)})
               pp == PropertiesPath(r.path)
           IN  /\ pp \in DOMAIN was <=> pp \in DOMAIN done
               /\ pp \in DOMAIN was <=> pp \in DOMAIN rest
               /\ Fold(was, Parent(r.dst)) => Fold(done, Parent(r.dst)) /\ Fold(rest, Parent(r.dst))
               /\ PropertiesPath(r.dst) \notin DOMAIN done => rest = done
               /\ pp \notin DOMAIN was => done = MadeOf(r, was)
               /\ pp \in DOMAIN was => Carried(r, rest) = MadeOf(r, was)
<1> DEFINE src == r.path
           dst == r.dst
           pp == PropertiesPath(src)
           qq == PropertiesPath(dst)
           names == IF r.method = "COPY" THEN Taken(r) ELSE Tree(src)
           gone == IF r.method = "COPY" THEN {} ELSE Tree(dst) \union Tree(src)
           goes == IF r.method = "COPY" THEN {} ELSE {pp}
           some == Image(was, names, src, dst)
           all == Image(was, names \union {pp}, src, dst)
           done == Updated(Without(was, gone), some)
           made == Updated(Without(was, gone \union goes), all)
           rest == Without(done, {qq})
           props == Image(rest, {pp}, src, dst)
           end == Updated(Without(rest, goes), props)
           q == Self(Parent(dst))
<1>1. /\ pp \notin Tree(src) /\ qq \notin Tree(dst) /\ pp \notin Tree(dst) /\ pp # qq /\ qq \notin Tree(src)
      /\ q \notin Tree(src) /\ q \notin Tree(dst) /\ q # pp /\ q # qq
  <2>1. /\ \A n \in Resource(src) : n \notin Resource(dst)
        /\ \A p \in {src, dst} : Resource(p) = Tree(p) \union {PropertiesPath(p)} /\ PropertiesPath(p) \notin Tree(p)
        /\ q \notin Resource(src) /\ q \notin Resource(dst)
    BY ImageNames
  <2>2. QED
    BY <2>1
<1>2. names \in SUBSET Tree(src) /\ names = IF r.method = "COPY" THEN Taken(r) ELSE Tree(src)
  BY DEF Taken, Tree
<1>3. Without(was, {}) = [x \in DOMAIN was |-> was[x]]
  BY DEF Without, Restrict
<1>4. ASSUME NEW f, NEW g PROVE Updated(Without(f, {}), g) = Updated(f, g)
  <2> DEFINE h == Without(f, {})
  <2>1. DOMAIN h = DOMAIN f \ {} /\ \A x \in DOMAIN h : h[x] = f[x]
    BY WithoutFacts
  <2>2. DOMAIN h = DOMAIN f
    BY <2>1
  <2> HIDE DEF h
  <2>3. Updated(h, g) = Updated(f, g)
    BY <2>1, <2>2 DEF Updated
  <2>4. QED
    BY <2>3 DEF h
<1>5. done = DoneBy(r, was)
  <2>1. CASE r.method = "COPY"
    BY <1>4, <2>1 DEF DoneBy
  <2>2. CASE r.method # "COPY"
    BY <2>2 DEF DoneBy
  <2>3. QED
    BY <2>1, <2>2
<1>6. made = MadeOf(r, was)
  <2>1. CASE r.method = "COPY"
    <3>1. {} \union {} = {}
      OBVIOUS
    <3>2. gone \union goes = {}
      BY <2>1
    <3>3. QED
      BY <1>4, <2>1, <3>2 DEF MadeOf, CopiedTo
  <2>2. CASE r.method # "COPY"
    <3>1. Resource(src) = Tree(src) \union {pp}
      BY DEF Resource
    <3>2. gone \union goes = Tree(dst) \union Resource(src)
      BY <2>2, <3>1
    <3>3. names \union {pp} = Resource(src)
      BY <2>2, <3>1
    <3>4. QED
      BY <2>2, <3>2, <3>3 DEF MadeOf, MovedTo
  <2>3. QED
    BY <2>1, <2>2
<1>7. end = Carried(r, rest)
  <2>1. CASE r.method = "COPY"
    BY <1>4, <2>1 DEF Carried
  <2>2. CASE r.method # "COPY"
    BY <2>2 DEF Carried
  <2>3. QED
    BY <2>1, <2>2
<1>8. /\ DOMAIN some \subseteq Tree(dst)
      /\ pp \notin DOMAIN was => all = some
      /\ pp \in DOMAIN was => /\ DOMAIN all = DOMAIN some \union {qq} /\ all[qq] = was[pp]
                              /\ \A x \in DOMAIN some : all[x] = some[x]
  BY <1>2, ImageAndProperties
<1>9. pp \in DOMAIN rest => DOMAIN props = {qq} /\ props[qq] = rest[pp]
  BY ImageAndProperties
<1>10. gone \subseteq Tree(dst) \union Tree(src) /\ goes \subseteq {pp}
  OBVIOUS
<1> HIDE DEF some, all, props, names, gone, goes, pp, qq, q
<1>11. /\ done = [x \in DOMAIN done |-> done[x]] /\ DOMAIN done = (DOMAIN was \ gone) \union DOMAIN some
       /\ \A x \in DOMAIN done : done[x] = IF x \in DOMAIN some THEN some[x] ELSE was[x]
  <2> DEFINE h == Without(was, gone)
  <2>1. DOMAIN h = DOMAIN was \ gone /\ \A x \in DOMAIN h : h[x] = was[x]
    BY WithoutFacts
  <2> HIDE DEF h
  <2>2. LET k == Updated(h, some)
        IN  /\ k = [x \in DOMAIN k |-> k[x]] /\ DOMAIN k = DOMAIN h \union DOMAIN some
            /\ \A x \in DOMAIN k : k[x] = IF x \in DOMAIN some THEN some[x] ELSE h[x]
    BY ONLY UpdatedFacts
  <2>3. done = Updated(h, some)
    BY DEF h
  <2> HIDE DEF done
  <2>4. QED
    BY <2>1, <2>2, <2>3
<1>12. /\ made = [x \in DOMAIN made |-> made[x]] /\ DOMAIN made = (DOMAIN was \ (gone \union goes)) \union DOMAIN all
       /\ \A x \in DOMAIN made : made[x] = IF x \in DOMAIN all THEN all[x] ELSE was[x]
  <2> DEFINE h == Without(was, gone \union goes)
  <2>1. DOMAIN h = DOMAIN was \ (gone \union goes) /\ \A x \in DOMAIN h : h[x] = was[x]
    BY WithoutFacts
  <2> HIDE DEF h
  <2>2. LET k == Updated(h, all)
        IN  /\ k = [x \in DOMAIN k |-> k[x]] /\ DOMAIN k = DOMAIN h \union DOMAIN all
            /\ \A x \in DOMAIN k : k[x] = IF x \in DOMAIN all THEN all[x] ELSE h[x]
    BY ONLY UpdatedFacts
  <2>3. made = Updated(h, all)
    BY DEF h
  <2> HIDE DEF made
  <2>4. QED
    BY <2>1, <2>2, <2>3
<1> HIDE DEF done
<1>13. /\ rest = [x \in DOMAIN rest |-> rest[x]] /\ DOMAIN rest = DOMAIN done \ {qq}
       /\ \A x \in DOMAIN rest : rest[x] = done[x]
  BY WithoutFacts
<1> HIDE DEF rest
<1>14. /\ end = [x \in DOMAIN end |-> end[x]] /\ DOMAIN end = (DOMAIN rest \ goes) \union DOMAIN props
       /\ \A x \in DOMAIN end : end[x] = IF x \in DOMAIN props THEN props[x] ELSE rest[x]
  <2> DEFINE h == Without(rest, goes)
  <2>1. DOMAIN h = DOMAIN rest \ goes /\ \A x \in DOMAIN h : h[x] = rest[x]
    BY WithoutFacts
  <2> HIDE DEF h
  <2>2. LET k == Updated(h, props)
        IN  /\ k = [x \in DOMAIN k |-> k[x]] /\ DOMAIN k = DOMAIN h \union DOMAIN props
            /\ \A x \in DOMAIN k : k[x] = IF x \in DOMAIN props THEN props[x] ELSE h[x]
    BY ONLY UpdatedFacts
  <2>3. end = Updated(h, props)
    BY DEF h
  <2> HIDE DEF end
  <2>4. QED
    BY <2>1, <2>2, <2>3
<1> HIDE DEF made, end
<1>15. (pp \in DOMAIN was <=> pp \in DOMAIN done) /\ (pp \in DOMAIN done => done[pp] = was[pp])
  BY <1>1, <1>8, <1>10, <1>11
<1>16. (pp \in DOMAIN was <=> pp \in DOMAIN rest) /\ (pp \in DOMAIN rest => rest[pp] = was[pp])
  BY <1>1, <1>13, <1>15
<1>17. q \in DOMAIN was => q \in DOMAIN done /\ done[q] = was[q] /\ q \in DOMAIN rest /\ rest[q] = was[q]
  BY <1>1, <1>8, <1>10, <1>11, <1>13
<1>18. qq \notin DOMAIN done => rest = done
  BY <1>11, <1>13, SameFunction
<1>19. pp \notin DOMAIN was => done = made
  <2>1. SUFFICES ASSUME pp \notin DOMAIN was PROVE done = made
    OBVIOUS
  <2>2. DOMAIN was \ (gone \union goes) = DOMAIN was \ gone
    BY <1>10, <2>1
  <2>3. DOMAIN done = DOMAIN made /\ \A x \in DOMAIN done : done[x] = made[x]
    BY <1>8, <1>11, <1>12, <2>1, <2>2
  <2>4. QED
    BY ONLY <1>11, <1>12, <2>3, SameFunction
<1>20. pp \in DOMAIN was => end = made
  <2>1. SUFFICES ASSUME pp \in DOMAIN was PROVE end = made
    OBVIOUS
  <2>2. /\ DOMAIN all = DOMAIN some \union {qq} /\ all[qq] = was[pp] /\ \A x \in DOMAIN some : all[x] = some[x]
        /\ DOMAIN props = {qq} /\ props[qq] = was[pp]
    BY <1>8, <1>9, <1>16, <2>1
  <2>3. goes \intersect DOMAIN some = {} /\ qq \notin goes
    BY <1>1, <1>8, <1>10
  <2>4. DOMAIN end = DOMAIN made
    BY <1>11, <1>12, <1>13, <1>14, <2>2, <2>3
  <2>5. \A x \in DOMAIN end : end[x] = made[x]
    <3>1. SUFFICES ASSUME NEW x \in DOMAIN end PROVE end[x] = made[x]
      OBVIOUS
    <3>2. CASE x = qq
      BY <1>12, <1>14, <2>2, <2>4, <3>1, <3>2
    <3>3. CASE x # qq
      <4>1. x \in DOMAIN rest /\ end[x] = rest[x] /\ rest[x] = done[x] /\ x \in DOMAIN done
        BY <1>13, <1>14, <2>2, <3>1, <3>3
      <4>2. made[x] = IF x \in DOMAIN all THEN all[x] ELSE was[x]
        BY <1>12, <2>4, <3>1
      <4>3. QED
        BY <1>11, <2>2, <3>3, <4>1, <4>2
    <3>4. QED
      BY <3>2, <3>3
  <2>6. QED
    BY ONLY <1>12, <1>14, <2>4, <2>5, SameFunction
<1>21. QED
  BY <1>5, <1>6, <1>7, <1>15, <1>16, <1>17, <1>18, <1>19, <1>20 DEF pp, qq, q, Fold, Has, src, dst, rest

\* What a COPY makes is below its destination; a folder above the destination that is
\* missing is nobody's.
LEMMA CopyOverHandled ==
    ASSUME FSInv, NEW t \in Task, Busy(t), Req(t).method = "COPY",
           NEW names \in SUBSET Resource(Req(t).path), NEW to \in Path, IsPrefix(Req(t).dst, to),
           Takes(disk, names, Req(t).path, to), ~IsPrefix(Req(t).path, to), ~IsPrefix(to, Req(t).path),
           \A k \in 1 .. Len(to) - 1 : ~IsFile(disk, SubSeq(to, 1, k)),
           \A n \in names \intersect DOMAIN disk.entry :
              Exists(disk, RenamedTo(n, Req(t).path, to)) =>
                (disk.entry[n] = Folder <=> disk.entry[RenamedTo(n, Req(t).path, to)] = Folder),
           \A u \in Task : Alone(u) => \A k \in 1 .. Len(to) - 1 :
              Self(SubSeq(to, 1, k)) \in Scope(Req(u)) => Exists(disk, Self(SubSeq(to, 1, k)))
    PROVE  LET new == CopyOver(disk, names, Req(t).path, to)
               now == Shown(disk, Scope(Req(t)))
           IN  /\ Writes(t, new)
               /\ Alone(t) /\ to = Req(t).dst =>
                    Shown(new, Scope(Req(t))) = Updated(now, Image(now, names, Req(t).path, to))
<1> DEFINE r == Req(t)
           src == r.path
           dst == r.dst
           S == Scope(r)
           new == CopyOver(disk, names, src, to)
           there == names \intersect DOMAIN disk.entry
           image == {RenamedTo(n, src, to) : n \in there}
           above == {Self(SubSeq(to, 1, k)) : k \in 1 .. Len(to) - 1}
<1>1. /\ DiskOK(disk) /\ r \in Requests /\ src \in Path /\ dst \in Path /\ src \in Seq(Segment) /\ dst \in Seq(Segment)
      /\ Changes(r) = Resource(dst) /\ Resource(src) \subseteq S /\ Resource(dst) \subseteq S
      /\ to \in Seq(Segment)
  BY BusyFacts, ScopeFacts, ChangesFacts, PathFacts
<1>2. /\ DiskOK(new) /\ DOMAIN new.entry = DOMAIN disk.entry \union (image \union above)
      /\ DOMAIN disk.data \subseteq DOMAIN new.data
      /\ \A n \in there : /\ new.entry[RenamedTo(n, src, to)] = Folder <=> disk.entry[n] = Folder
                          /\ disk.entry[n] # Folder => Data(new, RenamedTo(n, src, to)) = Data(disk, n)
      /\ \A m : m \notin image /\ (m \in above => Exists(disk, m)) => Same(disk, new, m)
      /\ \A m \in DOMAIN new.entry : \/ new.entry[m] = Folder
                                     \/ new.entry[m] \notin DOMAIN disk.data
                                     \/ m \in DOMAIN disk.entry /\ new.entry[m] = disk.entry[m]
  <2>1. /\ Takes(disk, names, src, to) /\ ~IsPrefix(src, to) /\ ~IsPrefix(to, src)
        /\ \A k \in 1 .. Len(to) - 1 : ~IsFile(disk, SubSeq(to, 1, k))
        /\ \A n \in names \intersect DOMAIN disk.entry :
              Exists(disk, RenamedTo(n, src, to)) =>
                (disk.entry[n] = Folder <=> disk.entry[RenamedTo(n, src, to)] = Folder)
    OBVIOUS
  <2> HIDE DEF src, r
  <2>2. Copies(disk, new, names, src, to)
    BY ONLY <1>1, <2>1, to \in Path, CopyOverOK
  <2> HIDE DEF new
  <2>3. QED
    BY ONLY <2>2 DEF Copies
<1>3. \A n \in names : n \in FileName /\ IsPrefix(src, n[1]) /\ RenamedTo(n, src, to) \in Resource(dst)
  <2>1. SUFFICES ASSUME NEW n \in names PROVE n \in FileName /\ IsPrefix(src, n[1]) /\ RenamedTo(n, src, to) \in Resource(dst)
    OBVIOUS
  <2> DEFINE m == RenamedTo(n, src, to)
  <2>2. n \in FileName /\ IsPrefix(src, n[1])
    BY DEF Takes
  <2>3. m \in FileName /\ IsPrefix(to, m[1])
    BY <1>1, TakenFacts
  <2> HIDE DEF m
  <2>4. m[1] \in Seq(Segment)
    BY <2>3, NameFacts
  <2>5. IsPrefix(dst, m[1])
    BY <1>1, <2>3, <2>4, PrefixTransitive
  <2>6. m \in Resource(dst)
    BY <1>1, <2>3, <2>5, TreeFacts
  <2>7. QED
    BY <2>2, <2>6 DEF m
<1>4. \A u \in Task : Alone(u) => \A m \in above : m \in Scope(Req(u)) => Exists(disk, m)
  OBVIOUS
<1>5. image \subseteq Resource(dst)
  BY <1>3
<1> HIDE DEF new, above
<1>6. \A u \in Task : Alone(u) /\ u # t => \A n \in Scope(Req(u)) : Same(disk, new, n)
  <2>1. \A u \in Task : Alone(u) /\ u # t => \A n \in Scope(Req(u)) : n \notin Changes(r)
    BY DEF FSInv, Others, Disjoint
  <2>2. QED
    BY <1>1, <1>2, <1>4, <1>5, <2>1
<1>7. Writes(t, new)
  BY <1>2, <1>6 DEF Writes
<1>8. ASSUME Alone(t), to = dst
      PROVE  Shown(new, S) = Updated(Shown(disk, S), Image(Shown(disk, S), names, src, to))
  <2>1. names \in SUBSET S /\ \A n \in names : n \in FileName /\ IsPrefix(src, n[1]) /\ RenamedTo(n, src, to) \in S
    BY <1>1, <1>3
  <2>2. \A m \in S : m \notin image => Same(disk, new, m)
    BY <1>2, <1>4, <1>8
  <2>3. \A n \in there : /\ RenamedTo(n, src, to) \in DOMAIN new.entry
                         /\ Look(new, RenamedTo(n, src, to)) = Look(disk, n)
    BY <1>2 DEF Look
  <2>4. QED
    BY <1>1, <2>1, <2>2, <2>3, ShownCopied
<1>9. QED
  BY <1>7, <1>8 DEF new

\* What a MOVE renames is below its source, and goes below its destination.
LEMMA RenameHandled ==
    ASSUME FSInv, NEW t \in Task, Busy(t), Req(t).method = "MOVE",
           NEW names \in SUBSET Resource(Req(t).path), Takes(disk, names, Req(t).path, Req(t).dst),
           IsDir(disk, Parent(Req(t).dst)),
           \A n \in DOMAIN disk.entry : \A k \in 0 .. Len(n[1]) - 1 : Self(SubSeq(n[1], 1, k)) \in names => n \in names,
           (\A n \in names : n[2] = "props") \/ Inside(Req(t).dst) \intersect DOMAIN disk.entry = {}
    PROVE  LET r == Req(t)
               new == Rename(disk, names, r.path, r.dst)
               now == Shown(disk, Scope(r))
           IN  /\ Writes(t, new)
               /\ Shown(new, Scope(r)) = Updated(Without(now, names), Image(now, names, r.path, r.dst))
<1> DEFINE r == Req(t)
           src == r.path
           dst == r.dst
           S == Scope(r)
           new == Rename(disk, names, src, dst)
           there == names \intersect DOMAIN disk.entry
           image == {RenamedTo(n, src, dst) : n \in there}
<1>1. /\ DiskOK(disk) /\ r \in Requests /\ src \in Path /\ dst \in Path /\ src \in Seq(Segment) /\ dst \in Seq(Segment)
      /\ ~IsPrefix(src, dst) /\ ~IsPrefix(dst, src)
      /\ Changes(r) = Resource(src) \union Resource(dst) /\ Resource(src) \subseteq S /\ Resource(dst) \subseteq S
  BY BusyFacts, ScopeFacts, ChangesFacts
<1>2. /\ DiskOK(new) /\ new.data = disk.data
      /\ \A n \in there : /\ RenamedTo(n, src, dst) \in DOMAIN new.entry
                          /\ new.entry[RenamedTo(n, src, dst)] = disk.entry[n]
      /\ \A n \in names : n \notin DOMAIN new.entry
      /\ \A m : m \notin names /\ m \notin image => Same(disk, new, m)
  BY <1>1, RenameOK
<1>3. \A n \in names : n \in FileName /\ IsPrefix(src, n[1]) /\ RenamedTo(n, src, dst) \in Resource(dst)
  BY <1>1, ImageNames
<1>4. image \subseteq Resource(dst)
  BY <1>3
<1> HIDE DEF new
<1>5. Writes(t, new)
  <2>1. \A n : n \notin Changes(r) => Same(disk, new, n)
    BY <1>1, <1>2, <1>4
  <2>2. \A n \in DOMAIN new.entry : \/ n \in DOMAIN disk.entry /\ new.entry[n] = disk.entry[n]
                                    \/ \E m \in S \intersect DOMAIN disk.entry : new.entry[n] = disk.entry[m]
    <3>1. SUFFICES ASSUME NEW n \in DOMAIN new.entry
                   PROVE  \/ n \in DOMAIN disk.entry /\ new.entry[n] = disk.entry[n]
                          \/ \E m \in S \intersect DOMAIN disk.entry : new.entry[n] = disk.entry[m]
      OBVIOUS
    <3>2. CASE n \in image
      BY <1>1, <1>2, <3>2
    <3>3. CASE n \notin image
      BY <1>2, <3>1, <3>3 DEF Same
    <3>4. QED
      BY <3>2, <3>3
  <2>3. QED
    BY <1>2, <2>1, <2>2, WritesOwn
<1>6. Shown(new, S) = Updated(Without(Shown(disk, S), names), Image(Shown(disk, S), names, src, dst))
  <2>1. names \in SUBSET S /\ \A n \in names : n \in FileName /\ IsPrefix(src, n[1]) /\ RenamedTo(n, src, dst) \in S
    BY <1>1, <1>3
  <2>2. \A n \in there : /\ RenamedTo(n, src, dst) \in DOMAIN new.entry
                         /\ Look(new, RenamedTo(n, src, dst)) = Look(disk, n)
    BY <1>2 DEF Look, Data
  <2>3. QED
    BY <1>1, <1>2, <2>1, <2>2, ShownRenamed
<1>7. QED
  BY <1>5, <1>6 DEF new

LEMMA EndingReached ==
    ASSUME NEW x, x.request.method \in {"COPY", "MOVE"}, x.at \in Ending, NEW now
    PROVE  Reached(x, now) <=>
             (~Clash(x.request, x.before) => EndReached(x.request, x.before, x.at, now, DoneBy(x.request, x.before)))
<1>1. CASE x.request.method = "COPY"
  BY <1>1 DEF Reached, CopyReached, DoneBy
<1>2. CASE x.request.method = "MOVE"
  <2>1. ~Clash(x.request, x.before)
    BY <1>2 DEF Clash
  <2>2. QED
    BY <1>2, <2>1 DEF Reached, MoveReached, DoneBy
<1>3. QED
  BY <1>1, <1>2

\* The property file goes the way of the resource.
LEMMA TransferHandled ==
    ASSUME FSInv, NEW t \in Task, Busy(t), Req(t).method \in {"COPY", "MOVE"},
           NEW transferred, TransferProperties(t, transferred),
           Exists(disk, PropertiesPath(Req(t).path)) /\ IsDir(disk, Parent(Req(t).dst)) =>
             /\ Writes(t, transferred)
             /\ Alone(t) => Shown(transferred, Scope(Req(t))) = Carried(Req(t), Shown(disk, Scope(Req(t))))
    PROVE  Handled(t)
<1> DEFINE r == Req(t)
           src == PropertiesPath(r.path)
           dst == PropertiesPath(r.dst)
           was == task[t].before
           S == Scope(r)
           now == Shown(disk, S)
           done == DoneBy(r, was)
           calm == Alone(t) /\ ~Clash(r, was)
           removed == Unlink(disk, {dst})
<1>1. /\ DiskOK(disk) /\ r \in Requests /\ task[t].request = r
      /\ r.dst \in Path /\ src \in S /\ dst \in S /\ dst \in Changes(r)
      /\ Self(Parent(r.dst)) \in S
  BY BusyFacts, ScopeFacts, ChangesFacts
<1>2. At(t, "props") \/ At(t, "props_dst") \/ At(t, "props_remove") \/ At(t, "props_last")
  BY DEF TransferProperties, Ask
<1>3. task[t].at \in Ending
  BY <1>2 DEF At, Ending
<1>4. calm => EndReached(r, was, task[t].at, now, done)
  <2>1. Alone(t) => Reached(task[t], now)
    BY BusyFacts
  <2>2. Reached(task[t], now) <=> (~Clash(r, was) => EndReached(r, was, task[t].at, now, done))
    BY <1>1, <1>3, EndingReached
  <2>3. QED
    BY <2>1, <2>2
<1>5. ASSUME NEW at \in Ending, NEW f, calm => EndReached(r, was, at, f, done)
      PROVE  \A x : Alone(t) /\ Gone(t, x, at) => Reached(x, f)
  <2>1. SUFFICES ASSUME NEW x, Alone(t), Gone(t, x, at) PROVE Reached(x, f)
    OBVIOUS
  <2>2. x.request = r /\ x.before = was /\ x.at = at
    BY <1>1, <2>1 DEF Gone
  <2>3. Reached(x, f) <=> (~Clash(r, was) => EndReached(r, was, at, f, done))
    BY <2>2, EndingReached
  <2>4. QED
    BY <1>5, <2>1, <2>3
<1>6. /\ src \in DOMAIN was <=> src \in DOMAIN done
      /\ src \in DOMAIN was <=> src \in DOMAIN Without(done, {dst})
      /\ Fold(was, Parent(r.dst)) => Fold(done, Parent(r.dst)) /\ Fold(Without(done, {dst}), Parent(r.dst))
      /\ dst \notin DOMAIN done => Without(done, {dst}) = done
      /\ src \notin DOMAIN was => done = MadeOf(r, was)
      /\ src \in DOMAIN was => Carried(r, Without(done, {dst})) = MadeOf(r, was)
  BY <1>1, DoneFacts
<1>7. (Exists(disk, src) <=> src \in DOMAIN now) /\ (Exists(disk, dst) <=> dst \in DOMAIN now)
  <2>1. DOMAIN now = S \intersect DOMAIN disk.entry
    BY ShownIs
  <2>2. QED
    BY <1>1, <2>1 DEF Exists
<1>8. Fold(now, Parent(r.dst)) <=> IsDir(disk, Parent(r.dst))
  BY <1>1, ShownToRequest
<1>9. calm => /\ Has(was, r.path) /\ Has(was, Parent(r.dst)) /\ Fold(was, Parent(r.dst)) /\ (Has(was, r.dst) => r.overwrite)
              /\ Outcome(Success(r), MadeOf(r, was)) \in Outcomes(r, was)
  <2>1. SUFFICES ASSUME calm
                 PROVE  /\ Has(was, r.path) /\ Has(was, Parent(r.dst)) /\ Fold(was, Parent(r.dst)) /\ (Has(was, r.dst) => r.overwrite)
                        /\ Outcome(Success(r), MadeOf(r, was)) \in Outcomes(r, was)
    OBVIOUS
  <2>2. Has(was, r.path) /\ Fold(was, Parent(r.dst)) /\ (Has(was, r.dst) => r.overwrite)
    BY <1>4, <2>1 DEF EndReached
  <2>3. Has(was, Parent(r.dst))
    BY <2>2 DEF Fold
  <2>4. Outcome(Success(r), MadeOf(r, was)) \in Outcomes(r, was)
    BY <2>2, <2>3, TransferOutcomes DEF MadeOf
  <2>5. QED
    BY <2>2, <2>3, <2>4
<1>10. Writes(t, disk) /\ Writes(t, removed) /\ Shown(removed, S) = Without(now, {dst})
  <2>1. Writes(t, disk)
    BY WritesNothing
  <2>2. dst # Self(r.dst)
    BY DEF PropertiesPath, Self
  <2>3. /\ Self(Root) \notin {dst}
        /\ \A m \in DOMAIN disk.entry : \A k \in 0 .. Len(m[1]) - 1 : Self(SubSeq(m[1], 1, k)) \in {dst} => m \in {dst}
    BY <1>1, <2>2, FileIsClosed
  <2>4. QED
    BY <1>1, <2>1, <2>3, UnlinkHandled
<1>11. /\ Ending \subseteq Stages(r.method) /\ Ending \intersect (Asking \union Opened \union Asks) = {}
  BY DEF Ending, Stages, Asking, Opened, Asks
<1>12. Success(r) \notin 400 .. 499 /\ 500 \notin 400 .. 499
  BY DEF Success
<1> HIDE DEF r, src, dst, was, S, now, done, removed
<1>13. ASSUME NEW at \in Ending, NEW e, Goto(t, at, e), Writes(t, e), calm => EndReached(r, was, at, Shown(e, S), done)
       PROVE  Handled(t)
  <2>1. \A x : Alone(t) /\ Gone(t, x, at) => Reached(x, Shown(e, S))
    BY <1>5, <1>13
  <2>2. at \in Stages(Req(t).method) /\ at \notin Asking /\ at \notin Opened /\ at \notin Asks /\ task[t].at \notin Opened
    BY <1>3, <1>11 DEF r
  <2>3. QED
    BY <1>13, <2>1, <2>2, GotoHandled DEF r, S
<1>14. ASSUME NEW status \in {Success(r), 500}, NEW e, Answer(t, status, e), Writes(t, e),
              calm => Outcome(status, Shown(e, S)) \in Outcomes(r, was)
       PROVE  Handled(t)
  <2>1. task[t].at \notin Opened /\ status \notin 400 .. 499
    BY <1>3, <1>11, <1>12
  <2>2. Alone(t) /\ ~Clash(Req(t), task[t].before) => Outcome(status, Shown(e, Scope(Req(t)))) \in Outcomes(Req(t), task[t].before)
    BY <1>14 DEF r, was, S
  <2>3. QED
    BY ONLY FSInv, t \in Task, Busy(t), <1>14, <2>1, <2>2, AnswerHandled
<1> HIDE DEF calm
<1>15. {"props", "props_dst", "props_remove", "props_last"} = Ending
  BY DEF Ending
<1>16. CASE At(t, "props")
  <2>1. task[t].at = "props"
    BY <1>16 DEF At
  <2>2. IF Exists(disk, src) THEN Goto(t, "props_dst", disk) ELSE Answer(t, Success(r), disk)
    BY <2>1 DEF TransferProperties, Ask, At, r, src
  <2>3. calm => now = done
    BY <1>4, <2>1 DEF EndReached
  <2>4. CASE Exists(disk, src)
    <3>1. calm => EndReached(r, was, "props_dst", now, done)
      BY <1>4, <1>6, <1>7, <2>1, <2>3, <2>4 DEF EndReached, src
    <3>2. QED
      BY <1>10, <1>13, <1>15, <2>2, <2>4, <3>1 DEF now
  <2>5. CASE ~Exists(disk, src)
    <3>1. calm => Outcome(Success(r), now) \in Outcomes(r, was)
      BY <1>6, <1>7, <1>9, <2>3, <2>5
    <3>2. QED
      BY <1>10, <1>14, <2>2, <2>5, <3>1 DEF now
  <2>6. QED
    BY <2>4, <2>5
<1>17. CASE At(t, "props_dst")
  <2>1. task[t].at = "props_dst"
    BY <1>17 DEF At
  <2>2. IF Exists(disk, dst) THEN Goto(t, "props_remove", disk) ELSE Goto(t, "props_last", disk)
    BY <2>1 DEF TransferProperties, Ask, At, r, dst
  <2>3. calm => now = done /\ src \in DOMAIN was
    BY <1>4, <2>1 DEF EndReached, src
  <2>4. CASE Exists(disk, dst)
    <3>1. calm => EndReached(r, was, "props_remove", now, done)
      BY <1>4, <1>7, <2>1, <2>3, <2>4 DEF EndReached, src, dst
    <3>2. QED
      BY <1>10, <1>13, <1>15, <2>2, <2>4, <3>1 DEF now
  <2>5. CASE ~Exists(disk, dst)
    <3>1. calm => now = Without(done, {dst})
      BY <1>6, <1>7, <2>3, <2>5
    <3>2. calm => EndReached(r, was, "props_last", now, done)
      BY <1>4, <2>1, <2>3, <3>1 DEF EndReached, src, dst
    <3>3. QED
      BY <1>10, <1>13, <1>15, <2>2, <2>5, <3>2 DEF now
  <2>6. QED
    BY <2>4, <2>5
<1>18. CASE At(t, "props_remove")
  <2>1. task[t].at = "props_remove"
    BY <1>18 DEF At
  <2>2. IF Exists(disk, dst) THEN Goto(t, "props_last", removed) ELSE Answer(t, 500, disk)
    BY <2>1 DEF TransferProperties, Ask, At, Raise, ReplacedProperties, r, dst, removed
  <2>3. calm => now = done /\ src \in DOMAIN was /\ dst \in DOMAIN now
    BY <1>4, <2>1 DEF EndReached, src, dst
  <2>4. CASE Exists(disk, dst)
    <3>1. calm => EndReached(r, was, "props_last", Shown(removed, S), done)
      BY <1>4, <1>10, <2>1, <2>3 DEF EndReached, src, dst
    <3>2. QED
      BY <1>10, <1>13, <1>15, <2>2, <2>4, <3>1
  <2>5. CASE ~Exists(disk, dst)
    <3>1. ~calm
      BY <1>7, <2>3, <2>5
    <3>2. QED
      BY <1>10, <1>14, <2>2, <2>5, <3>1
  <2>6. QED
    BY <2>4, <2>5
<1>19. CASE At(t, "props_last")
  <2>1. task[t].at = "props_last"
    BY <1>19 DEF At
  <2>2. IF Exists(disk, src) /\ IsDir(disk, Parent(r.dst)) THEN Answer(t, Success(r), transferred) ELSE Answer(t, 500, disk)
    BY <2>1 DEF TransferProperties, Ask, At, Raise, Creatable, r, src
  <2>3. calm => now = Without(done, {dst}) /\ src \in DOMAIN was
    BY <1>4, <2>1 DEF EndReached, src, dst
  <2>4. CASE Exists(disk, src) /\ IsDir(disk, Parent(r.dst))
    <3>1. Writes(t, transferred) /\ (calm => Shown(transferred, S) = Carried(r, now))
      BY <2>4 DEF r, src, S, now, calm
    <3>2. calm => Outcome(Success(r), Shown(transferred, S)) \in Outcomes(r, was)
      BY <1>6, <1>9, <2>3, <3>1
    <3>3. QED
      BY <1>14, <2>2, <2>4, <3>1, <3>2
  <2>5. CASE ~(Exists(disk, src) /\ IsDir(disk, Parent(r.dst)))
    <3>1. ~calm
      BY <1>6, <1>7, <1>8, <1>9, <2>3, <2>5
    <3>2. QED
      BY <1>10, <1>14, <2>2, <2>5, <3>1
  <2>6. QED
    BY <2>4, <2>5
<1>20. QED
  BY <1>2, <1>16, <1>17, <1>18, <1>19

\* A MOVE has looked, and remembers what it saw.
LEMMA SeeHandled ==
    ASSUME FSInv, NEW t \in Task, Busy(t), Req(t).method = "MOVE",
           NEW at \in Asking, NEW what, NEW answer, NEW next \in Asking \intersect Stages("MOVE"),
           See(t, at, what, answer, next),
           Alone(t) => MoveReached(Req(t), task[t].before, next,
                                   IF answer THEN task[t].seen \union {what} ELSE task[t].seen,
                                   Shown(disk, Scope(Req(t))))
    PROVE  Handled(t)
<1> DEFINE seen == IF answer THEN task[t].seen \union {what} ELSE task[t].seen
           y == [task[t] EXCEPT !.at = next, !.seen = seen]
           now == Shown(disk, Scope(Req(t)))
<1>1. /\ Running(task[t], disk) /\ task[t].request = Req(t) /\ task[t].at = at
      /\ (task[t].object = NoFile <=> task[t].at \notin Opened) /\ (task[t].alone <=> Alone(t))
  BY BusyFacts DEF See, At
<1>2. GoOn(t, y, disk)
  BY DEF See
<1>3. /\ DOMAIN task[t] = Field /\ task[t] = [f \in Field |-> task[t][f]]
      /\ task[t].parts \in 0 .. MaxParts - 1 /\ task[t].sent \in Seq(Block)
  BY <1>1 DEF Running
<1>4. Asking \intersect Opened = {} /\ Stages("MOVE") \intersect Asks = {}
  BY DEF Asking, Opened, Stages, Asks, Ending
<1> HIDE DEF seen
<1>5. /\ DOMAIN y = Field /\ y = [f \in Field |-> y[f]] /\ y.at = next /\ y.seen = seen
      /\ \A f \in Field : f # "at" /\ f # "seen" => y[f] = task[t][f]
  BY <1>3 DEF Field
<1> HIDE DEF y
<1>6. /\ y.request = Req(t) /\ y.alone = task[t].alone /\ y.parts = task[t].parts /\ y.sent = task[t].sent
      /\ y.before = task[t].before /\ y.object = task[t].object
  BY <1>1, <1>5 DEF Field
<1>7. y.object = NoFile /\ y.at \notin Opened /\ y.at \notin Asks
  BY <1>1, <1>4, <1>5, <1>6
<1>8. Alone(t) => Reached(y, now)
  BY <1>5, <1>6 DEF Reached, seen
<1>9. Writes(t, disk)
  BY WritesNothing
<1>10. QED
  BY <1>1, <1>2, <1>3, <1>5, <1>6, <1>7, <1>8, <1>9, GoOnHandled DEF now

LEMMA MoveHandled ==
    ASSUME FSInv, NEW t \in Task, Busy(t), Req(t).method = "MOVE", Move(t)
    PROVE  Handled(t)
<1> DEFINE r == Req(t)
           src == r.path
           dst == r.dst
           was == task[t].before
           seen == task[t].seen
           S == Scope(r)
           now == Shown(disk, S)
           clear == IF "dst" \notin seen THEN "rename" ELSE IF "dst_dir" \in seen THEN "move_rmtree" ELSE "move_remove"
<1>1. /\ DiskOK(disk) /\ r \in Requests /\ task[t].request = r /\ src \in Path /\ dst \in Path
      /\ Self(src) \in S /\ Self(dst) \in S /\ Self(Parent(dst)) \in S
      /\ Changes(r) = Resource(src) \union Resource(dst)
  BY BusyFacts, ScopeFacts, ChangesFacts
<1>2. Alone(t) => MoveReached(r, was, task[t].at, seen, now)
  BY BusyFacts DEF Reached
<1>3. /\ Has(now, src) <=> Exists(disk, Self(src))
      /\ Has(now, dst) <=> Exists(disk, Self(dst))
      /\ Fold(now, src) <=> IsDir(disk, src)
      /\ Fold(now, dst) <=> IsDir(disk, dst)
      /\ IsFile(disk, dst) <=> Exists(disk, Self(dst)) /\ ~IsDir(disk, dst)
      /\ Has(now, Parent(dst)) <=> Exists(disk, Self(Parent(dst)))
      /\ Fold(now, Parent(dst)) <=> IsDir(disk, Parent(dst))
  BY <1>1, ShownToRequest
<1>4. /\ ~Has(was, src) => Outcome(403, was) \in Outcomes(r, was)
      /\ Has(was, src) /\ ~Has(was, Parent(dst)) => Outcome(409, was) \in Outcomes(r, was)
      /\ Has(was, src) /\ Has(was, Parent(dst)) /\ Has(was, dst) /\ ~r.overwrite => Outcome(412, was) \in Outcomes(r, was)
      /\ Has(was, src) /\ Has(was, Parent(dst)) /\ (Has(was, dst) => r.overwrite) /\ ~Fold(was, Parent(dst))
           => Outcome(500, was) \in Outcomes(r, was)
  BY TransferOutcomes
<1>5. ~Clash(r, was)
  BY DEF Clash
<1>6. ASSUME NEW at, NEW f, Alone(t) => MoveReached(r, was, at, seen, f)
      PROVE  \A x : Alone(t) /\ Gone(t, x, at) => Reached(x, f)
  BY <1>1, <1>6 DEF Gone, Reached
<1>7. /\ {"move", "move_dst", "move_dst_kind", "move_parent"} \subseteq Asking \intersect Stages("MOVE")
      /\ {"move_rmtree", "move_remove", "rename", "props"} \subseteq Stages("MOVE") \ Asking
      /\ {"move", "move_dst", "move_dst_kind", "move_parent", "move_rmtree", "move_remove", "rename", "props"}
           \intersect (Opened \union Asks) = {}
      /\ "props" \in Ending
      /\ {"move", "move_dst", "move_dst_kind", "move_parent", "move_rmtree", "move_remove", "rename"} \intersect Ending = {}
  BY DEF Stages, Asking, Opened, Asks, Ending
<1>8. /\ Writes(t, disk)
      /\ Writes(t, Unlink(disk, Tree(dst))) /\ Shown(Unlink(disk, Tree(dst)), S) = Without(now, Tree(dst))
      /\ ~IsDir(disk, dst) => /\ Writes(t, Unlink(disk, {Self(dst)}))
                              /\ Shown(Unlink(disk, {Self(dst)}), S) = Without(now, {Self(dst)})
                              /\ Without(now, {Self(dst)}) = Without(now, Tree(dst))
                              /\ ~Exists(disk, Self(dst)) => Without(now, Tree(dst)) = now
  <2>1. Writes(t, disk)
    BY WritesNothing
  <2>2. Tree(dst) \subseteq Changes(r) /\ {Self(dst)} \subseteq Changes(r)
    BY <1>1 DEF Resource, Tree
  <2>3. Writes(t, Unlink(disk, Tree(dst))) /\ Shown(Unlink(disk, Tree(dst)), S) = Without(now, Tree(dst))
    BY <1>1, <2>2, TreeIsClosed, UnlinkHandled
  <2>4. ASSUME ~IsDir(disk, dst)
        PROVE  /\ Writes(t, Unlink(disk, {Self(dst)})) /\ Shown(Unlink(disk, {Self(dst)}), S) = Without(now, {Self(dst)})
    BY <1>1, <2>2, <2>4, FileIsClosed, UnlinkHandled
  <2>5. ASSUME ~IsDir(disk, dst)
        PROVE  /\ Without(now, {Self(dst)}) = Without(now, Tree(dst))
               /\ ~Exists(disk, Self(dst)) => Without(now, Tree(dst)) = now
    <3>1. Inside(dst) \intersect DOMAIN disk.entry = {}
      BY <1>1, <2>5, NothingInside
    <3>2. DOMAIN now = S \intersect DOMAIN disk.entry /\ now = [n \in DOMAIN now |-> now[n]]
      <4>1. now = [n \in S \intersect DOMAIN disk.entry |-> Look(disk, n)]
        BY ShownIs
      <4> HIDE DEF now
      <4>2. QED
        BY <4>1
    <3>3. DOMAIN now \ Tree(dst) = DOMAIN now \ {Self(dst)}
      BY <3>1, <3>2 DEF Tree
    <3>4. ~Exists(disk, Self(dst)) => DOMAIN now \ Tree(dst) = DOMAIN now
      BY <3>2, <3>3 DEF Exists
    <3> HIDE DEF now
    <3>5. Without(now, {Self(dst)}) = Without(now, Tree(dst))
      BY <3>3 DEF Without, Restrict
    <3>6. ~Exists(disk, Self(dst)) => Without(now, Tree(dst)) = [n \in DOMAIN now |-> now[n]]
      BY <3>4 DEF Without, Restrict
    <3>7. QED
      BY <3>2, <3>5, <3>6
  <2>6. QED
    BY <2>1, <2>3, <2>4, <2>5
<1> HIDE DEF r, src, dst, was, seen, S, now, clear
<1>9. ASSUME NEW at \in {"move_rmtree", "move_remove", "rename", "props"}, NEW e, Goto(t, at, e), Writes(t, e),
             task[t].at \in {"move_parent", "move_rmtree", "move_remove", "rename"},
             Alone(t) => MoveReached(r, was, at, seen, Shown(e, S))
      PROVE  Handled(t)
  <2>1. \A x : Alone(t) /\ Gone(t, x, at) => Reached(x, Shown(e, S))
    BY <1>6, <1>9
  <2>2. at \in Stages(Req(t).method) /\ at \notin Asking /\ at \notin Opened /\ at \notin Asks /\ task[t].at \notin Opened
    BY <1>7, <1>9
  <2>3. QED
    BY <1>9, <2>1, <2>2, GotoHandled DEF r, S
<1>10. ASSUME NEW status \in {403, 409, 412, 500}, Answer(t, status, disk),
              task[t].at \in {"move_dst_kind", "move_parent", "move_rmtree", "move_remove", "rename"},
              status # 500 => task[t].at \in {"move_dst_kind", "move_parent"},
              Alone(t) => Outcome(status, now) \in Outcomes(r, was)
       PROVE  Handled(t)
  <2>1. task[t].at \notin Opened /\ (status \in 400 .. 499 => task[t].at \in Asking)
    BY <1>7, <1>10
  <2>2. QED
    BY <1>10, <2>1, RefuseHandled DEF r, was, S, now
<1>11. CASE See(t, "move", "src", Exists(disk, Self(src)), "move_dst")
  <2>1. task[t].at = "move"
    BY <1>11 DEF See, At
  <2>2. Alone(t) => now = was /\ "src" \notin seen /\ "dst" \notin seen /\ "dst_dir" \notin seen
    BY <1>2, <1>7, <2>1 DEF MoveReached
  <2>3. Alone(t) => MoveReached(r, was, "move_dst", IF Exists(disk, Self(src)) THEN seen \union {"src"} ELSE seen, now)
    BY <1>3, <1>7, <2>2 DEF MoveReached, src, dst
  <2>4. QED
    BY <1>7, <1>11, <2>3, SeeHandled DEF r, was, seen, S, now
<1>12. CASE See(t, "move_dst", "dst", Exists(disk, Self(dst)), "move_dst_kind")
  <2>1. task[t].at = "move_dst"
    BY <1>12 DEF See, At
  <2>2. Alone(t) => now = was /\ ("src" \in seen <=> Has(was, src)) /\ "dst" \notin seen /\ "dst_dir" \notin seen
    BY <1>2, <1>7, <2>1 DEF MoveReached, src
  <2>3. Alone(t) => MoveReached(r, was, "move_dst_kind", IF Exists(disk, Self(dst)) THEN seen \union {"dst"} ELSE seen, now)
    BY <1>3, <1>7, <2>2 DEF MoveReached, src, dst
  <2>4. QED
    BY <1>7, <1>12, <2>3, SeeHandled DEF r, was, seen, S, now
<1>13. CASE See(t, "move_dst_kind", "dst_dir", IsDir(disk, dst), "move_parent") /\ "src" \in seen
  <2>1. task[t].at = "move_dst_kind"
    BY <1>13 DEF See, At
  <2>2. Alone(t) => now = was /\ Has(was, src) /\ ("dst" \in seen <=> Has(was, dst)) /\ "dst_dir" \notin seen
    BY <1>2, <1>7, <1>13, <2>1 DEF MoveReached, src, dst
  <2>3. Alone(t) => MoveReached(r, was, "move_parent", IF IsDir(disk, dst) THEN seen \union {"dst_dir"} ELSE seen, now)
    BY <1>3, <1>7, <1>13, <2>2 DEF MoveReached, src, dst
  <2>4. QED
    BY <1>7, <1>13, <2>3, SeeHandled DEF r, was, seen, S, now
<1>14. CASE At(t, "move_dst_kind") /\ "src" \notin seen /\ Answer(t, 403, disk)
  <2>1. task[t].at = "move_dst_kind"
    BY <1>14 DEF At
  <2>2. Alone(t) => now = was /\ ~Has(was, src)
    BY <1>2, <1>7, <1>14, <2>1 DEF MoveReached, src
  <2>3. QED
    BY <1>4, <1>10, <1>14, <2>1, <2>2
<1>15. CASE /\ At(t, "move_parent")
            /\ IF Exists(disk, Self(Parent(dst)))
               THEN IF "dst" \in seen /\ ~r.overwrite THEN Answer(t, 412, disk) ELSE Goto(t, clear, disk)
               ELSE Answer(t, 409, disk)
  <2>1. task[t].at = "move_parent"
    BY <1>15 DEF At
  <2>2. Alone(t) => /\ now = was /\ Has(was, src) /\ ("src" \in seen)
                    /\ ("dst" \in seen <=> Has(was, dst)) /\ ("dst_dir" \in seen <=> Fold(was, dst))
    BY <1>2, <1>7, <2>1 DEF MoveReached, src, dst
  <2>3. CASE ~Exists(disk, Self(Parent(dst)))
    <3>1. Alone(t) => Outcome(409, now) \in Outcomes(r, was)
      BY <1>3, <1>4, <2>2, <2>3
    <3>2. QED
      BY <1>10, <1>15, <2>1, <2>3, <3>1
  <2>4. CASE Exists(disk, Self(Parent(dst))) /\ "dst" \in seen /\ ~r.overwrite
    <3>1. Alone(t) => Outcome(412, now) \in Outcomes(r, was)
      BY <1>3, <1>4, <2>2, <2>4
    <3>2. QED
      BY <1>10, <1>15, <2>1, <2>4, <3>1
  <2>5. CASE Exists(disk, Self(Parent(dst))) /\ ~("dst" \in seen /\ ~r.overwrite)
    <3>1. clear \in {"move_rmtree", "move_remove", "rename"}
      BY DEF clear
    <3>2. Alone(t) => MoveReached(r, was, clear, seen, now)
      <4>1. SUFFICES ASSUME Alone(t) PROVE MoveReached(r, was, clear, seen, now)
        OBVIOUS
      <4>2. CASE "dst" \notin seen
        <5>1. ~Has(was, dst) /\ now = Without(was, Tree(dst)) /\ now = was
          BY <1>3, <1>8, <2>2, <4>1, <4>2 DEF Fold
        <5>2. clear = "rename"
          BY <4>2 DEF clear
        <5>3. QED
          BY <1>3, <1>7, <2>2, <2>5, <4>1, <4>2, <5>1, <5>2 DEF MoveReached, src, dst
      <4>3. CASE "dst" \in seen
        <5>1. clear = IF "dst_dir" \in seen THEN "move_rmtree" ELSE "move_remove"
          BY <4>3 DEF clear
        <5>2. QED
          BY <1>3, <1>7, <2>2, <2>5, <4>1, <4>3, <5>1 DEF MoveReached, src, dst
      <4>4. QED
        BY <4>2, <4>3
    <3>3. QED
      BY <1>8, <1>9, <1>15, <2>1, <2>5, <3>1, <3>2 DEF now
  <2>6. QED
    BY <2>3, <2>4, <2>5
<1>16. CASE /\ At(t, "move_rmtree")
            /\ IF IsDir(disk, dst) THEN Goto(t, "rename", Unlink(disk, Tree(dst))) ELSE Answer(t, 500, disk)
  <2>1. task[t].at = "move_rmtree"
    BY <1>16 DEF At
  <2>2. Alone(t) => /\ now = was /\ Has(was, src) /\ ("src" \in seen) /\ Fold(was, dst)
                    /\ ("dst" \in seen <=> Has(was, dst)) /\ ("dst_dir" \in seen <=> Fold(was, dst))
                    /\ Has(was, Parent(dst)) /\ (Has(was, dst) => r.overwrite)
    BY <1>2, <1>7, <2>1 DEF MoveReached, src, dst
  <2>3. CASE IsDir(disk, dst)
    <3>1. Alone(t) => Fold(was, Parent(dst))
      <4>1. Self(dst) \in FileName /\ Self(dst)[1] = dst
        BY <1>1 DEF Self, FileName
      <4>2. IsDir(disk, Parent(dst))
        BY <1>1, <2>3, <4>1, ParentIsThere DEF IsDir
      <4>3. QED
        BY <1>3, <2>2, <4>2
    <3>2. Alone(t) => MoveReached(r, was, "rename", seen, Shown(Unlink(disk, Tree(dst)), S))
      BY <1>7, <1>8, <2>2, <3>1 DEF MoveReached, src, dst
    <3>3. QED
      BY <1>8, <1>9, <1>16, <2>1, <2>3, <3>2
  <2>4. CASE ~IsDir(disk, dst)
    <3>1. ~Alone(t)
      BY <1>3, <2>2, <2>4
    <3>2. QED
      BY <1>10, <1>16, <2>1, <2>4, <3>1
  <2>5. QED
    BY <2>3, <2>4
<1>17. CASE /\ At(t, "move_remove")
            /\ IF IsFile(disk, dst) THEN Goto(t, "rename", Unlink(disk, {Self(dst)})) ELSE Answer(t, 500, disk)
  <2>1. task[t].at = "move_remove"
    BY <1>17 DEF At
  <2>2. Alone(t) => /\ now = was /\ Has(was, src) /\ ("src" \in seen) /\ Has(was, dst) /\ ~Fold(was, dst)
                    /\ ("dst" \in seen <=> Has(was, dst)) /\ ("dst_dir" \in seen <=> Fold(was, dst))
                    /\ Has(was, Parent(dst)) /\ (Has(was, dst) => r.overwrite)
    BY <1>2, <1>7, <2>1 DEF MoveReached, src, dst
  <2>3. CASE IsFile(disk, dst)
    <3>1. Alone(t) => Fold(was, Parent(dst))
      <4>1. Self(dst) \in FileName /\ Self(dst)[1] = dst
        BY <1>1 DEF Self, FileName
      <4>2. IsDir(disk, Parent(dst))
        BY <1>1, <2>3, <4>1, ParentIsThere DEF IsFile
      <4>3. QED
        BY <1>3, <2>2, <4>2
    <3>2. Alone(t) => MoveReached(r, was, "rename", seen, Shown(Unlink(disk, {Self(dst)}), S))
      BY <1>3, <1>7, <1>8, <2>2, <2>3, <3>1 DEF MoveReached, src, dst
    <3>3. QED
      BY <1>3, <1>8, <1>9, <1>17, <2>1, <2>3, <3>2
  <2>4. CASE ~IsFile(disk, dst)
    <3>1. ~Alone(t)
      BY <1>3, <2>2, <2>4
    <3>2. QED
      BY <1>10, <1>17, <2>1, <2>4, <3>1
  <2>5. QED
    BY <2>3, <2>4
<1>18. CASE /\ At(t, "rename")
            /\ IF Renamable(r) THEN Goto(t, "props", Rename(disk, Tree(src), src, dst)) ELSE Answer(t, 500, disk)
  <2> DEFINE new == Rename(disk, Tree(src), src, dst)
  <2>1. task[t].at = "rename"
    BY <1>18 DEF At
  <2>2. Alone(t) => /\ now = Without(was, Tree(dst)) /\ Has(was, src) /\ (now = was \/ Fold(was, Parent(dst)))
                    /\ Has(was, Parent(dst)) /\ (Has(was, dst) => r.overwrite)
    BY <1>2, <1>7, <2>1 DEF MoveReached, src, dst
  <2>3. /\ \A n \in Resource(src) : n \in FileName /\ IsPrefix(src, n[1]) /\ n \notin Resource(dst)
        /\ Self(src) \in Tree(src) /\ Self(dst) \in Tree(dst)
        /\ Tree(src) \subseteq Resource(src) /\ Tree(dst) \subseteq Resource(dst)
        /\ Self(Parent(dst)) \notin Tree(dst) /\ Self(src) \notin Tree(dst)
    <3>1. /\ \A n \in Resource(src) : n \in FileName /\ IsPrefix(src, n[1]) /\ n \notin Resource(dst)
          /\ \A p \in {src, dst} : Resource(p) = Tree(p) \union {PropertiesPath(p)} /\ Self(p) \in Tree(p)
          /\ Self(Parent(dst)) \notin Resource(dst)
      BY <1>1, ImageNames DEF src, dst, r
    <3>2. QED
      BY <3>1
  <2>4. Alone(t) => /\ Has(now, src) /\ ~Has(now, dst)
                    /\ (Fold(was, Parent(dst)) <=> Fold(now, Parent(dst)))
    <3>1. LET w == Without(was, Tree(dst)) IN DOMAIN w = DOMAIN was \ Tree(dst) /\ \A x \in DOMAIN w : w[x] = was[x]
      BY WithoutFacts
    <3>2. Alone(t) => DOMAIN now = DOMAIN was \ Tree(dst) /\ \A x \in DOMAIN now : now[x] = was[x]
      BY <2>2, <3>1
    <3>3. QED
      BY <2>2, <2>3, <3>2 DEF Has, Fold
  <2>5. CASE Renamable(r)
    <3>1. IsDir(disk, Parent(dst)) /\ Inside(dst) \intersect DOMAIN disk.entry = {}
      <4>1. IsDir(disk, Parent(dst)) /\ (IsDir(disk, dst) => Inside(dst) \intersect DOMAIN disk.entry = {})
        BY <2>5 DEF Renamable, Creatable, IsDir, dst
      <4>2. ~IsDir(disk, dst) => Inside(dst) \intersect DOMAIN disk.entry = {}
        BY <1>1, NothingInside
      <4>3. QED
        BY <4>1, <4>2
    <3>2. Takes(disk, Tree(src), src, dst)
      BY <1>1, TreeIsTaken DEF src, dst, r
    <3>3. \A n \in DOMAIN disk.entry : \A k \in 0 .. Len(n[1]) - 1 : Self(SubSeq(n[1], 1, k)) \in Tree(src) => n \in Tree(src)
      BY <1>1, TreeIsClosed
    <3>4. Writes(t, new) /\ Shown(new, S) = Updated(Without(now, Tree(src)), Image(now, Tree(src), src, dst))
      BY <2>3, <3>1, <3>2, <3>3, RenameHandled DEF r, src, dst, S, now
    <3> HIDE DEF new
    <3>5. Alone(t) => Shown(new, S) = DoneBy(r, was)
      <4>1. SUFFICES ASSUME Alone(t) PROVE Shown(new, S) = DoneBy(r, was)
        OBVIOUS
      <4>2. Without(now, Tree(src)) = Without(was, Tree(dst) \union Tree(src))
        BY <2>2, <4>1, WithoutBoth
      <4>3. Image(now, Tree(src), src, dst) = Image(was, Tree(src), src, dst)
        <5>1. LET w == Without(was, Tree(dst)) IN DOMAIN w = DOMAIN was \ Tree(dst) /\ \A x \in DOMAIN w : w[x] = was[x]
          BY WithoutFacts
        <5>2. DOMAIN now = DOMAIN was \ Tree(dst) /\ \A x \in DOMAIN now : now[x] = was[x]
          BY <2>2, <4>1, <5>1
        <5>3. \A n \in Tree(src) : n \notin Tree(dst)
          BY <2>3
        <5>4. /\ Tree(src) \intersect DOMAIN was = Tree(src) \intersect DOMAIN now
              /\ \A n \in Tree(src) \intersect DOMAIN was : now[n] = was[n]
          BY <5>2, <5>3
        <5>5. src \in Seq(Segment) /\ dst \in Seq(Segment)
              /\ \A n \in Tree(src) \union Tree(src) : n \in FileName /\ IsPrefix(src, n[1])
          BY <1>1, <2>3, PathFacts
        <5>6. QED
          BY ONLY <5>4, <5>5, ImageSame
      <4>4. QED
        BY <3>4, <4>2, <4>3 DEF DoneBy, r, src, dst
    <3>6. Alone(t) => MoveReached(r, was, "props", seen, Shown(new, S))
      <4>1. Alone(t) => EndReached(r, was, "props", Shown(new, S), DoneBy(r, was))
        BY <1>3, <2>2, <2>4, <3>1, <3>5 DEF EndReached, src, dst
      <4>2. DoneBy(r, was) = Updated(Without(was, Tree(r.dst) \union Tree(r.path)), Image(was, Tree(r.path), r.path, r.dst))
        BY DEF DoneBy, r
      <4>3. QED
        BY <1>7, <4>1, <4>2 DEF MoveReached
    <3>7. QED
      BY <1>9, <1>18, <2>1, <2>5, <3>4, <3>6 DEF new
  <2>6. CASE ~Renamable(r)
    <3>1. Alone(t) => ~IsDir(disk, Parent(dst))
      BY <1>3, <2>4, <2>6 DEF Renamable, Creatable, src, dst
    <3>2. Alone(t) => Outcome(500, now) \in Outcomes(r, was)
      BY <1>3, <1>4, <2>2, <2>4, <3>1
    <3>3. QED
      BY <1>10, <1>18, <2>1, <2>6, <3>2
  <2>7. QED
    BY <2>5, <2>6
<1>19. CASE TransferProperties(t, Rename(disk, {PropertiesPath(src)}, src, dst))
  <2> DEFINE names == {PropertiesPath(src)}
             new == Rename(disk, names, src, dst)
  <2>1. ASSUME IsDir(disk, Parent(dst))
        PROVE  Writes(t, new) /\ Shown(new, S) = Carried(r, now)
    <3>1. Takes(disk, names, src, dst)
      BY <1>1, TreeIsTaken DEF src, dst, r
    <3>2. names \in SUBSET Resource(src) /\ \A n \in names : n[2] = "props"
      BY DEF Resource, PropertiesPath
    <3>3. PropertiesPath(src) # Self(src)
      BY DEF PropertiesPath, Self
    <3>4. \A n \in DOMAIN disk.entry : \A k \in 0 .. Len(n[1]) - 1 : Self(SubSeq(n[1], 1, k)) \in names => n \in names
      BY <1>1, <3>3, FileIsClosed
    <3> HIDE DEF names
    <3>5. Writes(t, new) /\ Shown(new, S) = Updated(Without(now, names), Image(now, names, src, dst))
      BY <2>1, <3>1, <3>2, <3>4, RenameHandled DEF r, src, dst, S, now
    <3> HIDE DEF new
    <3>6. QED
      BY <3>5 DEF Carried, names, r, src, dst
  <2>2. QED
    BY <1>19, <2>1, TransferHandled DEF r, src, dst, S, now
<1>20. QED
  <2>1. \/ See(t, "move", "src", Exists(disk, Self(src)), "move_dst")
        \/ See(t, "move_dst", "dst", Exists(disk, Self(dst)), "move_dst_kind")
        \/ See(t, "move_dst_kind", "dst_dir", IsDir(disk, dst), "move_parent") /\ "src" \in seen
        \/ At(t, "move_dst_kind") /\ "src" \notin seen /\ Answer(t, 403, disk)
        \/ /\ At(t, "move_parent")
           /\ IF Exists(disk, Self(Parent(dst)))
              THEN IF "dst" \in seen /\ ~r.overwrite THEN Answer(t, 412, disk) ELSE Goto(t, clear, disk)
              ELSE Answer(t, 409, disk)
        \/ /\ At(t, "move_rmtree")
           /\ IF IsDir(disk, dst) THEN Goto(t, "rename", Unlink(disk, Tree(dst))) ELSE Answer(t, 500, disk)
        \/ /\ At(t, "move_remove")
           /\ IF IsFile(disk, dst) THEN Goto(t, "rename", Unlink(disk, {Self(dst)})) ELSE Answer(t, 500, disk)
        \/ /\ At(t, "rename")
           /\ IF Renamable(r) THEN Goto(t, "props", Rename(disk, Tree(src), src, dst)) ELSE Answer(t, 500, disk)
        \/ TransferProperties(t, Rename(disk, {PropertiesPath(src)}, src, dst))
    BY DEF Move, Ask, Raise, RefuseOverwrite, r, src, dst, seen, clear
  <2>2. QED
    BY ONLY <2>1, <1>11, <1>12, <1>13, <1>14, <1>15, <1>16, <1>17, <1>18, <1>19

\* A file copied onto a folder goes into it: not above, not below where it is.
LEMMA CopiedInto ==
    ASSUME NEW r \in Requests, r.method \in {"COPY", "MOVE"}
    PROVE  LET to == Append(r.dst, Name(r.path))
           IN  /\ to \in Path /\ IsPrefix(r.dst, to) /\ ~IsPrefix(r.path, to) /\ ~IsPrefix(to, r.path)
               /\ Relocated(r.path, r.path, to) = to /\ Parent(to) = r.dst
<1> DEFINE src == r.path
           dst == r.dst
           to == Append(dst, Name(src))
<1>1. /\ src \in Seq(Segment) /\ dst \in Seq(Segment) /\ ~IsPrefix(src, dst) /\ ~IsPrefix(dst, src)
  BY ScopeFacts
<1>2. to \in Path
  BY ProviderAssumption
<1>3. to \in Seq(Segment)
  BY <1>2, PathFacts
<1>4. Len(to) = Len(dst) + 1 /\ \A i \in 1 .. Len(dst) : to[i] = dst[i]
  <2>1. \A x : Len(Append(dst, x)) = Len(dst) + 1 /\ \A i \in 1 .. Len(dst) : Append(dst, x)[i] = dst[i]
    BY <1>1
  <2>2. QED
    BY <2>1
<1> HIDE DEF src, dst, to
<1>5. IsPrefix(dst, to)
  BY <1>1, <1>3, <1>4, PrefixBySegment
<1>6. ~IsPrefix(to, src)
  BY <1>1, <1>3, <1>5, PrefixTransitive
<1>7. ~IsPrefix(src, to)
  BY <1>1, <1>3, <1>5, Separate
<1>8. Relocated(src, src, to) = to
  BY <1>1, <1>3, RelocatedTop
<1>9. Parent(to) = dst
  <2>1. Parent(to) = SubSeq(to, 1, Len(to) - 1) /\ Len(to) - 1 = Len(dst) /\ Len(dst) \in Nat
    BY <1>1, <1>2, <1>4, PathFacts
  <2>2. Len(dst) \in 0 .. Len(to)
    BY <1>1, <1>4
  <2>3. SubSeq(to, 1, Len(dst)) = dst
    BY <1>3, <1>1, <1>5, PrefixIsFirst
  <2>4. QED
    BY <2>1, <2>3
<1>10. QED
  BY <1>2, <1>5, <1>6, <1>7, <1>8, <1>9 DEF src, dst, to

\* Into a folder that is there one file is copied.
LEMMA CopyOneHandled ==
    ASSUME FSInv, NEW t \in Task, Busy(t), Req(t).method = "COPY",
           NEW n \in {Self(Req(t).path), PropertiesPath(Req(t).path)}, NEW to \in Path, IsPrefix(Req(t).dst, to),
           Takes(disk, {n}, Req(t).path, to), ~IsPrefix(Req(t).path, to), ~IsPrefix(to, Req(t).path),
           IsDir(disk, Parent(to)), Exists(disk, n), disk.entry[n] # Folder,
           n = Self(Req(t).path) => ~IsDir(disk, to)
    PROVE  LET new == CopyOver(disk, {n}, Req(t).path, to)
               now == Shown(disk, Scope(Req(t)))
           IN  /\ Writes(t, new)
               /\ Alone(t) /\ to = Req(t).dst =>
                    Shown(new, Scope(Req(t))) = Updated(now, Image(now, {n}, Req(t).path, to))
<1> DEFINE src == Req(t).path
           m == RenamedTo(n, src, to)
<1>1. DiskOK(disk) /\ Req(t) \in Requests /\ src \in Path /\ {n} \in SUBSET Resource(src)
  BY BusyFacts, ScopeFacts
<1>2. Len(to) \in Nat \ {0}
  BY PathFacts
<1>3. \A k \in 1 .. Len(to) - 1 : IsDir(disk, SubSeq(to, 1, k))
  <2>1. \A k \in 0 .. Len(to) - 1 : IsDir(disk, SubSeq(to, 1, k))
    BY <1>1, FoldersUp
  <2>2. QED
    BY <1>2, <2>1
<1>4. /\ \A k \in 1 .. Len(to) - 1 : ~IsFile(disk, SubSeq(to, 1, k))
      /\ \A k \in 1 .. Len(to) - 1 : Exists(disk, Self(SubSeq(to, 1, k)))
  BY <1>3 DEF IsDir, IsFile
<1>5. Exists(disk, m) => disk.entry[m] # Folder
  <2>1. m[2] = n[2] /\ m = << m[1], m[2] >> /\ (m[1] = to <=> n[1] = src)
    <3>1. n \in FileName /\ IsPrefix(src, n[1]) /\ src \in Seq(Segment) /\ to \in Seq(Segment)
      BY <1>1, PathFacts DEF Takes
    <3>2. QED
      BY <3>1, RenamedFacts
  <2> HIDE DEF m
  <2>2. CASE n = PropertiesPath(src)
    <3>1. m[2] = "props"
      BY <2>1, <2>2 DEF PropertiesPath
    <3>2. QED
      BY <1>1, <3>1 DEF DiskOK, Kinds, Exists
  <2>3. CASE n = Self(src)
    <3>1. n[1] = src /\ n[2] = "self"
      BY <2>3 DEF Self
    <3>2. m = Self(to)
      BY <2>1, <3>1 DEF Self
    <3>3. QED
      BY <2>3, <3>2 DEF IsDir
  <2>4. QED
    BY <2>2, <2>3
<1>6. \A k \in {n} \intersect DOMAIN disk.entry :
        Exists(disk, RenamedTo(k, src, to)) => (disk.entry[k] = Folder <=> disk.entry[RenamedTo(k, src, to)] = Folder)
  BY <1>5
<1>7. \A u \in Task : Alone(u) => \A k \in 1 .. Len(to) - 1 :
        Self(SubSeq(to, 1, k)) \in Scope(Req(u)) => Exists(disk, Self(SubSeq(to, 1, k)))
  BY <1>4
<1>8. QED
  BY <1>1, <1>4, <1>6, <1>7, CopyOverHandled

LEMMA CopyHandled ==
    ASSUME FSInv, NEW t \in Task, Busy(t), Req(t).method = "COPY", Copy(t)
    PROVE  Handled(t)
<1> DEFINE r == Req(t)
           src == r.path
           dst == r.dst
           was == task[t].before
           S == Scope(r)
           now == Shown(disk, S)
           copy == IF r.depth = "ZERO" THEN "copy_dir" ELSE "copy_tree"
           into == IF r.overwrite THEN "copy_kind" ELSE "copy_dst"
           calm == Alone(t) /\ ~Clash(r, was)
<1>1. /\ DiskOK(disk) /\ r \in Requests /\ task[t].request = r /\ src \in Path /\ dst \in Path
      /\ src \in Seq(Segment) /\ dst \in Seq(Segment) /\ ~IsPrefix(src, dst) /\ ~IsPrefix(dst, src)
      /\ Self(src) \in S /\ Self(dst) \in S /\ Self(Parent(dst)) \in S
      /\ Changes(r) = Resource(dst) /\ Self(dst) \in Changes(r) /\ Resource(src) \subseteq S /\ Resource(dst) \subseteq S
  BY BusyFacts, ScopeFacts, ChangesFacts
<1>2. Alone(t) => CopyReached(r, was, task[t].at, now)
  BY BusyFacts DEF Reached
<1>3. /\ Has(now, src) <=> Exists(disk, Self(src))
      /\ Has(now, dst) <=> Exists(disk, Self(dst))
      /\ Fold(now, src) <=> IsDir(disk, src)
      /\ Fold(now, dst) <=> IsDir(disk, dst)
      /\ IsFile(disk, src) <=> Exists(disk, Self(src)) /\ ~IsDir(disk, src)
      /\ IsFile(disk, dst) <=> Exists(disk, Self(dst)) /\ ~IsDir(disk, dst)
      /\ Has(now, Parent(dst)) <=> Exists(disk, Self(Parent(dst)))
      /\ Fold(now, Parent(dst)) <=> IsDir(disk, Parent(dst))
      /\ IsFile(disk, Parent(dst)) <=> Exists(disk, Self(Parent(dst))) /\ ~IsDir(disk, Parent(dst))
  BY <1>1, ShownToRequest
<1>4. /\ ~Has(was, src) => Outcome(403, was) \in Outcomes(r, was)
      /\ Has(was, src) /\ ~Has(was, Parent(dst)) => Outcome(409, was) \in Outcomes(r, was)
      /\ Has(was, src) /\ Has(was, Parent(dst)) /\ Has(was, dst) /\ ~r.overwrite => Outcome(412, was) \in Outcomes(r, was)
      /\ Has(was, src) /\ Has(was, Parent(dst)) /\ (Has(was, dst) => r.overwrite) /\ ~Fold(was, Parent(dst))
           => Outcome(500, was) \in Outcomes(r, was)
  BY TransferOutcomes
<1>5. /\ IsDir(disk, src) => Exists(disk, Self(src))
      /\ IsDir(disk, dst) => Exists(disk, Self(dst))
      /\ IsDir(disk, Parent(dst)) => Exists(disk, Self(Parent(dst)))
  BY DEF IsDir
<1>6. calm /\ now = was /\ Has(was, src) /\ Has(was, dst) => (Fold(was, src) <=> Fold(was, dst))
  <2>1. SUFFICES ASSUME calm, now = was, Has(was, src), Has(was, dst) PROVE Fold(was, src) <=> Fold(was, dst)
    OBVIOUS
  <2>2. was[Self(src)].folder = was[Self(dst)].folder
    BY <2>1 DEF Clash, Has
  <2>3. QED
    BY <2>1, <2>2 DEF Fold
<1>7. ASSUME NEW at, NEW f, Alone(t) => CopyReached(r, was, at, f)
      PROVE  \A x : Alone(t) /\ Gone(t, x, at) => Reached(x, f)
  BY <1>1, <1>7 DEF Gone, Reached
<1>8. /\ {"copy", "copy_parent", "copy_dst", "copy_kind"} \subseteq Asking
      /\ {"copy_file", "copy_tree", "props"} \intersect Asking = {} /\ "copy_dir" \in Asking
      /\ {"copy", "copy_parent", "copy_dst", "copy_kind", "copy_file", "copy_tree", "copy_dir", "props"} \intersect Opened = {}
      /\ {"copy", "copy_parent", "copy_dst", "copy_kind", "copy_file", "copy_tree", "copy_dir", "props"} \subseteq Stages("COPY")
      /\ {"copy_dst", "copy_kind", "copy_tree"} = Asks
      /\ {"copy", "copy_parent", "copy_dst", "copy_kind", "copy_file", "copy_tree", "copy_dir"} \intersect Ending = {}
      /\ "props" \in Ending
  BY DEF Stages, Asking, Opened, Asks, Ending
<1>9. Writes(t, disk)
  BY WritesNothing
<1> HIDE DEF r, src, dst, was, S, now, copy, into, calm
<1>10. ASSUME NEW at \in {"copy_parent", "copy_dst", "copy_kind", "copy_file", "copy_tree", "copy_dir"}, Goto(t, at, disk),
              task[t].at \in {"copy", "copy_parent", "copy_dst", "copy_kind"},
              task[t].at = "copy" => at = "copy_parent",
              task[t].at = "copy_parent" => Exists(disk, Self(Parent(dst))),
              Alone(t) => CopyReached(r, was, at, now)
       PROVE  Handled(t)
  <2>1. \A x : Alone(t) /\ Gone(t, x, at) => Reached(x, now)
    BY <1>7, <1>10
  <2>2. /\ at \in Stages(Req(t).method) /\ at \notin Opened /\ task[t].at \notin Opened /\ task[t].at \in Asking
        /\ at \in Asks => task[t].at \in Asks \/ Exists(disk, Self(Parent(Req(t).dst)))
    BY <1>8, <1>10 DEF dst, r
  <2>3. QED
    BY <1>9, <1>10, <2>1, <2>2, GotoHandled DEF r, S, now
<1>11. ASSUME NEW e, Goto(t, "props", e), Writes(t, e), task[t].at \in {"copy_file", "copy_tree", "copy_dir"},
              calm => EndReached(r, was, "props", Shown(e, S), DoneBy(r, was))
       PROVE  Handled(t)
  <2>1. Alone(t) => CopyReached(r, was, "props", Shown(e, S))
    <3>1. DoneBy(r, was) = Updated(was, Image(was, Taken(r), r.path, r.dst))
      BY DEF DoneBy, r
    <3>2. QED
      BY <1>8, <1>11, <3>1 DEF CopyReached, calm
  <2>2. \A x : Alone(t) /\ Gone(t, x, "props") => Reached(x, Shown(e, S))
    BY <1>7, <2>1
  <2>3. "props" \in Stages(Req(t).method) /\ "props" \notin Asking /\ "props" \notin Opened /\ "props" \notin Asks /\ task[t].at \notin Opened
    BY <1>8, <1>11
  <2>4. QED
    BY <1>11, <2>2, <2>3, GotoHandled DEF r, S
<1>12. ASSUME NEW status \in {403, 409, 412, 500}, Answer(t, status, disk),
              task[t].at \in {"copy", "copy_parent", "copy_dst", "copy_file", "copy_tree", "copy_dir"},
              status # 500 => task[t].at \in {"copy", "copy_parent", "copy_dst", "copy_dir"},
              calm => Outcome(status, now) \in Outcomes(r, was)
       PROVE  Handled(t)
  <2>1. task[t].at \notin Opened /\ (status \in 400 .. 499 => task[t].at \in Asking)
    BY <1>8, <1>12
  <2>2. QED
    BY <1>12, <2>1, RefuseHandled DEF r, was, S, now, calm
<1>13. CASE /\ At(t, "copy")
            /\ IF Exists(disk, Self(src)) THEN Goto(t, "copy_parent", disk) ELSE Answer(t, 403, disk)
  <2>1. task[t].at = "copy"
    BY <1>13 DEF At
  <2>2. Alone(t) => now = was
    BY <1>2, <1>8, <2>1 DEF CopyReached
  <2>3. CASE Exists(disk, Self(src))
    <3>1. Alone(t) => CopyReached(r, was, "copy_parent", now)
      BY <1>3, <1>8, <2>2, <2>3 DEF CopyReached, src
    <3>2. QED
      BY <1>10, <1>13, <2>1, <2>3, <3>1
  <2>4. CASE ~Exists(disk, Self(src))
    <3>1. calm => Outcome(403, now) \in Outcomes(r, was)
      BY <1>3, <1>4, <2>2, <2>4 DEF calm
    <3>2. QED
      BY <1>12, <1>13, <2>1, <2>4, <3>1
  <2>5. QED
    BY <2>3, <2>4
<1>14. CASE /\ At(t, "copy_parent")
            /\ IF Exists(disk, Self(Parent(dst))) THEN Goto(t, into, disk) ELSE Answer(t, 409, disk)
  <2>1. task[t].at = "copy_parent"
    BY <1>14 DEF At
  <2>2. Alone(t) => now = was /\ Has(was, src)
    BY <1>2, <1>8, <2>1 DEF CopyReached, src
  <2>3. CASE Exists(disk, Self(Parent(dst)))
    <3>1. into \in {"copy_kind", "copy_dst"}
      BY DEF into
    <3>2. Alone(t) => CopyReached(r, was, into, now)
      <4>1. CASE r.overwrite
        BY <1>3, <1>8, <2>2, <2>3, <4>1 DEF CopyReached, src, dst, into
      <4>2. CASE ~r.overwrite
        BY <1>3, <1>8, <2>2, <2>3, <4>2 DEF CopyReached, src, dst, into
      <4>3. QED
        BY <4>1, <4>2
    <3>3. QED
      BY <1>10, <1>14, <2>1, <2>3, <3>1, <3>2
  <2>4. CASE ~Exists(disk, Self(Parent(dst)))
    <3>1. calm => Outcome(409, now) \in Outcomes(r, was)
      BY <1>3, <1>4, <2>2, <2>4 DEF calm
    <3>2. QED
      BY <1>12, <1>14, <2>1, <2>4, <3>1
  <2>5. QED
    BY <2>3, <2>4
<1>15. CASE /\ At(t, "copy_dst")
            /\ IF Exists(disk, Self(dst)) THEN Answer(t, 412, disk) ELSE Goto(t, "copy_kind", disk)
  <2>1. task[t].at = "copy_dst"
    BY <1>15 DEF At
  <2>2. Alone(t) => now = was /\ Has(was, src) /\ Has(was, Parent(dst)) /\ ~r.overwrite
    BY <1>2, <1>8, <2>1 DEF CopyReached, src, dst
  <2>3. CASE Exists(disk, Self(dst))
    <3>1. calm => Outcome(412, now) \in Outcomes(r, was)
      BY <1>3, <1>4, <2>2, <2>3 DEF calm
    <3>2. QED
      BY <1>12, <1>15, <2>1, <2>3, <3>1
  <2>4. CASE ~Exists(disk, Self(dst))
    <3>1. Alone(t) => CopyReached(r, was, "copy_kind", now)
      BY <1>3, <1>8, <2>2, <2>4 DEF CopyReached, src, dst
    <3>2. QED
      BY <1>10, <1>15, <2>1, <2>4, <3>1
  <2>5. QED
    BY <2>3, <2>4
<1>16. CASE /\ At(t, "copy_kind")
            /\ IF IsDir(disk, src) THEN Goto(t, copy, disk) ELSE Goto(t, "copy_file", disk)
  <2>1. task[t].at = "copy_kind"
    BY <1>16 DEF At
  <2>2. Alone(t) => now = was /\ Has(was, src) /\ Has(was, Parent(dst)) /\ (Has(was, dst) => r.overwrite)
    BY <1>2, <1>8, <2>1 DEF CopyReached, src, dst
  <2>3. CASE IsDir(disk, src)
    <3>1. copy \in {"copy_dir", "copy_tree"} /\ (copy = "copy_dir" <=> r.depth = "ZERO")
      BY DEF copy
    <3>2. Alone(t) => CopyReached(r, was, copy, now)
      BY <1>3, <1>8, <2>2, <2>3, <3>1 DEF CopyReached, src, dst
    <3>3. QED
      BY <1>10, <1>16, <2>1, <2>3, <3>1, <3>2
  <2>4. CASE ~IsDir(disk, src)
    <3>1. Alone(t) => CopyReached(r, was, "copy_file", now)
      BY <1>3, <1>8, <2>2, <2>4 DEF CopyReached, src, dst
    <3>2. QED
      BY <1>10, <1>16, <2>1, <2>4, <3>1
  <2>5. QED
    BY <2>3, <2>4
<1>17. CASE CopyFile(t)
  <2> DEFINE to == IF IsDir(disk, dst) THEN Append(dst, Name(src)) ELSE dst
             new == CopyOver(disk, {Self(src)}, src, to)
  <2>1. task[t].at = "copy_file"
    BY <1>17 DEF CopyFile, Ask, At
  <2>2. IF IsFile(disk, src) /\ IsDir(disk, Parent(to)) /\ ~IsDir(disk, to) THEN Goto(t, "props", new) ELSE Answer(t, 500, disk)
    BY <1>17 DEF CopyFile, Ask, Creatable, Raise, r, src, dst
  <2>3. Alone(t) => now = was /\ Has(was, src) /\ Has(was, Parent(dst)) /\ (Has(was, dst) => r.overwrite) /\ ~Fold(was, src)
    BY <1>2, <1>8, <2>1 DEF CopyReached, src, dst
  <2>4. calm => Alone(t) /\ ~IsDir(disk, dst) /\ to = dst
    <3>1. calm => Alone(t) /\ ~IsDir(disk, dst)
      BY <1>3, <1>5, <1>6, <2>3 DEF calm
    <3>2. QED
      BY <3>1
  <2>5. CASE IsFile(disk, src) /\ IsDir(disk, Parent(to)) /\ ~IsDir(disk, to)
    <3>1. to \in Path /\ IsPrefix(dst, to) /\ ~IsPrefix(src, to) /\ ~IsPrefix(to, src) /\ Takes(disk, {Self(src)}, src, to)
      <4>1. CASE IsDir(disk, dst)
        <5>1. /\ to \in Path /\ IsPrefix(dst, to) /\ ~IsPrefix(src, to) /\ ~IsPrefix(to, src)
              /\ Relocated(src, src, to) = to
          <6>1. r.method \in {"COPY", "MOVE"}
            BY DEF r
          <6>2. QED
            BY <1>1, <4>1, <6>1, CopiedInto DEF src, dst
        <5>2. Self(src) \in FileName /\ Self(src)[1] = src /\ IsPrefix(src, src)
          BY <1>1, PrefixReflexive DEF Self, FileName, IsParentOfOrIsSelf
        <5>3. \A j \in Len(src) .. Len(src) - 1 : FALSE
          BY <1>1
        <5> HIDE DEF to
        <5>4. Takes(disk, {Self(src)}, src, to)
          BY <5>1, <5>2, <5>3 DEF Takes
        <5>5. QED
          BY <5>1, <5>4
      <4>2. CASE ~IsDir(disk, dst)
        <5>1. to = dst
          BY <4>2
        <5>2. IsPrefix(dst, dst)
          BY <1>1, PrefixReflexive DEF IsParentOfOrIsSelf
        <5>3. Takes(disk, {Self(src)}, src, dst)
          BY <1>1, TreeIsTaken DEF src, dst, r
        <5>4. QED
          BY <1>1, <5>1, <5>2, <5>3
      <4>3. QED
        BY <4>1, <4>2
    <3>2. Goto(t, "props", new)
      BY <2>2, <2>5
    <3> HIDE DEF to
    <3>3. Writes(t, new) /\ (Alone(t) /\ to = dst => Shown(new, S) = Updated(now, Image(now, {Self(src)}, src, to)))
      <4>1. Exists(disk, Self(src)) /\ disk.entry[Self(src)] # Folder
        BY <2>5 DEF IsFile
      <4>2. QED
        BY <2>5, <3>1, <4>1, CopyOneHandled DEF r, src, dst, S, now
    <3> HIDE DEF new
    <3>4. calm => Shown(new, S) = DoneBy(r, was)
      <4>1. SUFFICES ASSUME calm PROVE Shown(new, S) = DoneBy(r, was)
        OBVIOUS
      <4>2. Shown(new, S) = Updated(was, Image(was, {Self(src)}, src, dst))
        BY <2>3, <2>4, <3>3, <4>1
      <4>3. Image(was, {Self(src)}, src, dst) = Image(was, Taken(r), src, dst)
        <5>1. /\ \A n \in Resource(src) : n \in FileName /\ IsPrefix(src, n[1])
              /\ Tree(src) \subseteq Resource(src) /\ Self(src) \in Tree(src)
          BY <1>1, ImageNames DEF src, r
        <5>2. Inside(src) \intersect DOMAIN disk.entry = {}
          BY <1>1, <1>3, <2>5, NothingInside
        <5>3. DOMAIN now = S \intersect DOMAIN disk.entry
          BY ShownIs DEF now
        <5>4. Tree(src) \intersect DOMAIN was = {Self(src)} \intersect DOMAIN was
          BY <2>3, <2>4, <4>1, <5>2, <5>3 DEF Tree
        <5>5. Taken(r) \in {{Self(src)}, Tree(src)}
          BY DEF Taken, src
        <5>6. Taken(r) \intersect DOMAIN was = {Self(src)} \intersect DOMAIN was
          BY <5>4, <5>5
        <5>7. \A n \in Taken(r) \union {Self(src)} : n \in FileName /\ IsPrefix(src, n[1])
          BY <5>1, <5>5
        <5>8. QED
          BY ONLY <1>1, <5>6, <5>7, ImageSame
      <4>4. QED
        BY <4>2, <4>3 DEF DoneBy, r, src, dst
    <3>5. calm => EndReached(r, was, "props", Shown(new, S), DoneBy(r, was))
      BY <1>3, <2>3, <2>4, <2>5, <3>4 DEF EndReached, src, dst
    <3>6. QED
      BY <1>11, <2>1, <3>2, <3>3, <3>5
  <2>6. CASE ~(IsFile(disk, src) /\ IsDir(disk, Parent(to)) /\ ~IsDir(disk, to))
    <3>1. calm => ~IsDir(disk, Parent(dst))
      BY <1>3, <2>3, <2>4, <2>6
    <3>2. calm => Outcome(500, now) \in Outcomes(r, was)
      BY <1>3, <1>4, <2>3, <2>4, <3>1
    <3>3. QED
      BY <1>12, <2>1, <2>2, <2>6, <3>2
  <2>7. QED
    BY <2>5, <2>6
<1>18. CASE CopyTree(t)
  <2> DEFINE above == \E k \in 1 .. Len(dst) : IsFile(disk, SubSeq(dst, 1, k))
             ready == IsDir(disk, src) /\ ~above /\ (r.overwrite \/ ~Exists(disk, Self(dst)))
             new == CopyOver(disk, Tree(src), src, dst)
  <2>1. task[t].at = "copy_tree"
    BY <1>18 DEF CopyTree, Ask, At
  <2>2. IF ready THEN Alike(r) /\ Goto(t, "props", new) ELSE Answer(t, 500, disk)
    <3>1. (IsFile(disk, dst) \/ BelowFile(dst)) <=> above
      BY <1>1, BelowFileFacts
    <3> HIDE DEF above, new
    <3>2. QED
      BY <1>18, <3>1 DEF CopyTree, Ask, Raise, r, src, dst, new
  <2>3. Alone(t) => /\ now = was /\ Has(was, src) /\ Has(was, Parent(dst)) /\ (Has(was, dst) => r.overwrite) /\ Fold(was, src)
                    /\ r.depth # "ZERO"
    BY <1>2, <1>8, <2>1 DEF CopyReached, src, dst
  <2>4. Len(dst) \in Nat \ {0} /\ Parent(dst) = SubSeq(dst, 1, Len(dst) - 1) /\ SubSeq(dst, 1, Len(dst)) = dst
    BY <1>1, PathFacts
  <2>5. Exists(disk, Self(Parent(dst))) => \A k \in 0 .. Len(dst) - 2 : IsDir(disk, SubSeq(dst, 1, k))
    BY <1>1, FoldersUp
  <2>6. CASE ready
    <3>1. Takes(disk, Tree(src), src, dst) /\ Tree(src) \in SUBSET Resource(src)
      BY <1>1, TreeIsTaken DEF src, dst, r, Resource
    <3>2. /\ \A k \in 1 .. Len(dst) - 1 : ~IsFile(disk, SubSeq(dst, 1, k))
          /\ IsPrefix(dst, dst)
      BY <1>1, <2>4, <2>6, PrefixReflexive DEF IsParentOfOrIsSelf
    <3>3. \A n \in Tree(src) \intersect DOMAIN disk.entry :
            Exists(disk, RenamedTo(n, src, dst)) => (disk.entry[n] = Folder <=> disk.entry[RenamedTo(n, src, dst)] = Folder)
      BY <2>2, <2>6 DEF Alike, src, dst
    <3>4. \A u \in Task : Alone(u) => \A k \in 1 .. Len(dst) - 1 :
            Self(SubSeq(dst, 1, k)) \in Scope(Req(u)) => Exists(disk, Self(SubSeq(dst, 1, k)))
      BY <2>1 DEF FSInv, Standing, dst, r
    <3>5. Writes(t, new) /\ (Alone(t) => Shown(new, S) = Updated(now, Image(now, Tree(src), src, dst)))
      BY <1>1, <3>1, <3>2, <3>3, <3>4, CopyOverHandled DEF r, src, dst, S, now
    <3>6. Goto(t, "props", new)
      BY <2>2, <2>6
    <3> HIDE DEF new
    <3>7. calm => Shown(new, S) = DoneBy(r, was)
      BY <2>3, <3>5 DEF DoneBy, Taken, r, src, dst, calm
    <3>8. calm => Fold(was, Parent(dst))
      <4>1. SUFFICES ASSUME calm PROVE Fold(was, Parent(dst))
        OBVIOUS
      <4>2. now = was /\ Exists(disk, Self(Parent(dst)))
        BY <1>3, <2>3, <4>1 DEF calm
      <4>3. CASE Len(dst) = 1
        <5>1. Parent(dst) = << >>
          BY <1>1, <2>4, <4>3
        <5>2. QED
          BY <1>1, <1>3, <4>2, <5>1 DEF DiskOK, Kinds, IsDir, Root
      <4>4. CASE Len(dst) # 1
        <5>1. Len(dst) - 1 \in 1 .. Len(dst) - 1
          BY <2>4, <4>4
        <5>2. ~IsFile(disk, Parent(dst))
          BY <2>4, <3>2, <5>1
        <5>3. QED
          BY <1>3, <4>2, <5>2
      <4>5. QED
        BY <4>3, <4>4
    <3>9. calm => EndReached(r, was, "props", Shown(new, S), DoneBy(r, was))
      BY <2>3, <3>7, <3>8 DEF EndReached, src, dst, calm
    <3>10. QED
      BY <1>11, <2>1, <3>5, <3>6, <3>9
  <2>7. CASE ~ready
    <3>1. calm => ~IsDir(disk, Parent(dst))
      <4>1. SUFFICES ASSUME calm PROVE ~IsDir(disk, Parent(dst))
        OBVIOUS
      <4>2. /\ now = was /\ Has(was, src) /\ Fold(was, src) /\ IsDir(disk, src) /\ Exists(disk, Self(Parent(dst)))
            /\ (Exists(disk, Self(dst)) => r.overwrite)
        BY <1>3, <2>3, <4>1 DEF calm
      <4>3. PICK k \in 1 .. Len(dst) : IsFile(disk, SubSeq(dst, 1, k))
        BY <2>7, <4>2
      <4>4. k # Len(dst)
        <5>1. ~IsFile(disk, dst)
          BY <1>3, <1>6, <4>1, <4>2
        <5>2. QED
          BY <2>4, <4>3, <5>1
      <4>5. \A q : ~(IsFile(disk, q) /\ IsDir(disk, q))
        BY DEF IsFile, IsDir
      <4>6. k \notin 0 .. Len(dst) - 2
        BY <2>5, <4>2, <4>3, <4>5
      <4>7. k = Len(dst) - 1
        <5>1. k \in 1 .. Len(dst) /\ Len(dst) \in Nat
          BY <2>4
        <5>2. QED
          BY ONLY <5>1, <4>4, <4>6
      <4>8. QED
        BY <2>4, <4>3, <4>5, <4>7
    <3>2. calm => Outcome(500, now) \in Outcomes(r, was)
      BY <1>3, <1>4, <2>3, <3>1 DEF calm
    <3> HIDE DEF ready
    <3>3. Answer(t, 500, disk)
      BY <2>2, <2>7
    <3>4. QED
      BY <1>12, <2>1, <3>2, <3>3
  <2> HIDE DEF ready
  <2>8. QED
    BY <2>6, <2>7
<1>19. CASE CopyDir(t)
  <2> DEFINE there == Exists(disk, Self(dst))
             made == IF there THEN disk ELSE Mkdir(disk, dst)
             broken == BelowFile(dst)
             refused == \/ there /\ (IsFile(disk, dst) \/ ~r.overwrite)
                        \/ ~Exists(disk, Self(Parent(dst)))
  <2>1. task[t].at = "copy_dir"
    BY <1>19 DEF CopyDir, At
  <2>2. Alone(t) => /\ now = was /\ Has(was, src) /\ Has(was, Parent(dst)) /\ (Has(was, dst) => r.overwrite) /\ Fold(was, src)
                    /\ r.depth = "ZERO"
    BY <1>2, <1>8, <2>1 DEF CopyReached, src, dst
  <2>3. there => IsDir(disk, Parent(dst))
    <3>1. Self(dst) \in FileName /\ Self(dst)[1] = dst
      BY <1>1 DEF Self, FileName
    <3>2. QED
      BY <1>1, <3>1, ParentIsThere
  <2>4. /\ broken => ~IsDir(disk, Parent(dst))
        /\ ~broken /\ Exists(disk, Self(Parent(dst))) => IsDir(disk, Parent(dst))
    BY <1>1, BelowFileFacts
  <2>5. \/ broken /\ Answer(t, 500, disk)
        \/ ~broken /\ refused /\ Answer(t, 412, disk)
        \/ ~broken /\ ~refused /\ Exists(disk, Self(src)) /\ Goto(t, "props", made)
        \/ ~broken /\ ~refused /\ ~Exists(disk, Self(src)) /\ Answer(t, 412, made)
    <3>1. (CASE broken -> Answer(t, 500, disk)
            [] ~broken /\ refused -> Answer(t, 412, disk)
            [] OTHER -> IF Exists(disk, Self(src)) THEN Goto(t, "props", made) ELSE Answer(t, 412, made))
      BY <1>19 DEF CopyDir, Raise, r, src, dst
    <3> HIDE DEF broken, refused, made
    <3>2. QED
      BY <3>1
  <2>6. CASE broken /\ Answer(t, 500, disk)
    <3>1. calm => Outcome(500, now) \in Outcomes(r, was)
      BY <1>3, <1>4, <2>2, <2>4, <2>6 DEF calm
    <3>2. QED
      BY <1>12, <2>1, <2>6, <3>1
  <2>7. CASE ~broken /\ refused /\ Answer(t, 412, disk)
    <3>1. ~calm
      BY <1>3, <1>6, <2>2, <2>7 DEF calm
    <3>2. QED
      BY <1>12, <2>1, <2>7, <3>1
  <2>8. ASSUME ~broken, ~refused
        PROVE  /\ Writes(t, made)
               /\ Self(dst) \in DOMAIN made.entry /\ Look(made, Self(dst)) = AFolder
               /\ \A n : n # Self(dst) => Same(disk, made, n)
               /\ IsDir(disk, Parent(dst))
    <3>1. IsDir(disk, Parent(dst))
      BY <2>4, <2>8
    <3>2. CASE there
      <4>1. made = disk
        BY <3>2
      <4>2. disk.entry[Self(dst)] = Folder /\ Self(dst) \in DOMAIN disk.entry
        BY <1>3, <2>8, <3>2 DEF IsDir, Exists
      <4>3. QED
        BY <1>9, <3>1, <4>1, <4>2 DEF Look, Same
    <3>3. CASE ~there
      <4>1. made = Mkdir(disk, dst)
        BY <3>3
      <4> HIDE DEF made
      <4>2. DiskOK(made) /\ made.entry = With(disk.entry, Self(dst), Folder) /\ made.data = disk.data
            /\ \A n : n # Self(dst) => Same(disk, made, n)
        BY <1>1, <3>1, <3>3, <4>1, MkdirOK
      <4>3. \A n \in DOMAIN made.entry : n # Self(dst) => n \in DOMAIN disk.entry /\ made.entry[n] = disk.entry[n]
        BY <4>2 DEF Same
      <4>4. made.entry[Self(dst)] = Folder /\ Self(dst) \in DOMAIN made.entry
        BY <4>2 DEF With
      <4>5. \A n : n \notin Changes(r) => Same(disk, made, n)
        BY <1>1, <4>2
      <4>6. Writes(t, made)
        BY <4>2, <4>3, <4>4, <4>5, WritesOwn DEF r
      <4>7. QED
        BY <3>1, <4>2, <4>4, <4>6 DEF Look
    <3>4. QED
      BY <3>2, <3>3
  <2> HIDE DEF made
  <2>9. CASE ~broken /\ ~refused /\ Exists(disk, Self(src)) /\ Goto(t, "props", made)
    <3>1. calm => Shown(made, S) = DoneBy(r, was)
      <4>1. SUFFICES ASSUME calm PROVE Shown(made, S) = DoneBy(r, was)
        OBVIOUS
      <4>2. now = was /\ IsDir(disk, src) /\ r.depth = "ZERO"
        BY <1>3, <2>2, <4>1 DEF calm
      <4>3. RenamedTo(Self(src), src, dst) = Self(dst) /\ Self(src) # Self(dst)
        <5>1. RenamedTo(Self(src), src, dst) = Self(dst)
          BY <1>1, ImageNames DEF r, src, dst
        <5>2. src # dst
          BY <1>1, PrefixReflexive DEF IsParentOfOrIsSelf
        <5>3. QED
          BY <5>1, <5>2 DEF Self
      <4>4. Look(disk, Self(src)) = AFolder /\ Self(src) \in DOMAIN disk.entry
        BY <4>2 DEF IsDir, Exists, Look
      <4>5. Self(src) \in FileName /\ IsPrefix(src, Self(src)[1])
        BY <1>1, PrefixReflexive DEF Self, FileName, IsParentOfOrIsSelf
      <4>6. \A n \in {Self(src)} : n \in FileName /\ IsPrefix(src, n[1]) /\ RenamedTo(n, src, dst) \in S
        BY <1>1, <4>3, <4>5
      <4>7. \A n \in {Self(src)} \intersect DOMAIN disk.entry :
              /\ RenamedTo(n, src, dst) \in DOMAIN made.entry
              /\ Look(made, RenamedTo(n, src, dst)) = Look(disk, n)
        BY <2>8, <2>9, <4>3, <4>4
      <4>8. \A m \in S : m \notin {RenamedTo(n, src, dst) : n \in {Self(src)} \intersect DOMAIN disk.entry} => Same(disk, made, m)
        BY <2>8, <2>9, <4>3, <4>4
      <4>9. Shown(made, S) = Updated(Shown(disk, S), Image(Shown(disk, S), {Self(src)}, src, dst))
        BY <1>1, <4>6, <4>7, <4>8, ShownCopied
      <4>10. QED
        BY <4>2, <4>9 DEF DoneBy, Taken, now, r, src, dst
    <3>2. calm => EndReached(r, was, "props", Shown(made, S), DoneBy(r, was))
      BY <1>3, <2>2, <2>8, <2>9, <3>1 DEF EndReached, src, dst, calm
    <3>3. QED
      BY <1>11, <2>1, <2>8, <2>9, <3>2
  <2>10. CASE ~broken /\ ~refused /\ ~Exists(disk, Self(src)) /\ Answer(t, 412, made)
    <3>1. ~calm
      BY <1>3, <2>2, <2>10 DEF calm
    <3>2. Writes(t, made)
      BY <2>8, <2>10
    <3>3. task[t].at \notin Opened
      BY <1>8, <2>1
    <3>4. Alone(t) /\ ~Clash(Req(t), task[t].before) =>
            Outcome(412, Shown(made, Scope(Req(t)))) \in Outcomes(Req(t), task[t].before)
      BY <3>1 DEF calm, r, was
    <3>5. QED
      BY ONLY FSInv, t \in Task, Busy(t), <2>1, <2>10, <3>2, <3>3, <3>4, AnswerHandled
  <2> HIDE DEF there, broken, refused
  <2>11. QED
    BY <2>5, <2>6, <2>7, <2>9, <2>10
<1>20. CASE TransferProperties(t, CopyOver(disk, {PropertiesPath(src)}, src, dst))
  <2> DEFINE pp == PropertiesPath(src)
             new == CopyOver(disk, {pp}, src, dst)
  <2>1. ASSUME Exists(disk, pp), IsDir(disk, Parent(dst))
        PROVE  Writes(t, new) /\ (Alone(t) => Shown(new, S) = Carried(r, now))
    <3>1. Takes(disk, {pp}, src, dst) /\ IsPrefix(dst, dst)
      BY <1>1, TreeIsTaken, PrefixReflexive DEF src, dst, r, IsParentOfOrIsSelf
    <3>2. pp # Self(src) /\ disk.entry[pp] # Folder
      <4>1. pp[2] = "props" /\ pp \in DOMAIN disk.entry
        BY <2>1 DEF PropertiesPath, Exists
      <4>2. QED
        BY <1>1, <4>1 DEF DiskOK, Kinds, Self
    <3>3. Writes(t, new) /\ (Alone(t) => Shown(new, S) = Updated(now, Image(now, {pp}, src, dst)))
      BY <1>1, <2>1, <3>1, <3>2, CopyOneHandled DEF r, src, dst, S, now
    <3> HIDE DEF new
    <3>4. QED
      BY <3>3 DEF Carried, r, src, dst
  <2> HIDE DEF new
  <2>2. QED
    BY <1>20, <2>1, TransferHandled DEF new, r, src, dst, S, now
<1>21. QED
  <2>1. \/ /\ At(t, "copy")
           /\ IF Exists(disk, Self(src)) THEN Goto(t, "copy_parent", disk) ELSE Answer(t, 403, disk)
        \/ /\ At(t, "copy_parent")
           /\ IF Exists(disk, Self(Parent(dst))) THEN Goto(t, into, disk) ELSE Answer(t, 409, disk)
        \/ /\ At(t, "copy_dst")
           /\ IF Exists(disk, Self(dst)) THEN Answer(t, 412, disk) ELSE Goto(t, "copy_kind", disk)
        \/ /\ At(t, "copy_kind")
           /\ IF IsDir(disk, src) THEN Goto(t, copy, disk) ELSE Goto(t, "copy_file", disk)
        \/ CopyFile(t) \/ CopyTree(t) \/ CopyDir(t)
        \/ TransferProperties(t, CopyOver(disk, {PropertiesPath(src)}, src, dst))
    BY DEF Copy, Ask, RefuseOverwrite, r, src, dst, copy, into
  <2>2. QED
    BY ONLY <2>1, <1>13, <1>14, <1>15, <1>16, <1>17, <1>18, <1>19, <1>20

-----------------------------------------------------------------------------
(* Every step                                                              *)

\* The action a request takes is one of its method.
LEMMA CallHandled ==
    ASSUME FSInv, NEW t \in Task, Call(t)
    PROVE  Handled(t)
<1> DEFINE at == task[t].at
           method == Req(t).method
           transfer(new) == TransferProperties(t, new)
<1>1. Busy(t)
  BY DEF Call
<1>2. at \in Stages(method) /\ method \in {"MKCOL", "DELETE", "PUT", "PROPPATCH", "GET", "COPY", "MOVE"}
  BY <1>1, BusyFacts, ProviderAssumption
<1>3. ASSUME Mkcol(t) PROVE method = "MKCOL"
  <2>1. at = "mkcol"
    BY <1>3 DEF Mkcol, At
  <2> HIDE DEF at, method
  <2>2. QED
    BY <1>2, <2>1 DEF Stages, Ending
<1>4. ASSUME Delete(t) PROVE method = "DELETE"
  <2>1. at \in {"delete", "delete_kind", "rmtree", "remove", "delete_props"}
    BY <1>4 DEF Delete, DeleteProperties, Ask, At
  <2> HIDE DEF at, method
  <2>2. QED
    BY <1>2, <2>1 DEF Stages, Ending
<1>5. ASSUME Put(t) PROVE method = "PUT"
  <2>1. at \in {"put", "put_kind", "put_parent", "put_open", "receive"}
    BY <1>5 DEF Put, Ask, At
  <2> HIDE DEF at, method
  <2>2. QED
    BY <1>2, <2>1 DEF Stages, Ending
<1>6. ASSUME Proppatch(t) PROVE method = "PROPPATCH"
  <2>1. at \in {"proppatch", "touch", "read_props", "write_props"}
    BY <1>6 DEF Proppatch, Ask, At
  <2> HIDE DEF at, method
  <2>2. QED
    BY <1>2, <2>1 DEF Stages, Ending
<1>7. ASSUME Get(t) PROVE method = "GET"
  <2>1. at \in {"get", "stat", "get_kind", "get_open", "send"}
    BY <1>7 DEF Get, Ask, At
  <2> HIDE DEF at, method
  <2>2. QED
    BY <1>2, <2>1 DEF Stages, Ending
<1>8. ASSUME Copy(t) PROVE method = "COPY"
  <2>1. \/ at \in {"copy", "copy_parent", "copy_dst", "copy_kind", "copy_file", "copy_tree", "copy_dir"}
        \/ method = "COPY"
    BY <1>8 DEF Copy, CopyFile, CopyTree, CopyDir, Ask, At
  <2> HIDE DEF at, method
  <2>2. QED
    BY <1>2, <2>1 DEF Stages, Ending
<1>9. ASSUME Move(t) PROVE method = "MOVE"
  <2>1. \/ at \in {"move", "move_dst", "move_dst_kind", "move_parent", "move_rmtree", "move_remove", "rename"}
        \/ method = "MOVE"
    BY <1>9 DEF Move, See, Ask, At
  <2> HIDE DEF at, method
  <2>2. QED
    BY <1>2, <2>1 DEF Stages, Ending
<1>10. Mkcol(t) \/ Delete(t) \/ Put(t) \/ Proppatch(t) \/ Get(t) \/ Copy(t) \/ Move(t)
  BY DEF Call
<1>11. QED
  BY <1>1, <1>3, <1>4, <1>5, <1>6, <1>7, <1>8, <1>9, <1>10,
     MkcolHandled, DeleteHandled, PutHandled, ProppatchHandled, GetHandled, CopyHandled, MoveHandled

LEMMA InitFSInv == InitFS => FSInv
<1> SUFFICES ASSUME InitFS PROVE FSInv
  OBVIOUS
<1>1. \A t \in Task : ~Busy(t) /\ ~Alone(t) /\ task[t] = IdleTask /\ task[t].object = NoFile
  BY DEF InitFS, Busy, Alone, IdleTask
<1>2. disk.entry = [n \in {Self(Root)} |-> Folder] /\ disk.data = << >> /\ disk = [entry |-> disk.entry, data |-> disk.data]
  BY DEF InitFS, EmptyDisk
<1>3. DOMAIN disk.entry = {Self(Root)} /\ disk.entry[Self(Root)] = Folder
  BY <1>2
<1>4. DOMAIN disk.data = {} /\ disk.data = [o \in DOMAIN disk.data |-> disk.data[o]]
  BY <1>2
<1>5. Shape(disk)
  <2>1. disk.entry = [n \in DOMAIN disk.entry |-> disk.entry[n]]
    BY <1>2
  <2>2. IsFiniteSet({Self(Root)}) /\ IsFiniteSet({})
    BY FS_EmptySet, FS_Singleton
  <2>3. QED
    BY <1>2, <1>3, <1>4, <2>1, <2>2 DEF Shape
<1>6. Kinds(disk)
  BY <1>3, <1>4 DEF Kinds, Self, PropertiesPath, FileName
<1>7. OneName(disk)
  BY <1>3 DEF OneName
<1>8. Hung(disk)
  <2>1. Self(Root)[1] = << >> /\ 0 .. Len(<< >>) - 1 = {}
    BY DEF Self, Root
  <2>2. QED
    BY <1>3, <2>1 DEF Hung
<1>9. TaskOK
  BY <1>1 DEF TaskOK, InitFS
<1>10. QED
  BY <1>1, <1>5, <1>6, <1>7, <1>8, <1>9 DEF FSInv, DiskOK, Others, Holding, Apart, Standing

\* What a step does to the invariant, and whom it ends.
LEMMA StepFacts ==
    ASSUME FSInv, NextFS
    PROVE  /\ FSInv'
           /\ \A t \in Task : Ends(t) => \E new : Ended(t, new) /\ \A n : Same(new, disk', n)
<1>1. ASSUME NEW t \in Task, Call(t)
      PROVE  /\ FSInv'
             /\ \A u \in Task : Ends(u) => \E new : Ended(u, new) /\ \A n : Same(new, disk', n)
  <2>1. Busy(t) /\ Handled(t)
    BY <1>1, CallHandled DEF Call
  <2>2. PICK x, new : Step(t, x, new) /\ Writes(t, new) /\ (Goes(t, x, new) \/ (x = IdleTask /\ Ended(t, new)))
    BY <2>1 DEF Handled
  <2>3. FSInv' /\ \A n : Same(new, disk', n)
    BY <2>1, <2>2, StepKeeps
  <2>4. ASSUME NEW u \in Task, Ends(u) PROVE Ended(u, new)
    <3>1. DOMAIN task = Task /\ task' = [task EXCEPT ![t] = x]
      BY <2>2 DEF FSInv, TaskOK, Step
    <3>2. u = t /\ x = IdleTask
      BY <2>4, <3>1 DEF Ends, Busy
    <3>3. ~Goes(t, x, new)
      <4>1. DOMAIN x = {"at", "object"}
        BY <3>2 DEF IdleTask
      <4>2. QED
        BY <4>1 DEF Goes, Running, Field
    <3>4. QED
      BY <2>2, <3>2, <3>3
  <2>5. QED
    BY <2>3, <2>4
<1>2. ASSUME NEW t \in Task, NEW r \in Requests, Arrive(t, r)
      PROVE  FSInv' /\ \A u \in Task : ~Ends(u)
  BY <1>2, ArriveKeeps DEF Ends
<1>3. QED
  BY <1>1, <1>2 DEF NextFS

LEMMA NextFSInv == FSInv /\ [NextFS]_fsVars => FSInv'
<1>1. CASE FSInv /\ NextFS
  BY <1>1, StepFacts
<1>2. CASE FSInv /\ UNCHANGED fsVars
  <2>1. disk' = disk /\ task' = task
    BY <1>2 DEF fsVars
  <2>2. \A t : (Busy(t) <=> Busy(t)') /\ (Alone(t) <=> Alone(t)') /\ Req(t)' = Req(t)
    BY <2>1 DEF Busy, Alone, Req
  <2>3. TaskOK'
    BY <1>2, <2>1, <2>2 DEF FSInv, TaskOK
  <2>4. Others' /\ Holding' /\ Apart' /\ Standing'
    BY <1>2, <2>1, <2>2 DEF FSInv, Others, Holding, Apart, Standing
  <2>5. QED
    BY <1>2, <2>1, <2>2, <2>3, <2>4 DEF FSInv
<1>3. QED
  BY <1>1, <1>2

LEMMA FSInvAlways == SpecFS => []FSInv
BY InitFSInv, NextFSInv, PTL DEF SpecFS

-----------------------------------------------------------------------------
(* What the runs check                                                     *)

\* The disk is a tree of files and folders, and what a request has open is there.
THEOREM FilesAreTyped == SpecFS => []FilesTypeOK
<1>1. ASSUME FSInv PROVE FilesTypeOK
  <2>1. DiskOK(disk)
    BY <1>1 DEF FSInv
  <2>2. DOMAIN disk.entry \subseteq FileName \ {PropertiesPath(Root)}
    BY <2>1 DEF DiskOK, Kinds
  <2>3. \A n \in DOMAIN disk.entry : disk.entry[n] # Folder => disk.entry[n] \in DOMAIN disk.data
    BY <2>1 DEF DiskOK, Kinds
  <2>4. ASSUME NEW n \in DOMAIN disk.entry, n # Self(Root) PROVE IsDir(disk, Parent(n[1]))
    <3>1. n = << n[1], n[2] >> /\ n[1] \in Path \union {Root} /\ n[2] \in {"self", "props"}
      BY <2>2, NameFacts
    <3>2. n[1] # Root
      BY <2>2, <2>4, <3>1 DEF Self, PropertiesPath
    <3>3. n[1] \in Path
      BY <3>1, <3>2
    <3>4. Parent(n[1]) = SubSeq(n[1], 1, Len(n[1]) - 1) /\ Len(n[1]) - 1 \in 0 .. Len(n[1]) - 1
      BY <3>3, PathFacts
    <3>5. QED
      BY <2>1, <3>4 DEF DiskOK, Hung
  <2>5. \A t \in Task : task[t].object # NoFile => task[t].object \in DOMAIN disk.data
    <3>1. \A t \in Task : Busy(t) => Running(task[t], disk)
      BY <1>1 DEF FSInv, TaskOK
    <3>2. \A t \in Task : Busy(t) \/ task[t].object = NoFile
      BY DEF Busy, IdleTask
    <3>3. QED
      BY <3>1, <3>2 DEF Running
  <2>6. QED
    BY <2>2, <2>3, <2>4, <2>5 DEF FilesTypeOK
<1>2. QED
  BY <1>1, FSInvAlways, PTL

\* At every call of a MOVE, what was at the source is at the source or the destination.
THEOREM MoveKeepsWhatItMoves == SpecFS => []MoveLosesNothing
<1> DEFINE Kept(r, was, now) ==
             \A n \in Resource(r.path) \intersect DOMAIN was :
                \/ n \in DOMAIN now /\ now[n] = was[n]
                \/ LET m == RenamedTo(n, r.path, r.dst) IN m \in DOMAIN now /\ now[m] = was[n]
<1>1. ASSUME FSInv, NEW r \in Requests, r.method = "MOVE", NEW was, NEW at, NEW seen, NEW now,
             MoveReached(r, was, at, seen, now)
      PROVE  Kept(r, was, now)
  <2> DEFINE src == r.path
             dst == r.dst
             image == Image(was, Tree(src), src, dst)
             done == Updated(Without(was, Tree(dst) \union Tree(src)), image)
             pp == PropertiesPath(dst)
  <2>1. /\ \A n \in Resource(src) :
             /\ RenamedTo(RenamedTo(n, src, dst), dst, src) = n /\ n \notin Resource(dst)
             /\ n \in Tree(src) => RenamedTo(n, src, dst) \in Tree(dst)
        /\ \A p \in {src, dst} : Resource(p) = Tree(p) \union {PropertiesPath(p)} /\ PropertiesPath(p) \notin Tree(p)
    BY <1>1, ImageNames
  <2>2. ASSUME now = was \/ now = Without(was, Tree(dst)) PROVE Kept(r, was, now)
    <3>1. \A n \in Resource(src) \intersect DOMAIN was : n \in DOMAIN now /\ now[n] = was[n]
      <4>1. \A n \in Resource(src) : n \notin Tree(dst)
        BY <2>1
      <4>2. QED
        BY <2>2, <4>1 DEF Without, Restrict
    <3>2. QED
      BY <3>1
  <2>3. ASSUME now = done \/ now = Without(done, {pp}) PROVE Kept(r, was, now)
    <3>1. ASSUME NEW n \in Tree(src) \intersect DOMAIN was
          PROVE  LET m == RenamedTo(n, src, dst) IN m \in DOMAIN image /\ image[m] = was[n] /\ m # pp
      <4> DEFINE there == Tree(src) \intersect DOMAIN was
                 m == RenamedTo(n, src, dst)
      <4>1. m # pp
        BY <2>1, <3>1
      <4>2. \A k \in there : RenamedTo(k, src, dst) = m => k = n
        BY <2>1, <3>1
      <4>3. image = [j \in {RenamedTo(k, src, dst) : k \in there} |-> was[CHOOSE k \in there : RenamedTo(k, src, dst) = j]]
        BY DEF Image
      <4>4. m \in {RenamedTo(k, src, dst) : k \in there}
        BY <3>1
      <4>5. (CHOOSE k \in there : RenamedTo(k, src, dst) = m) = n
        BY <3>1, <4>2
      <4> HIDE DEF image, m, there
      <4>6. QED
        BY <4>1, <4>3, <4>4, <4>5 DEF m
    <3>2. \A m \in DOMAIN image : m \in Tree(dst)
      <4>1. \A m \in DOMAIN image : \E n \in Tree(src) : m = RenamedTo(n, src, dst)
        BY DEF Image
      <4>2. QED
        BY <2>1, <4>1
    <3>3. PropertiesPath(src) \notin Tree(src) \union Tree(dst) \union DOMAIN image /\ PropertiesPath(src) # pp
      BY <2>1, <3>2
    <3> HIDE DEF image, pp
    <3>4. ASSUME NEW n \in Resource(src) \intersect DOMAIN was
          PROVE  \/ n \in DOMAIN now /\ now[n] = was[n]
                 \/ RenamedTo(n, src, dst) \in DOMAIN now /\ now[RenamedTo(n, src, dst)] = was[n]
      <4>1. CASE n \in Tree(src)
        <5> DEFINE m == RenamedTo(n, src, dst)
        <5>1. m \in DOMAIN image /\ image[m] = was[n] /\ m # pp
          BY <3>1, <3>4, <4>1
        <5> HIDE DEF m
        <5>2. m \in DOMAIN done /\ done[m] = was[n]
          BY <5>1 DEF Updated
        <5> HIDE DEF done
        <5>3. m \in DOMAIN now /\ now[m] = was[n]
          BY <2>3, <5>1, <5>2 DEF Without, Restrict
        <5>4. QED
          BY <5>3 DEF m
      <4>2. CASE n = PropertiesPath(src)
        <5>1. n \in DOMAIN done /\ done[n] = was[n]
          BY <3>3, <3>4, <4>2 DEF Updated, Without, Restrict
        <5> HIDE DEF done
        <5>2. QED
          BY <2>3, <3>3, <4>2, <5>1 DEF Without, Restrict
      <4>3. QED
        BY <2>1, <3>4, <4>1, <4>2
    <3>5. QED
      BY <3>4
  <2> HIDE DEF Kept
  <2>4. QED
    BY <1>1, <2>2, <2>3 DEF MoveReached, EndReached, Ending
<1>2. ASSUME FSInv PROVE MoveLosesNothing
  <2>1. ASSUME NEW t \in Task, Alone(t), Req(t).method = "MOVE"
        PROVE  Kept(Req(t), task[t].before, Shown(disk, Scope(Req(t))))
    <3> DEFINE now == Shown(disk, Scope(Req(t)))
    <3>1. Req(t) \in Requests /\ task[t].request = Req(t) /\ Reached(task[t], now)
      BY <1>2, <2>1, BusyFacts DEF Alone
    <3>2. MoveReached(Req(t), task[t].before, task[t].at, task[t].seen, now)
      BY <2>1, <3>1 DEF Reached
    <3> HIDE DEF now, Kept
    <3>3. Kept(Req(t), task[t].before, now)
      BY <1>1, <1>2, <2>1, <3>1, <3>2
    <3>4. QED
      BY <3>3 DEF now
  <2>2. QED
    BY <2>1 DEF MoveLosesNothing, Alone
<1>3. QED
  BY <1>2, FSInvAlways, PTL

\* A request that no other touches does what it promises, in all its calls together.
THEOREM EachActsAsOneStep == SpecFS => EachActsAlone
<1> DEFINE Does(t) == Ends(t) /\ task[t].alone /\ ~Clash(Req(t), task[t].before) =>
             Outcome(reply'.status, Shown(disk', Scope(Req(t)))) \in Outcomes(Req(t), task[t].before)
<1>1. ASSUME FSInv, NextFS PROVE \A t \in Task : Does(t)
  <2>1. SUFFICES ASSUME NEW t \in Task, Ends(t), task[t].alone, ~Clash(Req(t), task[t].before)
                 PROVE  Outcome(reply'.status, Shown(disk', Scope(Req(t)))) \in Outcomes(Req(t), task[t].before)
    OBVIOUS
  <2>2. PICK new : Ended(t, new) /\ \A n : Same(new, disk', n)
    BY <1>1, <2>1, StepFacts
  <2>3. Shown(disk', Scope(Req(t))) = Shown(new, Scope(Req(t)))
    BY <2>2, ShownSame
  <2>4. QED
    BY <2>1, <2>2, <2>3 DEF Ended, Alone, Ends
<1>2. FSInv /\ [NextFS]_fsVars => [\A t \in Task : Does(t)]_fsVars
  BY <1>1
<1>3. QED
  BY <1>2, FSInvAlways, PTL DEF SpecFS, EachActsAlone

\* A GET that is left alone sends the file as it was, of the length it announced.
THEOREM GetSendsWhatItFound == SpecFS => GetSendsTheFile
<1> DEFINE Sends == \A t \in Task :
             LET get == task[t]
             IN  Ends(t) /\ Req(t).method = "GET" /\ get.alone /\ get.object # NoFile =>
                   /\ reply'.sent = get.before[Self(Req(t).path)].data
                   /\ reply'.length = Len(reply'.sent)
<1>1. ASSUME FSInv, NextFS PROVE Sends
  BY <1>1, StepFacts DEF Ended, Alone, Ends
<1>2. FSInv /\ [NextFS]_fsVars => [Sends]_fsVars
  BY <1>1
<1>3. QED
  BY <1>2, FSInvAlways, PTL DEF SpecFS, GetSendsTheFile

\* Who is refused has written nothing, whatever else goes on.
THEOREM RefusedWroteNothing == SpecFS => RefusedHasNotWritten
<1> DEFINE Clean == \A t \in Task : Ends(t) /\ reply'.status \in 400 .. 499 /\ ~At(t, "copy_dir") => ~reply'.wrote
<1>1. ASSUME FSInv, NextFS PROVE Clean
  BY <1>1, StepFacts DEF Ended
<1>2. FSInv /\ [NextFS]_fsVars => [Clean]_fsVars
  BY <1>1
<1>3. QED
  BY <1>2, FSInvAlways, PTL DEF SpecFS, RefusedHasNotWritten
===============================================================================
