------------------------------- MODULE MemoryFS -------------------------------
(***************************************************************************)
(* The tree of the memory provider (class MemoryFS of provider/memory.py)  *)
(* and what each request does to it once it has the tree to itself.        *)
(*                                                                         *)
(* A file system is a record [data, props].  data is the dictionary from   *)
(* paths to nodes; a node lists its children by name, the child object     *)
(* being the one in data.  props is the heap of property objects: nodes    *)
(* refer to them, because a copy of Depth 1 lets two nodes share one.  Of  *)
(* a property object we keep one dead property and the content that its    *)
(* content_length and ETag were computed for.                              *)
(*                                                                         *)
(* Every request is a function of the file system that gives a Result: the *)
(* new file system and the status (500 for an uncaught exception, with     *)
(* what was done before it).                                               *)
(***************************************************************************)
EXTENDS DAVPaths, Integers

CONSTANTS
    Content,     \* bodies of files
    Empty,       \* b"", also the content of every folder
    Extra,       \* values of the dead property
    NoExtra      \* the property is not set

ASSUME FSAssumption ==
    /\ <<>> \notin Path           \* the paths below the provider's root
    /\ \A p \in Path : Len(p) > 1 => Parent(p) \in Path
    /\ Empty \in Content
    /\ NoExtra \in Extra

Root == <<>>
DAVDepth == {"ZERO", "ONE", "INFINITY"}

PropId == (Path \union {Root}) \X (Nat \ {0})
Prop == [extra : Extra, describes : Content]
Node == [is_file : BOOLEAN, content : Content, children : SUBSET Segment, props : PropId]

Result(fs, status) == [fs |-> fs, status |-> status]

-----------------------------------------------------------------------------
(* The dictionary, the children and the heap *)

HasNode(fs, path) == path \in DOMAIN fs.data
IsFolder(fs, path) == HasNode(fs, path) /\ ~fs.data[path].is_file

\* A property object no node refers to is gone.
Collected(fs) ==
    [fs EXCEPT !.props = Restrict(@, DOMAIN @ \intersect {fs.data[p].props : p \in DOMAIN fs.data})]

\* A fresh property object for a node created at a path.
FreshId(fs, path) ==
    <<path, CHOOSE k \in 1 .. Cardinality(DOMAIN fs.props) + 1 :
                /\ <<path, k>> \notin DOMAIN fs.props
                /\ \A j \in 1 .. k - 1 : <<path, j>> \in DOMAIN fs.props>>

Child(path, name) == Append(path, name)

\* The nodes a walk over the children of folders finds below a node, and the node.
Within(fs, top) ==
    {p \in DOMAIN fs.data :
        /\ IsPrefix(top, p)
        /\ \A k \in Len(top) .. Len(p) - 1 :
             LET folder == SubSeq(p, 1, k)
             IN  IsFolder(fs, folder) /\ p[k + 1] \in fs.data[folder].children}

\* add_node for a node and, in the copies below, for those under it.
AddTree(fs, top, nodes, props) ==
    LET data == [p \in DOMAIN fs.data \union DOMAIN nodes |->
                    IF p \in DOMAIN nodes THEN nodes[p] ELSE fs.data[p]]
        heap == [i \in DOMAIN fs.props \union DOMAIN props |->
                    IF i \in DOMAIN props THEN props[i] ELSE fs.props[i]]
    IN  Collected([data |-> [data EXCEPT ![Parent(top)].children = @ \union {Name(top)}],
                   props |-> heap])

AddNode(fs, path, is_file, content) ==
    LET id == FreshId(fs, path)
    IN  AddTree(fs, path,
                [p \in {path} |-> [is_file |-> is_file, content |-> content,
                                   children |-> {}, props |-> id]],
                [i \in {id} |-> [extra |-> NoExtra, describes |-> content]])

\* Mutant: the parent keeps the name of the child.
DelTreeOnly(fs, top) ==
    Collected([fs EXCEPT !.data = Restrict(@, DOMAIN @ \ Within(fs, top))])

\* Mutant: the node and its parent are taken the wrong way round.
DelTreeOfParent(fs, top) ==
    LET gone == Within(fs, Parent(top)) \ {Root}
        left == Restrict(fs.data, DOMAIN fs.data \ gone)
    IN  Collected([fs EXCEPT !.data =
            [p \in DOMAIN left |->
                [left[p] EXCEPT !.children = {n \in @ : Child(p, n) \notin gone}]]])

\* del_tree.  The root is filed under "/" but calls itself by the provider's prefix:
\* it is not popped.
DelTree(fs, top) ==
    LET gone == Within(fs, top) \ {Root}
        left == Restrict(fs.data, DOMAIN fs.data \ gone)
    IN  Collected([fs EXCEPT !.data =
            [p \in DOMAIN left |->
                [left[p] EXCEPT !.children = {n \in @ : Child(p, n) \notin gone}]]])

\* ... both of its pops raise KeyError when there is nothing to pop: the second one
\* after the first was made.
DelTreeRaises(fs, top) ==
    \/ top = Root
    \/ top # Root /\ ~HasNode(fs, top)
    \/ /\ top # Root /\ HasNode(fs, top)
       /\ Name(top) \notin fs.data[Parent(top)].children

-----------------------------------------------------------------------------
(* copy_node *)

\* A node that was deleted with the destination has lost its children with it.
ChildrenOf(fs, path) == IF HasNode(fs, path) THEN fs.data[path].children ELSE {}

\* The paths copied, the source first.
CopiedFrom(fs, src, depth) ==
    {src} \union (CASE depth = "ZERO" -> {}
                    [] depth = "ONE" -> {Child(src, name) : name \in ChildrenOf(fs, src)}
                    [] depth = "INFINITY" -> Within(fs, src))

Moved(path, src, dst) == AddChild(dst, GetChild(path, src))

\* The nodes of the copy.  Depth 0 makes a file of any source; sub-folders of a
\* copy of Depth 1 share the property object of their source.
CopyNodes(was, fs, src, dst, depth) ==
    LET from == CopiedFrom(fs, src, depth)
        node(p) == was.data[p]
        back(q) == AddChild(src, GetChild(q, dst))
        shared(p) == depth = "ONE" /\ p # src /\ ~node(p).is_file
        new(q) == [is_file |-> depth = "ZERO" \/ node(back(q)).is_file,
                   content |-> node(back(q)).content,
                   children |-> {n \in Segment : Child(back(q), n) \in from},
                   props |-> IF shared(back(q)) THEN node(back(q)).props ELSE FreshId(fs, q)]
    IN  [q \in {Moved(p, src, dst) : p \in from} |-> new(q)]

\* Mutant: the property objects of the source are kept, whatever was freed.
NoProps(was, src, dst, nodes) == <<>>

\* Mutant: every node of the copy gets a copy of the object of the source.
PropsOfSource(was, src, dst, nodes) ==
    [id \in {nodes[q].props : q \in DOMAIN nodes} |-> was.props[was.data[src].props]]

\* The property objects made for the copy: files in a folder get a copy of the
\* folder's object.
CopyProps(was, src, dst, nodes) ==
    LET back(q) == AddChild(src, GetChild(q, dst))
        node(p) == was.data[p]
        from(p) == IF p # src /\ node(p).is_file THEN Parent(p) ELSE p
        at(id)  == CHOOSE q \in DOMAIN nodes : nodes[q].props = id
    IN  [id \in {nodes[q].props : q \in DOMAIN nodes} |->
            was.props[node(from(back(at(id)))).props]]

CopyNode(fs, src, dst, depth) ==
    LET over  == IF HasNode(fs, dst) THEN DelTree(fs, dst) ELSE fs
        nodes == CopyNodes(fs, over, src, dst, depth)
    IN  IF HasNode(fs, dst) /\ DelTreeRaises(fs, dst)
        THEN Result(over, 500)
        ELSE Result(AddTree(over, dst, nodes, CopyProps(fs, src, dst, nodes)), 200)

-----------------------------------------------------------------------------
(* move_node: the node and its children, their children are left behind *)

\* Mutant: the children take the property object of the folder they go into.
MoveNodesShareProps(was, fs, src, dst) ==
    LET kids == {dst} \union
                {Child(dst, n) : n \in IF was.data[src].is_file THEN {} ELSE ChildrenOf(fs, src)}
        back(q) == AddChild(src, GetChild(q, dst))
    IN  [q \in kids |->
            [was.data[back(q)] EXCEPT !.children = IF q = dst THEN {Name(k) : k \in kids \ {dst}}
                                                   ELSE {},
                                      !.props = was.data[src].props]]

MoveNodes(was, fs, src, dst) ==
    LET kids == {dst} \union
                {Child(dst, n) : n \in IF was.data[src].is_file THEN {} ELSE ChildrenOf(fs, src)}
        back(q) == AddChild(src, GetChild(q, dst))
    IN  [q \in kids |->
            [was.data[back(q)] EXCEPT !.children = IF q = dst THEN {Name(k) : k \in kids \ {dst}}
                                                   ELSE {}]]

MoveNode(fs, src, dst) ==
    LET over  == IF HasNode(fs, dst) THEN DelTree(fs, dst) ELSE fs
        nodes == MoveNodes(fs, over, src, dst)
        props == [id \in {nodes[q].props : q \in DOMAIN nodes} |-> fs.props[id]]
        added == AddTree(over, dst, nodes, props)
        rest  == IF HasNode(added, src) THEN DelTree(added, src) ELSE added
    IN  IF HasNode(fs, dst) /\ DelTreeRaises(fs, dst)
        THEN Result(over, 500)
        ELSE Result(rest, IF DelTreeRaises(added, src) THEN 500 ELSE 200)

-----------------------------------------------------------------------------
(* The requests *)

Mkcol(fs, path) ==
    CASE path = Root -> Result(fs, 201)
      [] path # Root /\ ~HasNode(fs, Parent(path)) -> Result(fs, 409)
      [] path # Root /\ HasNode(fs, Parent(path)) /\ HasNode(fs, path) -> Result(fs, 405)
      [] OTHER -> Result(AddNode(fs, path, FALSE, Empty), 201)

\* The parent of a node may be gone: nothing is deleted, and 204 answered.
Delete(fs, path) ==
    CASE path = Root -> Result(fs, 201)
      [] path # Root /\ ~HasNode(fs, path) -> Result(fs, 404)
      [] path # Root /\ HasNode(fs, path) /\ ~HasNode(fs, Parent(path)) -> Result(fs, 204)
      [] OTHER -> Result(DelTree(fs, path), IF DelTreeRaises(fs, path) THEN 500 ELSE 204)

\* What PUT finds before it takes the body ...
PutRefusal(fs, path) ==
    CASE IsFolder(fs, path) -> 405
      [] ~IsFolder(fs, path) /\ ~HasNode(fs, Parent(path)) -> 409
      [] OTHER -> 0

\* ... and does with it: the properties of an existing file stay as they are.
PutContent(fs, path, content) ==
    IF HasNode(fs, path)
    THEN [fs EXCEPT !.data[path].content = content]
    ELSE AddNode(fs, path, TRUE, content)

Put(fs, path, content) ==
    IF PutRefusal(fs, path) # 0
    THEN Result(fs, PutRefusal(fs, path))
    ELSE Result(PutContent(fs, path, content), 201)

Proppatch(fs, path, extra) ==
    IF HasNode(fs, path)
    THEN Result([fs EXCEPT !.props[fs.data[path].props].extra = extra], 207)
    ELSE Result(fs, 404)

Success(overwrite) == IF overwrite THEN 204 ELSE 201

\* Mutant: the destination goes before the Overwrite header is looked at.
CopyCleansFirst(fs, src, dst, depth, overwrite) ==
    LET over   == IF HasNode(fs, dst) THEN DelTree(fs, dst) ELSE fs
        copied == CopyNode(fs, src, dst, depth)
    IN  CASE ~HasNode(fs, src) -> Result(fs, 403)
          [] HasNode(fs, src) /\ ~HasNode(fs, Parent(dst)) -> Result(fs, 409)
          [] /\ HasNode(fs, src) /\ HasNode(fs, Parent(dst))
             /\ HasNode(fs, dst) /\ ~overwrite -> Result(over, 412)
          [] OTHER -> Result(copied.fs, IF copied.status = 500 THEN 500 ELSE Success(overwrite))

Copy(fs, src, dst, depth, overwrite) ==
    LET copied == CopyNode(fs, src, dst, depth)
    IN  CASE ~HasNode(fs, src) -> Result(fs, 403)
          [] HasNode(fs, src) /\ ~HasNode(fs, Parent(dst)) -> Result(fs, 409)
          [] /\ HasNode(fs, src) /\ HasNode(fs, Parent(dst))
             /\ HasNode(fs, dst) /\ ~overwrite -> Result(fs, 412)
          [] OTHER -> Result(copied.fs, IF copied.status = 500 THEN 500 ELSE Success(overwrite))

Move(fs, src, dst, overwrite) ==
    LET moved == MoveNode(fs, src, dst)
    IN  CASE ~HasNode(fs, Parent(dst)) -> Result(fs, 400)
          [] HasNode(fs, Parent(dst)) /\ ~HasNode(fs, src) -> Result(fs, 403)
          [] /\ HasNode(fs, Parent(dst)) /\ HasNode(fs, src)
             /\ ~HasNode(fs, Parent(src)) -> Result(fs, 409)
          [] /\ HasNode(fs, Parent(dst)) /\ HasNode(fs, src) /\ HasNode(fs, Parent(src))
             /\ HasNode(fs, dst) /\ ~overwrite -> Result(fs, 412)
          [] OTHER -> Result(moved.fs, IF moved.status = 500 THEN 500 ELSE Success(overwrite))

\* MemoryFS.__init__
EmptyFS ==
    [data |-> [p \in {Root} |-> [is_file |-> FALSE, content |-> Empty, children |-> {},
                                 props |-> <<Root, 1>>]],
     props |-> [i \in {<<Root, 1>>} |-> [extra |-> NoExtra, describes |-> Empty]]]

-----------------------------------------------------------------------------
\* The dictionary of paths and the lists of children are one tree: every node but
\* the root hangs below a folder that lists it, and every name listed is a node.
IsOneTree(fs) ==
    /\ HasNode(fs, Root)
    /\ \A p \in DOMAIN fs.data :
         /\ p # Root => IsFolder(fs, Parent(p)) /\ Name(p) \in fs.data[Parent(p)].children
         /\ \A n \in fs.data[p].children : HasNode(fs, Child(p, n))
=============================================================================
