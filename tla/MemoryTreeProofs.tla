--------------------------- MODULE MemoryTreeProofs ---------------------------
(***************************************************************************)
(* The tree of the memory provider stays one tree, for any paths, contents *)
(* and number of nodes, when clients are Orderly; a COPY of infinite depth *)
(* and a flat MOVE then carry over all there is.                           *)
(*                                                                         *)
(* OneTree says of every node that its parent is a folder that lists it;   *)
(* what a deletion finds below a node needs that of every ancestor, so the *)
(* invariant, WellFormed, says it of all of them.  HeapTyped says of the   *)
(* property objects what TreeTypeOK does, and that there are no others     *)
(* than those nodes refer to: finitely many, so that there is a new one.   *)
(***************************************************************************)
EXTENDS MemoryTree, DAVPathsProofs

\* Every ancestor of a node is a folder that lists the next one on the way.
Linked(tree) ==
    \A p \in DOMAIN tree.data : \A k \in 0 .. Len(p) - 1 :
        /\ IsFolder(tree, SubSeq(p, 1, k))
        /\ p[k + 1] \in tree.data[SubSeq(p, 1, k)].children

Listed(tree) ==
    \A p \in DOMAIN tree.data : \A n \in tree.data[p].children : Child(p, n) \in DOMAIN tree.data

NodeShape(node) ==
    /\ node = [is_file |-> node.is_file, content |-> node.content,
               children |-> node.children, props |-> node.props]
    /\ node.is_file \in BOOLEAN
    /\ node.children \subseteq Segment

Shape(tree) ==
    /\ tree = [data |-> tree.data, props |-> tree.props]
    /\ tree.data = [p \in DOMAIN tree.data |-> tree.data[p]]
    /\ Root \in DOMAIN tree.data /\ DOMAIN tree.data \subseteq Target
    /\ \A p \in DOMAIN tree.data : NodeShape(tree.data[p])

WellFormed(tree) == Shape(tree) /\ Linked(tree) /\ Listed(tree)

-----------------------------------------------------------------------------
(* Facts about paths *)

\* The paths of requests are sequences of segments.
LEMMA TargetsAreSequences == Target \subseteq Seq(Segment) /\ Path \subseteq Target
<1>1. <<>> \in Seq(Segment)
  OBVIOUS
<1>2. QED
  BY <1>1, PathAssumption DEF Target, Root

\* A child's parent, name, and place below its ancestors.
LEMMA ChildFacts ==
    ASSUME NEW p \in Seq(Segment), NEW n \in Segment
    PROVE  /\ Child(p, n) \in Seq(Segment) /\ Len(Child(p, n)) = Len(p) + 1
           /\ \A i \in 1 .. Len(p) : Child(p, n)[i] = p[i]
           /\ Child(p, n)[Len(p) + 1] = n
           /\ IsPrefix(p, Child(p, n))
<1>1. /\ Child(p, n) \in Seq(Segment) /\ Len(Child(p, n)) = Len(p) + 1
      /\ \A i \in 1 .. Len(p) : Child(p, n)[i] = p[i]
      /\ Child(p, n)[Len(p) + 1] = n
  BY DEF Child
<1>2. QED
  BY <1>1, PrefixBySegment

\* Going one segment down a path.
LEMMA NextSegment ==
    ASSUME NEW p \in Seq(Segment), NEW k \in 0 .. Len(p) - 1
    PROVE  p[k + 1] \in Segment /\ Child(SubSeq(p, 1, k), p[k + 1]) = SubSeq(p, 1, k + 1)
<1>1. k \in 0 .. Len(p) /\ k + 1 \in 0 .. Len(p) /\ p[k + 1] \in Segment
  OBVIOUS
<1>2. /\ SubSeq(p, 1, k) \in Seq(Segment) /\ Len(SubSeq(p, 1, k)) = k
      /\ \A i \in 1 .. k : SubSeq(p, 1, k)[i] = p[i]
  BY <1>1, FirstSegments
<1>3. /\ SubSeq(p, 1, k + 1) \in Seq(Segment) /\ Len(SubSeq(p, 1, k + 1)) = k + 1
      /\ \A i \in 1 .. k + 1 : SubSeq(p, 1, k + 1)[i] = p[i]
  BY <1>1, FirstSegments
<1>4. /\ Child(SubSeq(p, 1, k), p[k + 1]) \in Seq(Segment)
      /\ Len(Child(SubSeq(p, 1, k), p[k + 1])) = k + 1
      /\ \A i \in 1 .. k : Child(SubSeq(p, 1, k), p[k + 1])[i] = p[i]
      /\ Child(SubSeq(p, 1, k), p[k + 1])[k + 1] = p[k + 1]
  <2>1. ASSUME NEW q \in Seq(Segment), Len(q) = k, NEW n \in Segment
        PROVE  /\ Child(q, n) \in Seq(Segment) /\ Len(Child(q, n)) = k + 1
               /\ \A i \in 1 .. k : Child(q, n)[i] = q[i]
               /\ Child(q, n)[k + 1] = n
    BY <2>1, ChildFacts
  <2>2. QED
    BY <1>1, <1>2, <2>1
<1>5. \A i \in 1 .. k + 1 : Child(SubSeq(p, 1, k), p[k + 1])[i] = SubSeq(p, 1, k + 1)[i]
  BY <1>3, <1>4
<1>6. QED
  BY <1>1, <1>3, <1>4, <1>5, SameSequence

\* A path other than the root is the child of its parent.
LEMMA ParentFacts ==
    ASSUME NEW p \in Seq(Segment), p # <<>>
    PROVE  /\ Len(p) >= 1 /\ Parent(p) \in Seq(Segment) /\ Len(Parent(p)) = Len(p) - 1
           /\ IsPrefix(Parent(p), p) /\ ~IsPrefix(p, Parent(p))
           /\ Name(p) \in Segment /\ Child(Parent(p), Name(p)) = p
<1>1. Len(p) >= 1 /\ Len(p) - 1 \in 0 .. Len(p) /\ Len(p) - 1 \in 0 .. Len(p) - 1
  OBVIOUS
<1>2. /\ Parent(p) \in Seq(Segment) /\ Len(Parent(p)) = Len(p) - 1 /\ IsPrefix(Parent(p), p)
  BY <1>1, FirstSegments DEF Parent
<1>3. ~IsPrefix(p, Parent(p))
  BY <1>1, <1>2, PrefixBySegment
<1>4. Name(p) \in Segment /\ Child(Parent(p), Name(p)) = SubSeq(p, 1, Len(p))
  <2>1. Len(p) - 1 + 1 = Len(p)
    OBVIOUS
  <2>2. QED
    BY <1>1, <2>1, NextSegment DEF Parent, Name
<1>5. SubSeq(p, 1, Len(p)) = p
  OBVIOUS
<1>6. QED
  BY <1>1, <1>2, <1>3, <1>4, <1>5

\* Replacing the dictionary of a tree, ...
LEMMA DataReplaced ==
    ASSUME NEW tree, tree = [data |-> tree.data, props |-> tree.props], NEW data
    PROVE  [tree EXCEPT !.data = data] = [data |-> data, props |-> tree.props]
<1> DEFINE d == tree.data  h == tree.props
<1>1. tree = [data |-> d, props |-> h]
  OBVIOUS
<1> HIDE DEF d, h
<1>2. [tree EXCEPT !.data = data] = [data |-> data, props |-> h]
  BY <1>1
<1>3. QED
  BY <1>2 DEF h

\* ... of its heap, ...
LEMMA PropsReplaced ==
    ASSUME NEW tree, tree = [data |-> tree.data, props |-> tree.props], NEW props
    PROVE  [tree EXCEPT !.props = props] = [data |-> tree.data, props |-> props]
<1> DEFINE d == tree.data  h == tree.props
<1>1. tree = [data |-> d, props |-> h]
  OBVIOUS
<1> HIDE DEF d, h
<1>2. [tree EXCEPT !.props = props] = [data |-> d, props |-> props]
  BY <1>1
<1>3. QED
  BY <1>2 DEF d

WithChildren(node, children) == [node EXCEPT !.children = children]

\* ... and of the children of a node.
LEMMA ChildrenReplaced ==
    ASSUME NEW node, NodeShape(node), NEW children \in SUBSET Segment
    PROVE  /\ NodeShape(WithChildren(node, children))
           /\ WithChildren(node, children).children = children
           /\ WithChildren(node, children).is_file = node.is_file
           /\ WithChildren(node, children).content = node.content
           /\ WithChildren(node, children).props = node.props
<1> DEFINE f == node.is_file  c == node.content  k == node.children  h == node.props
<1>1. node = [is_file |-> f, content |-> c, children |-> k, props |-> h] /\ f \in BOOLEAN
  BY DEF NodeShape
<1> HIDE DEF f, c, k, h
<1>2. WithChildren(node, children)
        = [is_file |-> f, content |-> c, children |-> children, props |-> h]
  BY <1>1 DEF WithChildren
<1>3. QED
  BY <1>1, <1>2 DEF NodeShape, f, c, h

\* Nothing but the root lies above the root.
LEMMA NothingAboveRoot ==
    ASSUME NEW top \in Seq(Segment), top # Root
    PROVE  ~IsPrefix(top, Root)
<1>1. Len(top) > 0 /\ <<>> \in Seq(Segment) /\ Len(<<>>) = 0
  BY DEF Root
<1>2. IsPrefix(top, <<>>) => Len(top) <= Len(<<>>)
  BY <1>1, PrefixBySegment
<1>3. QED
  BY <1>1, <1>2 DEF Root

-----------------------------------------------------------------------------
(* Deleting and adding *)

\* A node looks the same to a client.
Stays(tree, later, p) ==
    /\ p \in DOMAIN later.data
    /\ later.data[p].is_file = tree.data[p].is_file
    /\ later.data[p].content = tree.data[p].content


\* In a well-formed tree the walk over the children finds every path below.
LEMMA WithinIsBelow ==
    ASSUME NEW tree, WellFormed(tree), NEW top \in Seq(Segment)
    PROVE  Within(tree, top) = {p \in DOMAIN tree.data : IsPrefix(top, p)}
<1>1. ASSUME NEW p \in DOMAIN tree.data, NEW k \in Len(top) .. Len(p) - 1
      PROVE  /\ IsFolder(tree, SubSeq(p, 1, k))
             /\ p[k + 1] \in tree.data[SubSeq(p, 1, k)].children
  <2>1. Len(top) \in Nat
    OBVIOUS
  <2>2. p \in Seq(Segment)
    BY TargetsAreSequences DEF WellFormed, Shape
  <2>3. k \in 0 .. Len(p) - 1
    BY <2>1, <2>2
  <2>4. QED
    BY <2>3 DEF WellFormed, Linked
<1>2. QED
  BY <1>1 DEF Within

\* What a deletion does: the tree loses what lies below top, its folders stay folders.
LEMMA DelTreeEffect ==
    ASSUME NEW tree, WellFormed(tree), NEW top \in Seq(Segment), top # Root
    PROVE  LET del == DelTree(tree, top)
           IN  /\ DOMAIN del.data = {p \in DOMAIN tree.data : ~IsPrefix(top, p)}
               /\ \A p \in DOMAIN del.data :
                    del.data[p] = [tree.data[p] EXCEPT !.children =
                                     {n \in @ : ~IsPrefix(top, Child(p, n))}]
               /\ WellFormed(del)
<1> DEFINE del == DelTree(tree, top)
           gone == {p \in DOMAIN tree.data : IsPrefix(top, p)}
<1>1. Within(tree, top) \ {Root} = gone
  <2>1. ~IsPrefix(top, Root)
    BY NothingAboveRoot
  <2>2. QED
    BY <2>1, WithinIsBelow
<1>2. /\ del.data = [p \in DOMAIN tree.data \ gone |->
                      [tree.data[p] EXCEPT !.children = {n \in @ : Child(p, n) \notin gone}]]
      /\ del = [data |-> del.data, props |-> del.props]
  <2> DEFINE left == Restrict(tree.data, DOMAIN tree.data \ gone)
             cut == [p \in DOMAIN left |->
                       [left[p] EXCEPT !.children = {n \in @ : Child(p, n) \notin gone}]]
  <2>1. tree = [data |-> tree.data, props |-> tree.props]
    BY DEF WellFormed, Shape
  <2>2. del = Collected([tree EXCEPT !.data = cut])
    BY <1>1 DEF DelTree
  <2>3. [tree EXCEPT !.data = cut] = [data |-> cut, props |-> tree.props]
    BY <2>1, DataReplaced
  <2>4. del.data = cut /\ del = [data |-> del.data, props |-> del.props]
    BY <2>2, <2>3 DEF Collected
  <2>5. DOMAIN left = DOMAIN tree.data \ gone /\ \A p \in DOMAIN left : left[p] = tree.data[p]
    BY DEF Restrict
  <2>6. QED
    BY <2>4, <2>5
<1>3. \A p \in DOMAIN tree.data : p \in Seq(Segment) /\ NodeShape(tree.data[p])
  BY TargetsAreSequences DEF WellFormed, Shape
<1>4. DOMAIN del.data = {p \in DOMAIN tree.data : ~IsPrefix(top, p)}
  BY <1>2
<1>5. ASSUME NEW p \in DOMAIN del.data
      PROVE  del.data[p] = [tree.data[p] EXCEPT !.children =
                              {n \in @ : ~IsPrefix(top, Child(p, n))}]
  <2>1. p \in DOMAIN tree.data
    BY <1>4
  <2>2. \A n \in tree.data[p].children : Child(p, n) \in DOMAIN tree.data
    BY <2>1 DEF WellFormed, Listed
  <2>3. {n \in tree.data[p].children : Child(p, n) \notin gone}
          = {n \in tree.data[p].children : ~IsPrefix(top, Child(p, n))}
    BY <2>2
  <2>4. QED
    BY <1>2, <2>3
<1>6. ASSUME NEW p \in DOMAIN del.data
      PROVE  /\ NodeShape(del.data[p]) /\ del.data[p].is_file = tree.data[p].is_file
             /\ del.data[p].children =
                  {n \in tree.data[p].children : ~IsPrefix(top, Child(p, n))}
  <2> DEFINE kept == {n \in tree.data[p].children : ~IsPrefix(top, Child(p, n))}
  <2>1. NodeShape(tree.data[p])
    BY <1>3, <1>4
  <2>2. kept \in SUBSET Segment
    BY <2>1 DEF NodeShape
  <2>3. del.data[p] = WithChildren(tree.data[p], kept)
    BY <1>5 DEF WithChildren
  <2> HIDE DEF kept, del
  <2>4. /\ NodeShape(del.data[p]) /\ del.data[p].children = kept
        /\ del.data[p].is_file = tree.data[p].is_file
    BY <2>1, <2>2, <2>3, ChildrenReplaced
  <2>5. QED
    BY <2>4 DEF kept
<1>7. Shape(del)
  <2>1. Root \in DOMAIN del.data
    <3>1. Root \in DOMAIN tree.data
      BY DEF WellFormed, Shape
    <3>2. ~IsPrefix(top, Root)
      BY NothingAboveRoot
    <3>3. QED
      BY <1>4, <3>1, <3>2
  <2>2. DOMAIN del.data \subseteq Target
    BY <1>4 DEF WellFormed, Shape
  <2>3. del.data = [p \in DOMAIN del.data |-> del.data[p]]
    BY <1>2
  <2>4. QED
    BY <1>2, <1>6, <2>1, <2>2, <2>3 DEF Shape
<1>8. ASSUME NEW p \in DOMAIN del.data, NEW k \in 0 .. Len(p) - 1
      PROVE  /\ IsFolder(del, SubSeq(p, 1, k))
             /\ p[k + 1] \in del.data[SubSeq(p, 1, k)].children
  <2> DEFINE folder == SubSeq(p, 1, k)
  <2>1. p \in DOMAIN tree.data /\ p \in Seq(Segment) /\ ~IsPrefix(top, p)
    BY <1>3, <1>4
  <2>2. IsFolder(tree, folder) /\ p[k + 1] \in tree.data[folder].children
    BY <2>1 DEF WellFormed, Linked
  <2>3. k \in 0 .. Len(p) /\ k + 1 \in 0 .. Len(p)
    BY <2>1
  <2>4. /\ SubSeq(p, 1, k) \in Seq(Segment) /\ IsPrefix(SubSeq(p, 1, k), p)
        /\ SubSeq(p, 1, k + 1) \in Seq(Segment) /\ IsPrefix(SubSeq(p, 1, k + 1), p)
    BY <2>1, <2>3, FirstSegments
  <2>5. ~IsPrefix(top, SubSeq(p, 1, k)) /\ ~IsPrefix(top, SubSeq(p, 1, k + 1))
    BY <2>1, <2>4, PrefixTransitive
  <2>6. Child(folder, p[k + 1]) = SubSeq(p, 1, k + 1)
    BY <2>1, NextSegment
  <2>7. folder \in DOMAIN del.data
    BY <1>4, <2>2, <2>5 DEF IsFolder, HasNode
  <2>8. QED
    BY <1>6, <2>2, <2>5, <2>6, <2>7 DEF IsFolder, HasNode
<1>9. ASSUME NEW p \in DOMAIN del.data, NEW n \in del.data[p].children
      PROVE  Child(p, n) \in DOMAIN del.data
  <2>1. p \in DOMAIN tree.data /\ n \in tree.data[p].children /\ ~IsPrefix(top, Child(p, n))
    BY <1>4, <1>6
  <2>2. Child(p, n) \in DOMAIN tree.data
    BY <2>1 DEF WellFormed, Listed
  <2>3. QED
    BY <1>4, <2>1, <2>2
<1>10. Linked(del) /\ Listed(del)
  BY <1>8, <1>9 DEF Linked, Listed
<1>11. QED
  BY <1>4, <1>5, <1>7, <1>10 DEF WellFormed

\* ... and nodes that stay look the same to a client.
LEMMA DelTreeStays ==
    ASSUME NEW tree, WellFormed(tree), NEW top \in Seq(Segment), top # Root
    PROVE  /\ WellFormed(DelTree(tree, top))
           /\ DOMAIN DelTree(tree, top).data = {p \in DOMAIN tree.data : ~IsPrefix(top, p)}
           /\ \A p \in DOMAIN DelTree(tree, top).data :
                /\ Stays(tree, DelTree(tree, top), p)
                /\ DelTree(tree, top).data[p].children
                     = {n \in tree.data[p].children : ~IsPrefix(top, Child(p, n))}
                /\ DelTree(tree, top).data[p].props = tree.data[p].props
<1> DEFINE del == DelTree(tree, top)
<1>1. /\ DOMAIN del.data = {p \in DOMAIN tree.data : ~IsPrefix(top, p)}
      /\ \A p \in DOMAIN del.data :
           del.data[p] = WithChildren(tree.data[p],
                                      {n \in tree.data[p].children : ~IsPrefix(top, Child(p, n))})
      /\ WellFormed(del)
  BY DelTreeEffect DEF WithChildren
<1>2. ASSUME NEW p \in DOMAIN del.data
      PROVE  /\ Stays(tree, del, p)
             /\ del.data[p].children = {n \in tree.data[p].children : ~IsPrefix(top, Child(p, n))}
             /\ del.data[p].props = tree.data[p].props
  <2> DEFINE kept == {n \in tree.data[p].children : ~IsPrefix(top, Child(p, n))}
  <2>1. NodeShape(tree.data[p])
    BY <1>1 DEF WellFormed, Shape
  <2>2. kept \in SUBSET Segment
    BY <2>1 DEF NodeShape
  <2>3. del.data[p] = WithChildren(tree.data[p], kept)
    BY <1>1
  <2> HIDE DEF kept, del
  <2>4. Stays(tree, del, p) /\ del.data[p].children = kept /\ del.data[p].props = tree.data[p].props
    BY <2>1, <2>2, <2>3, ChildrenReplaced DEF Stays
  <2>5. QED
    BY <2>4 DEF kept
<1>3. QED
  BY <1>1, <1>2

\* Nodes that are one tree themselves, with its top at a path.
Grafts(top, nodes) ==
    /\ top \in DOMAIN nodes /\ DOMAIN nodes \subseteq Path
    /\ \A q \in DOMAIN nodes :
         /\ IsPrefix(top, q) /\ NodeShape(nodes[q])
         /\ \A k \in Len(top) .. Len(q) - 1 :
              /\ SubSeq(q, 1, k) \in DOMAIN nodes /\ ~nodes[SubSeq(q, 1, k)].is_file
              /\ q[k + 1] \in nodes[SubSeq(q, 1, k)].children
         /\ \A n \in nodes[q].children : Child(q, n) \in DOMAIN nodes

\* What an addition does: the nodes are there, the others stay, and only the folder
\* above them lists one child more.
LEMMA AddTreeEffect ==
    ASSUME NEW tree, WellFormed(tree), NEW top \in Path, NEW nodes, NEW props,
           IsFolder(tree, Parent(top)), \A p \in DOMAIN tree.data : ~IsPrefix(top, p),
           Grafts(top, nodes)
    PROVE  LET add == AddTree(tree, top, nodes, props)
           IN  /\ DOMAIN add.data = DOMAIN tree.data \union DOMAIN nodes
               /\ \A q \in DOMAIN nodes : add.data[q] = nodes[q]
               /\ \A p \in DOMAIN tree.data :
                    /\ add.data[p].is_file = tree.data[p].is_file
                    /\ add.data[p].content = tree.data[p].content
                    /\ add.data[p].props = tree.data[p].props
                    /\ add.data[p].children = tree.data[p].children \union
                                                {n \in {Name(top)} : p = Parent(top)}
               /\ WellFormed(add)
<1> DEFINE add == AddTree(tree, top, nodes, props)
           above == Parent(top)
<1>1. top \in Seq(Segment) /\ top # <<>>
  BY TargetsAreSequences, FSAssumption
<1>2. /\ Len(top) >= 1 /\ above \in Seq(Segment) /\ Len(above) = Len(top) - 1
      /\ IsPrefix(above, top) /\ Name(top) \in Segment /\ Child(above, Name(top)) = top
      /\ above \in DOMAIN tree.data /\ ~tree.data[above].is_file
  BY <1>1, ParentFacts DEF IsFolder, HasNode
<1>3. \A p \in DOMAIN tree.data : p \in Seq(Segment) /\ NodeShape(tree.data[p])
  BY TargetsAreSequences DEF WellFormed, Shape
<1>4. \A q \in DOMAIN nodes : /\ q \in Seq(Segment) /\ q \notin DOMAIN tree.data
                              /\ IsPrefix(top, q) /\ NodeShape(nodes[q])
  BY TargetsAreSequences DEF Grafts
<1>5. /\ DOMAIN add.data = DOMAIN tree.data \union DOMAIN nodes
      /\ add.data = [p \in DOMAIN add.data |-> add.data[p]]
      /\ add = [data |-> add.data, props |-> add.props]
      /\ \A q \in DOMAIN nodes : add.data[q] = nodes[q]
      /\ \A p \in DOMAIN tree.data \ {above} : add.data[p] = tree.data[p]
      /\ add.data[above] = WithChildren(tree.data[above],
                                        tree.data[above].children \union {Name(top)})
  <2> DEFINE all == [p \in DOMAIN tree.data \union DOMAIN nodes |->
                       IF p \in DOMAIN nodes THEN nodes[p] ELSE tree.data[p]]
             data == [all EXCEPT ![above].children = @ \union {Name(top)}]
             heap == [i \in DOMAIN tree.props \union DOMAIN props |->
                        IF i \in DOMAIN props THEN props[i] ELSE tree.props[i]]
  <2>1. add = Collected([data |-> data, props |-> heap])
    BY DEF AddTree
  <2>2. add.data = data /\ add = [data |-> add.data, props |-> add.props]
    <3> HIDE DEF data, heap
    <3>1. add = [[data |-> data, props |-> heap] EXCEPT !.props =
                   Restrict(@, DOMAIN @ \intersect {data[p].props : p \in DOMAIN data})]
      BY <2>1 DEF Collected
    <3>2. QED
      BY <3>1
  <2>3. above \in DOMAIN all /\ all[above] = tree.data[above]
    BY <1>2, <1>4
  <2>4. data = [p \in DOMAIN all |->
                  IF p = above THEN [all[p] EXCEPT !.children = @ \union {Name(top)}] ELSE all[p]]
    BY <2>3
  <2>5. data[above] = WithChildren(tree.data[above], tree.data[above].children \union {Name(top)})
    BY <2>3, <2>4 DEF WithChildren
  <2>6. /\ \A q \in DOMAIN nodes : data[q] = nodes[q]
        /\ \A p \in DOMAIN tree.data \ {above} : data[p] = tree.data[p]
        /\ DOMAIN data = DOMAIN tree.data \union DOMAIN nodes
    BY <1>2, <1>4, <2>4
  <2>7. data = [p \in DOMAIN data |-> data[p]]
    BY <2>4
  <2> HIDE DEF add, data
  <2>8. QED
    BY <2>2, <2>5, <2>6, <2>7
<1> HIDE DEF add
<1>6. ASSUME NEW p \in DOMAIN tree.data
      PROVE  /\ NodeShape(add.data[p])
             /\ add.data[p].is_file = tree.data[p].is_file
             /\ add.data[p].content = tree.data[p].content
             /\ add.data[p].props = tree.data[p].props
             /\ add.data[p].children = tree.data[p].children \union
                                         {n \in {Name(top)} : p = Parent(top)}
  <2>1. CASE p = above
    <3>1. tree.data[above].children \union {Name(top)} \in SUBSET Segment
      BY <1>2, <1>3 DEF NodeShape
    <3>2. QED
      BY <1>2, <1>3, <1>5, <2>1, <3>1, ChildrenReplaced
  <2>2. CASE p # above
    BY <1>3, <1>5, <2>2
  <2>3. QED
    BY <2>1, <2>2
<1>7. Shape(add)
  <2>1. Root \in DOMAIN add.data /\ DOMAIN add.data \subseteq Target
    BY <1>5, TargetsAreSequences DEF WellFormed, Shape, Grafts
  <2>2. \A p \in DOMAIN add.data : NodeShape(add.data[p])
    BY <1>4, <1>5, <1>6
  <2>3. QED
    BY <1>5, <2>1, <2>2 DEF Shape
<1>8. ASSUME NEW p \in DOMAIN tree.data, NEW k \in 0 .. Len(p) - 1
      PROVE  /\ IsFolder(add, SubSeq(p, 1, k))
             /\ p[k + 1] \in add.data[SubSeq(p, 1, k)].children
  <2>1. /\ IsFolder(tree, SubSeq(p, 1, k))
        /\ p[k + 1] \in tree.data[SubSeq(p, 1, k)].children
    BY DEF WellFormed, Linked
  <2>2. QED
    BY <1>5, <1>6, <2>1 DEF IsFolder, HasNode
<1>9. ASSUME NEW q \in DOMAIN nodes, NEW k \in 0 .. Len(q) - 1
      PROVE  /\ IsFolder(add, SubSeq(q, 1, k))
             /\ q[k + 1] \in add.data[SubSeq(q, 1, k)].children
  <2>1. /\ q \in Seq(Segment) /\ Len(top) <= Len(q)
        /\ \A j \in 0 .. Len(top) : SubSeq(q, 1, j) = SubSeq(top, 1, j)
        /\ \A i \in 1 .. Len(top) : q[i] = top[i]
    BY <1>1, <1>4, PrefixIsFirst
  <2>2. /\ \A j \in 0 .. Len(above) : SubSeq(top, 1, j) = SubSeq(above, 1, j)
        /\ \A i \in 1 .. Len(above) : top[i] = above[i]
    BY <1>1, <1>2, PrefixIsFirst
  <2>3. CASE k < Len(above)
    <3>1. k \in 0 .. Len(above) - 1 /\ k \in 0 .. Len(above) /\ k \in 0 .. Len(top)
          /\ k + 1 \in 1 .. Len(above) /\ k + 1 \in 1 .. Len(top)
      BY <1>2, <2>3
    <3>2. SubSeq(q, 1, k) = SubSeq(above, 1, k) /\ q[k + 1] = above[k + 1]
      BY <2>1, <2>2, <3>1
    <3>3. QED
      BY <1>2, <1>8, <3>1, <3>2
  <2>4. CASE k = Len(above)
    <3>1. k \in 0 .. Len(top) /\ k \in 0 .. Len(above) /\ k + 1 \in 1 .. Len(top) /\ k + 1 = Len(top)
      BY <1>2, <2>4
    <3>2. SubSeq(q, 1, k) = SubSeq(above, 1, k) /\ q[k + 1] = Name(top)
      BY <2>1, <2>2, <3>1 DEF Name
    <3>3. SubSeq(above, 1, k) = above
      BY <1>2, <2>4
    <3>4. QED
      BY <1>2, <1>5, <1>6, <3>2, <3>3 DEF IsFolder, HasNode
  <2>5. CASE k > Len(above)
    <3>1. k \in Len(top) .. Len(q) - 1
      BY <1>2, <2>1, <2>5
    <3>2. /\ SubSeq(q, 1, k) \in DOMAIN nodes /\ ~nodes[SubSeq(q, 1, k)].is_file
          /\ q[k + 1] \in nodes[SubSeq(q, 1, k)].children
      BY <3>1 DEF Grafts
    <3>3. QED
      BY <1>5, <3>2 DEF IsFolder, HasNode
  <2>6. QED
    BY <1>2, <2>3, <2>4, <2>5
<1>10. Linked(add)
  BY <1>5, <1>8, <1>9 DEF Linked
<1>11. Listed(add)
  <2>1. ASSUME NEW p \in DOMAIN tree.data, NEW n \in add.data[p].children
        PROVE  Child(p, n) \in DOMAIN add.data
    <3>1. CASE n \in tree.data[p].children
      BY <1>5, <3>1 DEF WellFormed, Listed
    <3>2. CASE n \notin tree.data[p].children
      <4>1. p = above /\ n = Name(top)
        BY <1>6, <3>2
      <4>2. QED
        BY <1>2, <1>5, <4>1 DEF Grafts
    <3>3. QED
      BY <3>1, <3>2
  <2>2. ASSUME NEW q \in DOMAIN nodes, NEW n \in add.data[q].children
        PROVE  Child(q, n) \in DOMAIN add.data
    BY <1>5 DEF Grafts
  <2>3. QED
    BY <1>5, <2>1, <2>2 DEF Listed
<1>12. QED
  BY <1>5, <1>6, <1>7, <1>10, <1>11 DEF add, WellFormed

\* Nothing lies below a path that is not there.
LEMMA NothingBelowNothing ==
    ASSUME NEW tree, WellFormed(tree), NEW top \in Seq(Segment), ~HasNode(tree, top)
    PROVE  \A p \in DOMAIN tree.data : ~IsPrefix(top, p)
<1> SUFFICES ASSUME NEW p \in DOMAIN tree.data, IsPrefix(top, p)
             PROVE  FALSE
  OBVIOUS
<1>1. p \in Seq(Segment)
  BY TargetsAreSequences DEF WellFormed, Shape
<1>2. Len(top) <= Len(p) /\ top = SubSeq(p, 1, Len(top))
  BY <1>1, PrefixIsFirst
<1>3. CASE Len(top) = Len(p)
  <2>1. SubSeq(p, 1, Len(p)) = p
    BY <1>1
  <2>2. QED
    BY <1>2, <1>3, <2>1 DEF HasNode
<1>4. CASE Len(top) < Len(p)
  <2>1. Len(top) \in 0 .. Len(p) - 1
    BY <1>1, <1>4
  <2>2. IsFolder(tree, SubSeq(p, 1, Len(top)))
    BY <2>1 DEF WellFormed, Linked
  <2>3. QED
    BY <1>2, <2>2 DEF IsFolder
<1>5. QED
  BY <1>1, <1>2, <1>3, <1>4

\* Every node but the root can be deleted: its parent is a folder that lists it.
LEMMA NodesHang ==
    ASSUME NEW tree, WellFormed(tree), NEW top \in DOMAIN tree.data, top # Root
    PROVE  /\ IsFolder(tree, Parent(top)) /\ Name(top) \in tree.data[Parent(top)].children
           /\ ~DelTreeRaises(tree, top)
<1>1. top \in Seq(Segment) /\ top # <<>>
  BY TargetsAreSequences DEF WellFormed, Shape, Root
<1>2. Len(top) - 1 \in 0 .. Len(top) - 1 /\ Len(top) - 1 + 1 = Len(top)
  BY <1>1, ParentFacts
<1>3. /\ IsFolder(tree, SubSeq(top, 1, Len(top) - 1))
      /\ top[Len(top) - 1 + 1] \in tree.data[SubSeq(top, 1, Len(top) - 1)].children
  BY <1>2 DEF WellFormed, Linked
<1>4. QED
  BY <1>2, <1>3 DEF Parent, Name, DelTreeRaises, HasNode

\* A well-formed tree is one tree.
LEMMA WellFormedIsOneTree ==
    ASSUME NEW tree, WellFormed(tree)
    PROVE  IsOneTree(tree)
<1>1. HasNode(tree, Root) /\ \A p \in DOMAIN tree.data : \A n \in tree.data[p].children :
        HasNode(tree, Child(p, n))
  BY DEF WellFormed, Shape, Listed, HasNode
<1>2. QED
  BY <1>1, NodesHang DEF IsOneTree

-----------------------------------------------------------------------------
(* The requests that name one path *)

\* A request leaves a well-formed tree, the same one if it is refused, and touches
\* nothing but the trees at the tops.
Sound(tree, result, tops) ==
    /\ WellFormed(result.fs)
    /\ result.status >= 400 => result.fs = tree
    /\ \A p \in DOMAIN tree.data :
         (\A top \in tops : ~IsPrefix(top, p)) => Stays(tree, result.fs, p)

\* A request that does nothing is sound.
LEMMA NothingDone ==
    ASSUME NEW tree, WellFormed(tree), NEW status, NEW tops
    PROVE  Sound(tree, Result(tree, status), tops)
BY DEF Sound, Result, Stays

\* One node added below a folder.
LEMMA AddNodeSound ==
    ASSUME NEW tree, WellFormed(tree), NEW path \in Path, ~HasNode(tree, path),
           IsFolder(tree, Parent(path)), NEW is_file \in BOOLEAN, NEW content
    PROVE  Sound(tree, Result(AddNode(tree, path, is_file, content), 201), {path})
<1> DEFINE node == [is_file |-> is_file, content |-> content,
                    children |-> {}, props |-> FreshId(tree, path)]
           nodes == [p \in {path} |-> node]
           heap == [i \in {FreshId(tree, path)} |-> [extra |-> NoExtra, describes |-> content]]
<1>1. path \in Seq(Segment)
  BY TargetsAreSequences
<1>2. \A p \in DOMAIN tree.data : ~IsPrefix(path, p)
  BY <1>1, NothingBelowNothing
<1>3. Grafts(path, nodes)
  <2>1. NodeShape(node)
    BY DEF NodeShape
  <2>2. IsPrefix(path, path)
    BY <1>1, PrefixReflexive DEF IsParentOfOrIsSelf
  <2>3. Len(path) .. Len(path) - 1 = {}
    BY <1>1
  <2> HIDE DEF node
  <2>4. node.children = {}
    BY DEF node
  <2>5. QED
    BY <2>1, <2>2, <2>3, <2>4 DEF Grafts
<1>4. AddNode(tree, path, is_file, content) = AddTree(tree, path, nodes, heap)
  BY DEF AddNode
<1> HIDE DEF nodes, heap
<1>5. /\ WellFormed(AddTree(tree, path, nodes, heap))
      /\ \A p \in DOMAIN tree.data : Stays(tree, AddTree(tree, path, nodes, heap), p)
  BY <1>2, <1>3, AddTreeEffect DEF Stays
<1>6. QED
  BY <1>4, <1>5 DEF Sound, Result

\* MKCOL adds a folder or does nothing.
LEMMA MkcolSound ==
    ASSUME NEW tree, WellFormed(tree), NEW path \in Target,
           HasNode(tree, Parent(path)) => IsFolder(tree, Parent(path))
    PROVE  Sound(tree, Mkcol(tree, path), {path}) /\ (path = Root => Mkcol(tree, path).fs = tree)
<1>1. CASE path = Root
  BY <1>1, NothingDone DEF Mkcol, Result
<1>2. CASE path # Root /\ (~HasNode(tree, Parent(path)) \/ HasNode(tree, path))
  BY <1>2, NothingDone DEF Mkcol
<1>3. CASE path # Root /\ HasNode(tree, Parent(path)) /\ ~HasNode(tree, path)
  <2>1. path \in Path
    BY <1>3 DEF Target
  <2>2. Mkcol(tree, path) = Result(AddNode(tree, path, FALSE, Empty), 201)
    BY <1>3 DEF Mkcol
  <2>3. QED
    BY <1>3, <2>1, <2>2, AddNodeSound
<1>4. QED
  BY <1>1, <1>2, <1>3

\* DELETE takes out a tree or does nothing.
LEMMA DeleteSound ==
    ASSUME NEW tree, WellFormed(tree), NEW path \in Target
    PROVE  Sound(tree, Delete(tree, path), {path}) /\ (path = Root => Delete(tree, path).fs = tree)
<1>1. CASE path = Root
  BY <1>1, NothingDone DEF Delete, Result
<1>2. CASE path # Root /\ ~HasNode(tree, path)
  BY <1>2, NothingDone DEF Delete
<1>3. CASE path # Root /\ HasNode(tree, path)
  <2>1. path \in Seq(Segment) /\ path \in DOMAIN tree.data
    BY <1>3, TargetsAreSequences DEF HasNode
  <2>2. HasNode(tree, Parent(path)) /\ ~DelTreeRaises(tree, path)
    BY <1>3, <2>1, NodesHang DEF IsFolder
  <2>3. Delete(tree, path) = Result(DelTree(tree, path), 204)
    BY <1>3, <2>2 DEF Delete
  <2>4. /\ WellFormed(DelTree(tree, path))
        /\ DOMAIN DelTree(tree, path).data = {p \in DOMAIN tree.data : ~IsPrefix(path, p)}
        /\ \A p \in DOMAIN DelTree(tree, path).data : Stays(tree, DelTree(tree, path), p)
    BY <1>3, <2>1, DelTreeStays
  <2>5. QED
    BY <1>3, <2>3, <2>4 DEF Sound, Result
<1>4. QED
  BY <1>1, <1>2, <1>3

\* A tree whose nodes differ in their content and properties only.
LEMMA ContentDoesNotMatter ==
    ASSUME NEW tree, WellFormed(tree), NEW later,
           later = [data |-> later.data, props |-> later.props],
           DOMAIN later.data = DOMAIN tree.data,
           later.data = [p \in DOMAIN later.data |-> later.data[p]],
           \A p \in DOMAIN tree.data :
               /\ NodeShape(later.data[p])
               /\ later.data[p].is_file = tree.data[p].is_file
               /\ later.data[p].children = tree.data[p].children
    PROVE  WellFormed(later)
<1>1. Shape(later)
  BY DEF WellFormed, Shape
<1>2. \A p \in DOMAIN tree.data : \A k \in 0 .. Len(p) - 1 :
        /\ SubSeq(p, 1, k) \in DOMAIN tree.data /\ ~tree.data[SubSeq(p, 1, k)].is_file
        /\ p[k + 1] \in tree.data[SubSeq(p, 1, k)].children
  BY DEF WellFormed, Linked, IsFolder, HasNode
<1>3. Linked(later)
  BY <1>2 DEF Linked, IsFolder, HasNode
<1>4. Listed(later)
  BY DEF WellFormed, Listed
<1>5. QED
  BY <1>1, <1>3, <1>4 DEF WellFormed

WithContent(node, content) == [node EXCEPT !.content = content]

\* Replacing the content of a node.
LEMMA ContentReplaced ==
    ASSUME NEW node, NodeShape(node), NEW content
    PROVE  /\ NodeShape(WithContent(node, content))
           /\ WithContent(node, content).children = node.children
           /\ WithContent(node, content).is_file = node.is_file
           /\ WithContent(node, content).content = content
           /\ WithContent(node, content).props = node.props
<1> DEFINE f == node.is_file  c == node.content  k == node.children  h == node.props
<1>1. /\ node = [is_file |-> f, content |-> c, children |-> k, props |-> h]
      /\ f \in BOOLEAN /\ k \subseteq Segment
  BY DEF NodeShape
<1> HIDE DEF f, c, k, h
<1>2. WithContent(node, content)
        = [is_file |-> f, content |-> content, children |-> k, props |-> h]
  BY <1>1 DEF WithContent
<1>3. QED
  BY <1>1, <1>2 DEF NodeShape, f, k, h

\* PUT adds a file, replaces the content of one, or does nothing.
LEMMA PutSound ==
    ASSUME NEW tree, WellFormed(tree), NEW path \in Target, NEW content,
           HasNode(tree, Parent(path)) => IsFolder(tree, Parent(path))
    PROVE  Sound(tree, Put(tree, path, content), {path})
<1>1. CASE PutRefusal(tree, path) # 0
  BY <1>1, NothingDone DEF Put
<1>2. CASE PutRefusal(tree, path) = 0
  <2>1. ~IsFolder(tree, path) /\ HasNode(tree, Parent(path))
    BY <1>2 DEF PutRefusal
  <2>2. path # Root
    <3>1. Parent(Root) = Root
      BY DEF Root, Parent
    <3>2. QED
      BY <2>1, <3>1
  <2>3. path \in Path /\ path \in Seq(Segment)
    BY <2>2, TargetsAreSequences DEF Target
  <2>4. CASE ~HasNode(tree, path)
    <3>1. Put(tree, path, content) = Result(AddNode(tree, path, TRUE, content), 201)
      BY <1>2, <2>4 DEF Put, PutContent
    <3>2. QED
      BY <2>1, <2>3, <2>4, <3>1, AddNodeSound
  <2>5. CASE HasNode(tree, path)
    <3> DEFINE data == [tree.data EXCEPT ![path].content = content]
               later == [data |-> data, props |-> tree.props]
    <3>1. Put(tree, path, content) = Result(later, 201)
      <4>1. [tree EXCEPT !.data[path].content = content] = [tree EXCEPT !.data = data]
        OBVIOUS
      <4>2. [tree EXCEPT !.data = data] = later
        BY DataReplaced DEF WellFormed, Shape
      <4>3. QED
        BY <1>2, <2>5, <4>1, <4>2 DEF Put, PutContent
    <3>2. /\ DOMAIN data = DOMAIN tree.data /\ data = [p \in DOMAIN data |-> data[p]]
          /\ data[path] = WithContent(tree.data[path], content)
          /\ \A p \in DOMAIN tree.data \ {path} : data[p] = tree.data[p]
      BY <2>5 DEF HasNode, WithContent
    <3>3. \A p \in DOMAIN tree.data : NodeShape(tree.data[p])
      BY DEF WellFormed, Shape
    <3>4. ASSUME NEW p \in DOMAIN tree.data
          PROVE  /\ NodeShape(data[p]) /\ data[p].is_file = tree.data[p].is_file
                 /\ data[p].children = tree.data[p].children
      <4> HIDE DEF data
      <4>1. QED
        BY <3>2, <3>3, ContentReplaced
    <3>5. later.data = data /\ later = [data |-> later.data, props |-> later.props]
      OBVIOUS
    <3> HIDE DEF later, data
    <3>6. WellFormed(later)
      BY <3>2, <3>4, <3>5, ContentDoesNotMatter
    <3>7. \A p \in DOMAIN tree.data : ~IsPrefix(path, p) => Stays(tree, later, p)
      <4>1. IsPrefix(path, path)
        BY <2>3, PrefixReflexive DEF IsParentOfOrIsSelf
      <4>2. QED
        BY <3>2, <3>5, <4>1 DEF Stays
    <3>8. QED
      BY <3>1, <3>6, <3>7 DEF Sound, Result
  <2>6. QED
    BY <2>4, <2>5
<1>3. QED
  BY <1>1, <1>2

\* PROPPATCH leaves the nodes alone.
LEMMA ProppatchSound ==
    ASSUME NEW tree, WellFormed(tree), NEW path, NEW extra
    PROVE  Sound(tree, Proppatch(tree, path, extra), {path})
<1>1. CASE ~HasNode(tree, path)
  BY <1>1, NothingDone DEF Proppatch
<1>2. CASE HasNode(tree, path)
  <2> DEFINE heap == [tree.props EXCEPT ![tree.data[path].props].extra = extra]
             later == [data |-> tree.data, props |-> heap]
  <2>1. Proppatch(tree, path, extra) = Result(later, 207)
    <3>1. [tree EXCEPT !.props[tree.data[path].props].extra = extra] = [tree EXCEPT !.props = heap]
      OBVIOUS
    <3>2. [tree EXCEPT !.props = heap] = later
      <4>1. tree = [data |-> tree.data, props |-> tree.props]
        BY DEF WellFormed, Shape
      <4> HIDE DEF heap
      <4>2. QED
        BY <4>1, PropsReplaced
    <3>3. QED
      BY <1>2, <3>1, <3>2 DEF Proppatch
  <2>2. later.data = tree.data /\ later = [data |-> later.data, props |-> later.props]
    OBVIOUS
  <2> HIDE DEF later
  <2>3. WellFormed(later)
    BY <2>2, ContentDoesNotMatter DEF WellFormed, Shape
  <2>4. QED
    BY <2>1, <2>2, <2>3 DEF Sound, Result, Stays
<1>3. QED
  BY <1>1, <1>2

-----------------------------------------------------------------------------
(* Copies and moves *)

\* A path below the source and its place below the destination.
LEMMA MovedFacts ==
    ASSUME NEW p \in Seq(Segment), NEW src \in Seq(Segment), NEW dst \in Seq(Segment), IsPrefix(src, p)
    PROVE  LET m == Moved(p, src, dst)
           IN  /\ m \in Seq(Segment) /\ Len(m) = Len(dst) + (Len(p) - Len(src))
               /\ \A i \in 1 .. Len(dst) : m[i] = dst[i]
               /\ \A i \in 1 .. Len(p) - Len(src) : m[Len(dst) + i] = p[Len(src) + i]
               /\ IsPrefix(dst, m)
BY RelocatedFacts DEF Moved, Relocated

\* The source itself goes to the destination.
LEMMA MovedTop ==
    ASSUME NEW src \in Seq(Segment), NEW dst \in Seq(Segment)
    PROVE  Moved(src, src, dst) = dst
BY RelocatedTop DEF Moved, Relocated

\* Moving back.
LEMMA MovedBack ==
    ASSUME NEW p \in Seq(Segment), NEW src \in Seq(Segment), NEW dst \in Seq(Segment), IsPrefix(src, p)
    PROVE  Moved(Moved(p, src, dst), dst, src) = p
BY RelocatedBack DEF Moved, Relocated

\* The ancestors of a moved path are the moved ancestors.
LEMMA MovedFirst ==
    ASSUME NEW p \in Seq(Segment), NEW src \in Seq(Segment), NEW dst \in Seq(Segment), IsPrefix(src, p),
           NEW k \in Len(dst) .. Len(Moved(p, src, dst))
    PROVE  LET j == k - Len(dst) + Len(src)
           IN  /\ j \in Len(src) .. Len(p) /\ IsPrefix(src, SubSeq(p, 1, j))
               /\ SubSeq(Moved(p, src, dst), 1, k) = Moved(SubSeq(p, 1, j), src, dst)
               /\ k < Len(Moved(p, src, dst)) => /\ j < Len(p)
                                                 /\ Moved(p, src, dst)[k + 1] = p[j + 1]
BY RelocatedFirst DEF Moved, Relocated

\* The children of a moved path are the moved children.
LEMMA MovedChild ==
    ASSUME NEW p \in Seq(Segment), NEW src \in Seq(Segment), NEW dst \in Seq(Segment), IsPrefix(src, p), NEW n \in Segment
    PROVE  Child(Moved(p, src, dst), n) = Moved(Child(p, n), src, dst)
<1> DEFINE c == Child(p, n)
           m == Moved(p, src, dst)
           mc == Moved(c, src, dst)
<1>1. /\ c \in Seq(Segment) /\ Len(c) = Len(p) + 1 /\ \A i \in 1 .. Len(p) : c[i] = p[i]
      /\ c[Len(p) + 1] = n /\ IsPrefix(p, c)
  BY ChildFacts
<1> HIDE DEF c
<1>2. IsPrefix(src, c)
  BY <1>1, PrefixTransitive
<1>3. /\ Len(src) <= Len(p) /\ Len(src) \in Nat /\ Len(p) \in Nat /\ Len(dst) \in Nat
  BY PrefixBySegment
<1>4. /\ m \in Seq(Segment) /\ Len(m) = Len(dst) + (Len(p) - Len(src))
      /\ \A i \in 1 .. Len(dst) : m[i] = dst[i]
      /\ \A i \in 1 .. Len(p) - Len(src) : m[Len(dst) + i] = p[Len(src) + i]
  BY MovedFacts
<1>5. /\ mc \in Seq(Segment) /\ Len(mc) = Len(dst) + (Len(c) - Len(src))
      /\ \A i \in 1 .. Len(dst) : mc[i] = dst[i]
      /\ \A i \in 1 .. Len(c) - Len(src) : mc[Len(dst) + i] = c[Len(src) + i]
  BY <1>1, <1>2, MovedFacts, ZenonT(30)
<1> HIDE DEF m, mc
<1>6. /\ Child(m, n) \in Seq(Segment) /\ Len(Child(m, n)) = Len(m) + 1
      /\ \A i \in 1 .. Len(m) : Child(m, n)[i] = m[i]
      /\ Child(m, n)[Len(m) + 1] = n
  BY <1>4, ChildFacts
<1>7. Len(mc) = Len(m) + 1
  BY <1>1, <1>3, <1>4, <1>5
<1>8. ASSUME NEW i \in 1 .. Len(m) + 1
      PROVE  Child(m, n)[i] = mc[i]
  <2>1. CASE i <= Len(dst)
    BY <1>3, <1>4, <1>5, <1>6, <2>1
  <2>2. CASE i > Len(dst)
    <3> DEFINE x == i - Len(dst)
    <3>1. x \in 1 .. Len(c) - Len(src) /\ Len(dst) + x = i
      BY <1>1, <1>3, <1>4, <2>2
    <3>2. mc[i] = c[Len(src) + x]
      BY <1>5, <3>1
    <3>3. CASE i = Len(m) + 1
      <4>1. Len(src) + x = Len(p) + 1
        BY <1>3, <1>4, <3>3
      <4>2. QED
        BY <1>1, <1>6, <3>2, <3>3, <4>1
    <3>4. CASE i # Len(m) + 1
      <4>1. x \in 1 .. Len(p) - Len(src) /\ i \in 1 .. Len(m) /\ Len(src) + x \in 1 .. Len(p)
        BY <1>3, <1>4, <2>2, <3>4
      <4>2. m[Len(dst) + x] = p[Len(src) + x]
        BY <1>4, <4>1
      <4>3. QED
        BY <1>1, <1>6, <3>1, <3>2, <4>1, <4>2
    <3>5. QED
      BY <3>3, <3>4
  <2>3. QED
    BY <1>3, <2>1, <2>2
<1>9. Child(m, n) = mc
  BY <1>5, <1>6, <1>7, <1>8, SameSequence
<1>10. QED
  BY <1>9 DEF m, mc, c

Unrelated(src, dst) == ~IsPrefix(src, dst) /\ ~IsPrefix(dst, src)

\* The tree once the destination is cleared: what it was, without the destination.
Over(tree, dst) == IF HasNode(tree, dst) THEN DelTree(tree, dst) ELSE tree

\* Clearing the destination is a deletion, or nothing.
LEMMA OverStays ==
    ASSUME NEW tree, WellFormed(tree), NEW dst \in Path
    PROVE  LET over == Over(tree, dst)
           IN  /\ WellFormed(over)
               /\ DOMAIN over.data = {p \in DOMAIN tree.data : ~IsPrefix(dst, p)}
               /\ \A p \in DOMAIN over.data :
                    /\ Stays(tree, over, p)
                    /\ over.data[p].children
                         = {n \in tree.data[p].children : ~IsPrefix(dst, Child(p, n))}
                    /\ over.data[p].props = tree.data[p].props
               /\ ~(HasNode(tree, dst) /\ DelTreeRaises(tree, dst))
<1>1. dst \in Seq(Segment) /\ dst # Root
  BY TargetsAreSequences, FSAssumption DEF Root
<1>2. CASE HasNode(tree, dst)
  <2>1. ~DelTreeRaises(tree, dst)
    BY <1>1, <1>2, NodesHang DEF HasNode
  <2>2. Over(tree, dst) = DelTree(tree, dst)
    BY <1>2 DEF Over
  <2>3. QED
    BY <1>1, <1>2, <2>1, <2>2, DelTreeStays
<1>3. CASE ~HasNode(tree, dst)
  <2>1. \A p \in DOMAIN tree.data : ~IsPrefix(dst, p)
    BY <1>1, <1>3, NothingBelowNothing
  <2>2. \A p \in DOMAIN tree.data : \A n \in tree.data[p].children : ~IsPrefix(dst, Child(p, n))
    BY <2>1 DEF WellFormed, Listed
  <2>3. Over(tree, dst) = tree
    BY <1>3 DEF Over
  <2>4. QED
    BY <1>3, <2>1, <2>2, <2>3 DEF Stays
<1>4. QED
  BY <1>2, <1>3

\* What lies below the source survives the clearing of an unrelated destination.
LEMMA SourceSurvives ==
    ASSUME NEW src \in Seq(Segment), NEW dst \in Seq(Segment), Unrelated(src, dst),
           NEW p \in Seq(Segment), IsPrefix(src, p)
    PROVE  ~IsPrefix(dst, p)
BY AncestorsComparable DEF Unrelated, IsParentOfOrIsSelf, IsParentOf, IsStrictPrefix

\* A set of nodes below the source, closed towards it: what a copy takes.
Taken(tree, src, from, flat) ==
    /\ src \in from
    /\ \A p \in from :
         /\ p \in DOMAIN tree.data /\ IsPrefix(src, p)
         /\ \A j \in Len(src) .. Len(p) - 1 :
              SubSeq(p, 1, j) \in from /\ ~tree.data[SubSeq(p, 1, j)].is_file /\ ~flat

\* What copy_node takes, for each Depth, is closed towards the source.
LEMMA CopiedFromIsTaken ==
    ASSUME NEW tree, WellFormed(tree), NEW src \in DOMAIN tree.data, NEW dst \in Path,
           Unrelated(src, dst), NEW depth \in DAVDepth
    PROVE  Taken(tree, src, CopiedFrom(Over(tree, dst), src, depth), depth = "ZERO")
<1> DEFINE over == Over(tree, dst)
           from == CopiedFrom(over, src, depth)
<1>1. src \in Seq(Segment) /\ dst \in Seq(Segment) /\ \A p \in DOMAIN tree.data : p \in Seq(Segment)
  BY TargetsAreSequences DEF WellFormed, Shape
<1>2. IsPrefix(src, src) /\ Len(src) .. Len(src) - 1 = {}
  BY <1>1, PrefixReflexive DEF IsParentOfOrIsSelf
<1>3. /\ WellFormed(over) /\ src \in DOMAIN over.data
      /\ DOMAIN over.data = {p \in DOMAIN tree.data : ~IsPrefix(dst, p)}
      /\ over.data[src].children = {n \in tree.data[src].children : ~IsPrefix(dst, Child(src, n))}
  BY OverStays DEF Unrelated
<1> HIDE DEF over
<1>4. CASE depth = "ZERO"
  <2>1. from = {src}
    BY <1>4 DEF CopiedFrom
  <2>2. QED
    BY <1>2, <2>1 DEF Taken, over
<1>5. CASE depth = "ONE"
  <2>1. from = {src} \union {Child(src, name) : name \in over.data[src].children}
    BY <1>3, <1>5 DEF CopiedFrom, ChildrenOf, HasNode
  <2>2. ASSUME NEW n \in over.data[src].children
        PROVE  /\ Child(src, n) \in DOMAIN tree.data /\ IsPrefix(src, Child(src, n))
               /\ Len(Child(src, n)) = Len(src) + 1 /\ SubSeq(Child(src, n), 1, Len(src)) = src
               /\ ~tree.data[src].is_file
    <3>1. Child(src, n) \in DOMAIN tree.data /\ n \in Segment
      BY <1>3 DEF WellFormed, Listed, Shape, NodeShape
    <3>2. /\ Child(src, n) \in Seq(Segment) /\ Len(Child(src, n)) = Len(src) + 1
          /\ IsPrefix(src, Child(src, n))
      BY <1>1, <3>1, ChildFacts
    <3>3. SubSeq(Child(src, n), 1, Len(src)) = src
      BY <1>1, <3>2, PrefixIsFirst
    <3>4. Len(src) \in 0 .. Len(Child(src, n)) - 1
      BY <1>1, <3>2
    <3>5. IsFolder(tree, SubSeq(Child(src, n), 1, Len(src)))
      BY <3>1, <3>4 DEF WellFormed, Linked
    <3>6. QED
      BY <3>1, <3>2, <3>3, <3>5 DEF IsFolder
  <2>3. \A n \in over.data[src].children : Len(src) .. Len(Child(src, n)) - 1 = {Len(src)}
    BY <1>1, <2>2
  <2>4. QED
    BY <1>2, <1>5, <2>1, <2>2, <2>3 DEF Taken, over
<1>6. CASE depth = "INFINITY"
  <2>1. from = {src} \union Within(over, src)
    BY <1>6 DEF CopiedFrom
  <2>2. Within(over, src) = {p \in DOMAIN over.data : IsPrefix(src, p)}
    BY <1>1, <1>3, WithinIsBelow
  <2>3. from = {p \in DOMAIN tree.data : IsPrefix(src, p)}
    BY <1>1, <1>2, <1>3, <2>1, <2>2, SourceSurvives
  <2>4. ASSUME NEW p \in from, NEW j \in Len(src) .. Len(p) - 1
        PROVE  SubSeq(p, 1, j) \in from /\ ~tree.data[SubSeq(p, 1, j)].is_file
    <3>1. p \in DOMAIN tree.data /\ p \in Seq(Segment) /\ IsPrefix(src, p)
      BY <1>1, <2>3
    <3>2. j \in 0 .. Len(p) - 1 /\ j \in 0 .. Len(p) /\ Len(src) <= j
      BY <1>1, <3>1
    <3>3. IsFolder(tree, SubSeq(p, 1, j))
      BY <3>1, <3>2 DEF WellFormed, Linked
    <3>4. IsPrefix(src, SubSeq(p, 1, j))
      BY <1>1, <3>1, <3>2, PrefixOfFirst
    <3>5. QED
      BY <2>3, <3>3, <3>4 DEF IsFolder, HasNode
  <2>5. QED
    BY <1>2, <1>6, <2>3, <2>4 DEF Taken, over
<1>7. QED
  BY <1>4, <1>5, <1>6 DEF DAVDepth

\* The nodes that stand for what is taken, at the destination.
LEMMA CopyGrafts ==
    ASSUME NEW tree, WellFormed(tree), NEW src \in Seq(Segment), NEW dst \in Path,
           NEW from, NEW flat \in BOOLEAN, Taken(tree, src, from, flat),
           \A p \in DOMAIN tree.data : IsPrefix(src, p) => Moved(p, src, dst) \in Path,
           NEW nodes, DOMAIN nodes = {Moved(p, src, dst) : p \in from},
           \A p \in from :
               /\ NodeShape(nodes[Moved(p, src, dst)])
               /\ nodes[Moved(p, src, dst)].is_file = (flat \/ tree.data[p].is_file)
               /\ nodes[Moved(p, src, dst)].children = {n \in Segment : Child(p, n) \in from}
    PROVE  Grafts(dst, nodes)
<1>1. dst \in Seq(Segment) /\ \A p \in from : p \in Seq(Segment) /\ IsPrefix(src, p)
  BY TargetsAreSequences DEF WellFormed, Shape, Taken
<1>2. dst \in DOMAIN nodes
  <2>1. Moved(src, src, dst) = dst
    BY <1>1, MovedTop
  <2>2. QED
    BY <2>1 DEF Taken
<1>3. DOMAIN nodes \subseteq Path
  BY DEF Taken
<1>4. ASSUME NEW p \in from
      PROVE  /\ IsPrefix(dst, Moved(p, src, dst))
             /\ \A n \in nodes[Moved(p, src, dst)].children :
                  Child(Moved(p, src, dst), n) \in DOMAIN nodes
  <2>1. p \in Seq(Segment) /\ IsPrefix(src, p)
    BY <1>1
  <2>2. IsPrefix(dst, Moved(p, src, dst))
    BY <1>1, <2>1, MovedFacts
  <2>3. ASSUME NEW n \in nodes[Moved(p, src, dst)].children
        PROVE  Child(Moved(p, src, dst), n) \in DOMAIN nodes
    <3>1. n \in Segment /\ Child(p, n) \in from
      OBVIOUS
    <3>2. Child(Moved(p, src, dst), n) = Moved(Child(p, n), src, dst)
      BY <1>1, <2>1, <3>1, MovedChild
    <3>3. QED
      BY <3>1, <3>2
  <2>4. QED
    BY <2>2, <2>3
<1>5. ASSUME NEW p \in from, NEW k \in Len(dst) .. Len(Moved(p, src, dst)) - 1
      PROVE  LET q == Moved(p, src, dst)
             IN  /\ SubSeq(q, 1, k) \in DOMAIN nodes /\ ~nodes[SubSeq(q, 1, k)].is_file
                 /\ q[k + 1] \in nodes[SubSeq(q, 1, k)].children
  <2> DEFINE q == Moved(p, src, dst)
             j == k - Len(dst) + Len(src)
             a == SubSeq(p, 1, j)
  <2>1. p \in Seq(Segment) /\ IsPrefix(src, p) /\ q \in Seq(Segment)
    BY <1>1, MovedFacts
  <2>2. k \in Len(dst) .. Len(q) /\ k < Len(q)
    BY <1>1, <2>1
  <2>3. /\ j \in Len(src) .. Len(p) /\ SubSeq(q, 1, k) = Moved(a, src, dst)
        /\ j < Len(p) /\ q[k + 1] = p[j + 1]
    BY <1>1, <2>1, <2>2, MovedFirst
  <2> HIDE DEF q, j
  <2>4. j \in Len(src) .. Len(p) - 1 /\ j \in 0 .. Len(p) - 1
    BY <2>1, <2>3
  <2>5. a \in from /\ ~tree.data[a].is_file /\ ~flat
    BY <2>4 DEF Taken
  <2>6. p[j + 1] \in Segment /\ Child(a, p[j + 1]) = SubSeq(p, 1, j + 1)
    BY <2>1, <2>4, NextSegment
  <2>7. SubSeq(p, 1, j + 1) \in from
    <3>1. CASE j + 1 = Len(p)
      <4>1. SubSeq(p, 1, Len(p)) = p
        BY <2>1
      <4>2. QED
        BY <3>1, <4>1
    <3>2. CASE j + 1 # Len(p)
      <4>1. j + 1 \in Len(src) .. Len(p) - 1
        BY <2>1, <2>4, <3>2
      <4>2. QED
        BY <4>1 DEF Taken
    <3>3. QED
      BY <3>1, <3>2
  <2>8. p[j + 1] \in {n \in Segment : Child(a, n) \in from}
    BY <2>6, <2>7
  <2> HIDE DEF a
  <2>9. QED
    BY <2>3, <2>5, <2>8 DEF q
<1>6. QED
  BY <1>2, <1>3, <1>4, <1>5 DEF Grafts

\* The destination cleared and filled.
LEMMA TransferEffect ==
    ASSUME NEW tree, WellFormed(tree), NEW dst \in Path, IsFolder(tree, Parent(dst)),
           NEW nodes, Grafts(dst, nodes), NEW props
    PROVE  LET added == AddTree(Over(tree, dst), dst, nodes, props)
           IN  /\ WellFormed(added)
               /\ \A p \in DOMAIN tree.data : ~IsPrefix(dst, p) => Stays(tree, added, p)
<1> DEFINE over == Over(tree, dst)
           added == AddTree(over, dst, nodes, props)
<1>1. /\ WellFormed(over)
      /\ DOMAIN over.data = {p \in DOMAIN tree.data : ~IsPrefix(dst, p)}
      /\ \A p \in DOMAIN over.data : Stays(tree, over, p)
  BY OverStays
<1> HIDE DEF over
<1>2. IsFolder(over, Parent(dst))
  <2>1. dst \in Seq(Segment) /\ dst # <<>>
    BY TargetsAreSequences, FSAssumption
  <2>2. ~IsPrefix(dst, Parent(dst))
    BY <2>1, ParentFacts
  <2>3. QED
    BY <1>1, <2>2 DEF IsFolder, HasNode, Stays
<1>3. /\ WellFormed(added)
      /\ DOMAIN added.data = DOMAIN over.data \union DOMAIN nodes
      /\ \A p \in DOMAIN over.data : /\ added.data[p].is_file = over.data[p].is_file
                                     /\ added.data[p].content = over.data[p].content
  BY <1>1, <1>2, AddTreeEffect
<1> HIDE DEF added
<1>4. QED
  BY <1>1, <1>3 DEF Stays, added, over

\* The property object of a copied node is a new one, but for the folders in a copy of
\* Depth 1.
CopiedProps(tree, over, src, dst, depth, p) ==
    IF depth = "ONE" /\ p # src /\ ~tree.data[p].is_file
    THEN tree.data[p].props
    ELSE FreshId(over, Moved(p, src, dst))

\* A copy of Depth 0 makes a file of any source.
CopiedFile(tree, depth, p) == depth = "ZERO" \/ tree.data[p].is_file

\* What is taken, at the destination, with its content.
Copied(tree, over, src, dst, depth, from, nodes) ==
    /\ DOMAIN nodes = {Moved(p, src, dst) : p \in from}
    /\ \A p \in from :
         /\ nodes[Moved(p, src, dst)].is_file = CopiedFile(tree, depth, p)
         /\ nodes[Moved(p, src, dst)].content = tree.data[p].content
         /\ nodes[Moved(p, src, dst)].props = CopiedProps(tree, over, src, dst, depth, p)

\* The nodes a COPY makes are one tree at the destination.
LEMMA CopyMakes ==
    ASSUME NEW tree, WellFormed(tree), NEW src \in DOMAIN tree.data, NEW dst \in Path,
           Unrelated(src, dst), NEW depth \in DAVDepth,
           \A p \in DOMAIN tree.data : IsPrefix(src, p) => Moved(p, src, dst) \in Path
    PROVE  LET over == Over(tree, dst)
               from == CopiedFrom(over, src, depth)
               nodes == CopyNodes(tree, over, src, dst, depth)
           IN  /\ Taken(tree, src, from, depth = "ZERO")
               /\ Copied(tree, over, src, dst, depth, from, nodes)
               /\ Grafts(dst, nodes)
<1> DEFINE over == Over(tree, dst)
           from == CopiedFrom(over, src, depth)
           nodes == CopyNodes(tree, over, src, dst, depth)
<1>1. /\ src \in Seq(Segment) /\ dst \in Seq(Segment)
      /\ \A p \in DOMAIN tree.data : p \in Seq(Segment) /\ NodeShape(tree.data[p])
  BY TargetsAreSequences DEF WellFormed, Shape
<1>2. Taken(tree, src, from, depth = "ZERO")
  BY CopiedFromIsTaken
<1>3. DOMAIN nodes = {Moved(p, src, dst) : p \in from}
  BY DEF CopyNodes
<1>4. ASSUME NEW p \in from
      PROVE  /\ NodeShape(nodes[Moved(p, src, dst)])
             /\ nodes[Moved(p, src, dst)].is_file = (depth = "ZERO" \/ tree.data[p].is_file)
             /\ nodes[Moved(p, src, dst)].children = {n \in Segment : Child(p, n) \in from}
             /\ nodes[Moved(p, src, dst)].content = tree.data[p].content
             /\ nodes[Moved(p, src, dst)].props = CopiedProps(tree, over, src, dst, depth, p)
  <2> DEFINE q == Moved(p, src, dst)
             back == AddChild(src, GetChild(q, dst))
             id == CopiedProps(tree, over, src, dst, depth, p)
  <2>1. p \in DOMAIN tree.data /\ IsPrefix(src, p) /\ p \in Seq(Segment)
    BY <1>1, <1>2 DEF Taken
  <2>2. back = p
    <3>1. Moved(q, dst, src) = p
      BY <1>1, <2>1, MovedBack
    <3>2. QED
      BY <3>1 DEF Moved
  <2>3. q \in {Moved(x, src, dst) : x \in from}
    OBVIOUS
  <2>4. nodes[q] = [is_file |-> depth = "ZERO" \/ tree.data[back].is_file,
                    content |-> tree.data[back].content,
                    children |-> {n \in Segment : Child(back, n) \in from},
                    props |-> IF depth = "ONE" /\ back # src /\ ~tree.data[back].is_file
                              THEN tree.data[back].props ELSE FreshId(over, q)]
    BY <2>3, Zenon DEF CopyNodes
  <2>5. nodes[q] = [is_file |-> depth = "ZERO" \/ tree.data[p].is_file,
                    content |-> tree.data[p].content,
                    children |-> {n \in Segment : Child(p, n) \in from},
                    props |-> id]
    BY <2>2, <2>4, Zenon DEF CopiedProps
  <2>6. tree.data[p].is_file \in BOOLEAN
    BY <1>1, <2>1 DEF NodeShape
  <2> HIDE DEF q, nodes, from, id
  <2>7. /\ NodeShape(nodes[q]) /\ nodes[q].is_file = (depth = "ZERO" \/ tree.data[p].is_file)
        /\ nodes[q].children = {n \in Segment : Child(p, n) \in from}
        /\ nodes[q].content = tree.data[p].content /\ nodes[q].props = id
    BY <2>5, <2>6 DEF NodeShape
  <2>8. QED
    BY <2>7 DEF q, id
<1>5. Grafts(dst, nodes)
  <2> DEFINE flat == depth = "ZERO"
  <2>1. flat \in BOOLEAN /\ Taken(tree, src, from, flat)
    BY <1>2
  <2>2. \A p \in from :
          /\ NodeShape(nodes[Moved(p, src, dst)])
          /\ nodes[Moved(p, src, dst)].is_file = (flat \/ tree.data[p].is_file)
          /\ nodes[Moved(p, src, dst)].children = {n \in Segment : Child(p, n) \in from}
    BY <1>4
  <2> HIDE DEF nodes, from, flat
  <2>3. QED
    BY <1>1, <1>3, <2>1, <2>2, CopyGrafts
<1>6. \A p \in from : nodes[Moved(p, src, dst)].is_file = CopiedFile(tree, depth, p)
  BY <1>4, Zenon DEF CopiedFile
<1> HIDE DEF nodes, from, over
<1>7. QED
  <2>1. Copied(tree, over, src, dst, depth, from, nodes)
    BY <1>3, <1>4, <1>6, Zenon DEF Copied
  <2>2. QED
    BY <1>2, <1>5, <2>1 DEF nodes, from, over

\* COPY clears the destination and fills it, or does nothing.
LEMMA CopySound ==
    ASSUME NEW tree, WellFormed(tree), NEW src \in Target, NEW dst \in Path,
           Unrelated(src, dst), NEW depth \in DAVDepth, NEW overwrite \in BOOLEAN,
           \A p \in DOMAIN tree.data : IsPrefix(src, p) => Moved(p, src, dst) \in Path,
           HasNode(tree, Parent(dst)) => IsFolder(tree, Parent(dst))
    PROVE  Sound(tree, Copy(tree, src, dst, depth, overwrite), {src, dst})
<1>1. CASE \/ ~HasNode(tree, src) \/ ~HasNode(tree, Parent(dst))
           \/ HasNode(tree, dst) /\ ~overwrite
  BY <1>1, NothingDone DEF Copy
<1>2. CASE /\ HasNode(tree, src) /\ HasNode(tree, Parent(dst))
           /\ HasNode(tree, dst) => overwrite
  <2> DEFINE over == Over(tree, dst)
             nodes == CopyNodes(tree, over, src, dst, depth)
             props == CopyProps(tree, src, dst, nodes)
             added == AddTree(over, dst, nodes, props)
  <2>1. src \in DOMAIN tree.data
    BY <1>2 DEF HasNode
  <2>5. Grafts(dst, nodes)
    BY <2>1, CopyMakes
  <2>6. IsFolder(tree, Parent(dst)) /\ ~(HasNode(tree, dst) /\ DelTreeRaises(tree, dst))
    BY <1>2, OverStays
  <2>7. Copy(tree, src, dst, depth, overwrite) = Result(added, Success(overwrite))
    <3>1. CopyNode(tree, src, dst, depth) = Result(added, 200)
      BY <2>6, Zenon DEF CopyNode, Over
    <3> HIDE DEF added
    <3>2. QED
      BY <1>2, <3>1 DEF Copy, Result
  <2> HIDE DEF over, nodes, props
  <2>8. WellFormed(added) /\ \A p \in DOMAIN tree.data : ~IsPrefix(dst, p) => Stays(tree, added, p)
    BY <2>5, <2>6, TransferEffect DEF over
  <2>9. QED
    BY <2>7, <2>8 DEF Sound, Result, Success
<1>3. QED
  BY <1>1, <1>2

\* What is taken, at the destination, with its content and its properties.
Carried(tree, src, dst, from, nodes) ==
    /\ DOMAIN nodes = {Moved(p, src, dst) : p \in from}
    /\ \A p \in from :
         /\ nodes[Moved(p, src, dst)].is_file = tree.data[p].is_file
         /\ nodes[Moved(p, src, dst)].content = tree.data[p].content
         /\ nodes[Moved(p, src, dst)].props = tree.data[p].props

\* A MOVE takes what a COPY of Depth 1 takes.
LEMMA MoveGrafts ==
    ASSUME NEW tree, WellFormed(tree), NEW src \in DOMAIN tree.data, NEW dst \in Path,
           Unrelated(src, dst),
           \A p \in DOMAIN tree.data : IsPrefix(src, p) => Moved(p, src, dst) \in Path
    PROVE  LET over == Over(tree, dst)
               from == CopiedFrom(over, src, "ONE")
               nodes == MoveNodes(tree, over, src, dst)
           IN  /\ from \subseteq {p \in DOMAIN tree.data : IsPrefix(src, p)}
               /\ Grafts(dst, nodes) /\ Carried(tree, src, dst, from, nodes)
<1> DEFINE over == Over(tree, dst)
           from == CopiedFrom(over, src, "ONE")
           nodes == MoveNodes(tree, over, src, dst)
           names == ChildrenOf(over, src)
           kids == {dst} \union
                   {Child(dst, n) : n \in IF tree.data[src].is_file THEN {} ELSE names}
<1>1. /\ src \in Seq(Segment) /\ dst \in Seq(Segment)
      /\ \A p \in DOMAIN tree.data : p \in Seq(Segment) /\ NodeShape(tree.data[p])
  BY TargetsAreSequences DEF WellFormed, Shape
<1>0. PICK flat \in BOOLEAN : flat = ("ONE" = "ZERO")
  OBVIOUS
<1>2. Taken(tree, src, from, flat) /\ ~flat
  <2>1. "ONE" \in DAVDepth
    BY DEF DAVDepth
  <2>2. Taken(tree, src, from, "ONE" = "ZERO")
    BY <2>1, CopiedFromIsTaken
  <2> HIDE DEF from
  <2>3. QED
    BY <1>0, <2>2
<1>3. from = {src} \union {Child(src, n) : n \in names}
  BY Zenon DEF CopiedFrom
<1>4. \A n \in names : /\ n \in Segment /\ Len(Child(src, n)) = Len(src) + 1
                       /\ Child(src, n)[Len(src) + 1] = n /\ Name(Child(dst, n)) = n
                       /\ Moved(Child(src, n), src, dst) = Child(dst, n)
                       /\ dst # Child(dst, n) /\ IsPrefix(src, Child(src, n))
  <2> TAKE n \in names
  <2>1. n \in Segment
    <3>1. over.data[src].children = {m \in tree.data[src].children : ~IsPrefix(dst, Child(src, m))}
      BY OverStays DEF Unrelated
    <3>2. names \subseteq tree.data[src].children
      BY <3>1 DEF ChildrenOf
    <3>3. QED
      BY <1>1, <3>2 DEF NodeShape
  <2>2. /\ Child(src, n) \in Seq(Segment) /\ Len(Child(src, n)) = Len(src) + 1
        /\ Child(src, n)[Len(src) + 1] = n /\ IsPrefix(src, Child(src, n))
    BY <1>1, <2>1, ChildFacts
  <2>3. /\ Child(dst, n) \in Seq(Segment) /\ Len(Child(dst, n)) = Len(dst) + 1
        /\ Child(dst, n)[Len(dst) + 1] = n
    BY <1>1, <2>1, ChildFacts
  <2>4. Moved(Child(src, n), src, dst) = Child(dst, n)
    <3>1. IsPrefix(src, src)
      BY <1>1, PrefixReflexive DEF IsParentOfOrIsSelf
    <3>2. Child(Moved(src, src, dst), n) = Moved(Child(src, n), src, dst)
      BY <1>1, <2>1, <3>1, MovedChild
    <3>3. QED
      BY <1>1, <3>2, MovedTop
  <2>5. Name(Child(dst, n)) = n /\ dst # Child(dst, n)
    BY <1>1, <2>3 DEF Name
  <2>6. QED
    BY <2>1, <2>2, <2>4, <2>5
<1>5. tree.data[src].is_file => names = {}
  <2>1. ASSUME NEW n \in names
        PROVE  ~tree.data[src].is_file
    <3>1. Child(src, n) \in from /\ Len(src) \in Len(src) .. Len(Child(src, n)) - 1
      BY <1>1, <1>3, <1>4
    <3>2. ~tree.data[SubSeq(Child(src, n), 1, Len(src))].is_file
      BY <1>2, <3>1 DEF Taken
    <3>3. Child(src, n) \in Seq(Segment)
      BY <1>1, <1>4, ChildFacts
    <3>4. SubSeq(Child(src, n), 1, Len(src)) = src
      BY <1>1, <1>4, <3>3, PrefixIsFirst
    <3>5. QED
      BY <3>2, <3>4
  <2>2. QED
    BY <2>1
<1>6. kids = {dst} \union {Child(dst, n) : n \in names}
  BY <1>5
<1>7. Moved(src, src, dst) = dst
  BY <1>1, MovedTop
<1>8. kids = {Moved(p, src, dst) : p \in from}
  <2>1. ASSUME NEW p \in from
        PROVE  Moved(p, src, dst) \in kids
    <3>1. p = src \/ \E n \in names : p = Child(src, n)
      BY <1>3
    <3>2. QED
      BY <1>4, <1>6, <1>7, <3>1
  <2>2. ASSUME NEW q \in kids
        PROVE  \E p \in from : q = Moved(p, src, dst)
    <3>1. q = dst \/ \E n \in names : q = Child(dst, n)
      BY <1>6
    <3>2. src \in from /\ \A n \in names : Child(src, n) \in from
      BY <1>3
    <3>3. QED
      BY <1>4, <1>7, <3>1, <3>2
  <2>3. QED
    BY <2>1, <2>2
<1>9. {Name(q) : q \in kids \ {dst}} = names
  BY <1>4, <1>6
<1>10. {n \in Segment : Child(src, n) \in from} = names
  <2>1. \A n \in Segment : Child(src, n) # src /\ Child(src, n)[Len(src) + 1] = n
    <3> TAKE n \in Segment
    <3>1. Len(Child(src, n)) = Len(src) + 1 /\ Child(src, n)[Len(src) + 1] = n
      BY <1>1, ChildFacts
    <3>2. QED
      BY <1>1, <3>1
  <2>2. QED
    BY <1>3, <1>4, <2>1
<1>11. \A m \in names : {n \in Segment : Child(Child(src, m), n) \in from} = {}
  <2> TAKE m \in names
  <2>1. SUFFICES ASSUME NEW n \in Segment, Child(Child(src, m), n) \in from
                 PROVE  FALSE
    OBVIOUS
  <2>2. Child(src, m) \in Seq(Segment) /\ Len(Child(src, m)) = Len(src) + 1
    BY <1>1, <1>4, ChildFacts
  <2>3. Len(Child(Child(src, m), n)) = Len(Child(src, m)) + 1
    BY <2>2, ChildFacts
  <2>4. Len(Child(Child(src, m), n)) = Len(src) + 2
    BY <1>1, <2>2, <2>3
  <2>5. \A p \in from : Len(p) = Len(src) \/ Len(p) = Len(src) + 1
    BY <1>3, <1>4
  <2>6. QED
    BY <1>1, <2>1, <2>4, <2>5
<1>12. DOMAIN nodes = kids
  BY DEF MoveNodes
<1>13. ASSUME NEW p \in from
       PROVE  LET node == nodes[Moved(p, src, dst)]
              IN  /\ NodeShape(node) /\ node.is_file = (flat \/ tree.data[p].is_file)
                  /\ node.children = {n \in Segment : Child(p, n) \in from}
                  /\ node.is_file = tree.data[p].is_file
                  /\ node.content = tree.data[p].content /\ node.props = tree.data[p].props
  <2> DEFINE q == Moved(p, src, dst)
             back == AddChild(src, GetChild(q, dst))
             below == IF q = dst THEN {Name(k) : k \in kids \ {dst}} ELSE {}
  <2>1. p \in DOMAIN tree.data /\ IsPrefix(src, p) /\ p \in Seq(Segment) /\ NodeShape(tree.data[p])
    BY <1>1, <1>2 DEF Taken
  <2>2. back = p
    <3>1. Moved(q, dst, src) = p
      BY <1>1, <2>1, MovedBack
    <3>2. QED
      BY <3>1 DEF Moved
  <2>3. q \in kids
    BY <1>8
  <2>4. nodes[q] = WithChildren(tree.data[back], below)
    BY <2>3, Zenon DEF MoveNodes, WithChildren
  <2>5. below = {n \in Segment : Child(p, n) \in from}
    <3>1. CASE p = src
      BY <1>7, <1>9, <1>10, <3>1
    <3>2. CASE p # src
      <4>1. PICK m \in names : p = Child(src, m)
        BY <1>3, <3>2
      <4>2. q # dst
        BY <1>4, <4>1
      <4>3. QED
        BY <1>11, <4>1, <4>2
    <3>3. QED
      BY <3>1, <3>2
  <2>6. below \in SUBSET Segment
    BY <2>5
  <2> HIDE DEF q, nodes, below, from, kids
  <2>7. /\ NodeShape(nodes[q]) /\ nodes[q].is_file = tree.data[p].is_file /\ nodes[q].children = below
        /\ nodes[q].content = tree.data[p].content /\ nodes[q].props = tree.data[p].props
    BY <2>1, <2>2, <2>4, <2>6, ChildrenReplaced
  <2>8. tree.data[p].is_file = (flat \/ tree.data[p].is_file)
    BY <1>2, <2>1 DEF NodeShape
  <2>9. QED
    BY <2>5, <2>7, <2>8 DEF q
<1> HIDE DEF nodes, from, kids, over
<1>14. Grafts(dst, nodes)
  BY <1>1, <1>2, <1>8, <1>12, <1>13, CopyGrafts
<1>15. Carried(tree, src, dst, from, nodes)
  BY <1>8, <1>12, <1>13 DEF Carried
<1>16. from \subseteq {p \in DOMAIN tree.data : IsPrefix(src, p)}
  BY <1>2 DEF Taken
<1>17. QED
  BY <1>14, <1>15, <1>16 DEF nodes, from, over

\* MOVE fills the destination and takes out the source, or does nothing.
LEMMA MoveSound ==
    ASSUME NEW tree, WellFormed(tree), NEW src \in Target, NEW dst \in Path,
           Unrelated(src, dst), NEW overwrite \in BOOLEAN,
           \A p \in DOMAIN tree.data : IsPrefix(src, p) => Moved(p, src, dst) \in Path,
           HasNode(tree, Parent(dst)) => IsFolder(tree, Parent(dst))
    PROVE  Sound(tree, Move(tree, src, dst, overwrite), {src, dst})
<1>1. CASE \/ ~HasNode(tree, src) \/ ~HasNode(tree, Parent(dst)) \/ ~HasNode(tree, Parent(src))
           \/ HasNode(tree, dst) /\ ~overwrite
  BY <1>1, NothingDone DEF Move
<1>2. CASE /\ HasNode(tree, src) /\ HasNode(tree, Parent(dst)) /\ HasNode(tree, Parent(src))
           /\ HasNode(tree, dst) => overwrite
  <2> DEFINE over == Over(tree, dst)
             nodes == MoveNodes(tree, over, src, dst)
             props == [id \in {nodes[q].props : q \in DOMAIN nodes} |-> tree.props[id]]
             added == AddTree(over, dst, nodes, props)
             rest == DelTree(added, src)
  <2>1. /\ src \in Seq(Segment) /\ dst \in Seq(Segment) /\ src \in DOMAIN tree.data
    BY <1>2, TargetsAreSequences DEF HasNode
  <2>2. src # Root
    <3>1. Root \in Seq(Segment) /\ Len(Root) = 0
      BY DEF Root
    <3>2. Len(Root) <= Len(dst) /\ \A i \in 1 .. Len(Root) : Root[i] = dst[i]
      BY <2>1, <3>1
    <3>3. IsPrefix(Root, dst)
      BY <2>1, <3>1, <3>2, PrefixBySegment
    <3>4. QED
      BY <3>3 DEF Unrelated
  <2>3. Grafts(dst, nodes)
    BY <2>1, MoveGrafts
  <2>4. IsFolder(tree, Parent(dst)) /\ ~(HasNode(tree, dst) /\ DelTreeRaises(tree, dst))
    BY <1>2, OverStays
  <2> HIDE DEF over, nodes, props
  <2>5. WellFormed(added) /\ \A p \in DOMAIN tree.data : ~IsPrefix(dst, p) => Stays(tree, added, p)
    BY <2>3, <2>4, TransferEffect DEF over
  <2>6. src \in DOMAIN added.data
    BY <2>1, <2>5 DEF Unrelated, Stays
  <2> HIDE DEF added
  <2>7. ~DelTreeRaises(added, src)
    BY <2>2, <2>5, <2>6, NodesHang
  <2>8. /\ WellFormed(rest)
        /\ DOMAIN rest.data = {p \in DOMAIN added.data : ~IsPrefix(src, p)}
        /\ \A p \in DOMAIN rest.data : Stays(added, rest, p)
    BY <2>1, <2>2, <2>5, DelTreeStays
  <2>9. Move(tree, src, dst, overwrite) = Result(rest, Success(overwrite))
    <3>1. MoveNode(tree, src, dst) = Result(IF HasNode(added, src) THEN rest ELSE added,
                                            IF DelTreeRaises(added, src) THEN 500 ELSE 200)
      BY <2>4, Zenon DEF MoveNode, Over, over, nodes, props, added
    <3>2. MoveNode(tree, src, dst) = Result(rest, 200)
      BY <2>6, <2>7, <3>1 DEF HasNode
    <3> HIDE DEF rest
    <3>3. QED
      BY <1>2, <3>2 DEF Move, Result
  <2> HIDE DEF rest
  <2>10. QED
    BY <2>5, <2>8, <2>9 DEF Sound, Result, Success, Stays
<1>3. QED
  BY <1>1, <1>2

-----------------------------------------------------------------------------
(* Property objects *)

\* Nodes are finitely many; each refers to a property object that is there, and the
\* objects that are there are those referred to.
HeapTyped(tree) ==
    /\ IsFiniteSet(DOMAIN tree.data)
    /\ \A p \in DOMAIN tree.data :
         tree.data[p].content \in Content /\ tree.data[p].props \in DOMAIN tree.props
    /\ \A i \in DOMAIN tree.props :
         /\ i \in PropId /\ tree.props[i] \in Prop
         /\ \E p \in DOMAIN tree.data : i = tree.data[p].props

LEMMA HeapIsFinite ==
    ASSUME NEW tree, HeapTyped(tree)
    PROVE  IsFiniteSet(DOMAIN tree.props)
<1> DEFINE f == [p \in DOMAIN tree.data |-> tree.data[p].props]
<1>1. DOMAIN tree.props = {f[p] : p \in DOMAIN tree.data}
  BY DEF HeapTyped
<1>2. DOMAIN f = DOMAIN tree.data /\ f = [p \in DOMAIN tree.data |-> f[p]]
  OBVIOUS
<1> HIDE DEF f
<1>3. QED
  BY <1>1, <1>2, ImageIsFinite DEF HeapTyped

\* The property object of a new node is not one that is there.
LEMMA FreshIsNew ==
    ASSUME NEW tree, IsFiniteSet(DOMAIN tree.props), NEW path \in Target
    PROVE  FreshId(tree, path) \in PropId /\ FreshId(tree, path) \notin DOMAIN tree.props
<1> DEFINE H == DOMAIN tree.props
           k == CHOOSE k \in 1 .. Cardinality(H) + 1 :
                    <<path, k>> \notin H /\ \A j \in 1 .. k - 1 : <<path, j>> \in H
<1>1. k \in Nat \ {0} /\ <<path, k>> \notin H
  BY FirstFree
<1>2. FreshId(tree, path) = <<path, k>>
  BY DEF FreshId
<1> HIDE DEF k
<1>3. <<path, k>> \in PropId
  BY <1>1 DEF PropId, Target
<1>4. QED
  BY <1>1, <1>2, <1>3

\* The objects left after a collection.
LEMMA CollectedHeap ==
    ASSUME NEW data, NEW heap
    PROVE  LET c == Collected([data |-> data, props |-> heap])
           IN  /\ c.data = data
               /\ DOMAIN c.props = DOMAIN heap \intersect {data[p].props : p \in DOMAIN data}
               /\ \A i \in DOMAIN c.props : c.props[i] = heap[i]
<1> DEFINE used == DOMAIN heap \intersect {data[p].props : p \in DOMAIN data}
           c == Collected([data |-> data, props |-> heap])
<1>1. c = [[data |-> data, props |-> heap] EXCEPT !.props = Restrict(@, DOMAIN @ \intersect {data[p].props : p \in DOMAIN data})]
  BY DEF Collected
<1>2. c.data = data /\ c.props = Restrict(heap, used)
  BY <1>1
<1>3. DOMAIN Restrict(heap, used) = used /\ \A i \in used : Restrict(heap, used)[i] = heap[i]
  BY DEF Restrict
<1> HIDE DEF c
<1>4. QED
  BY <1>2, <1>3 DEF c

\* The properties of a node, and what they are later at a node.
HasProps(tree, p, later, q) ==
    later.props[later.data[q].props] = tree.props[tree.data[p].props]

\* A deletion takes no property object from a node that stays.
LEMMA DelTreeHeap ==
    ASSUME NEW tree, WellFormed(tree), HeapTyped(tree), NEW top \in Seq(Segment), top # Root
    PROVE  LET del == DelTree(tree, top)
           IN  /\ HeapTyped(del)
               /\ \A p \in DOMAIN del.data : HasProps(tree, p, del, p)
<1> DEFINE del == DelTree(tree, top)
<1>1. /\ DOMAIN del.data = {p \in DOMAIN tree.data : ~IsPrefix(top, p)}
      /\ \A p \in DOMAIN del.data : /\ del.data[p].content = tree.data[p].content
                                    /\ del.data[p].props = tree.data[p].props
  BY DelTreeStays DEF Stays
<1>2. /\ DOMAIN del.props = DOMAIN tree.props \intersect {del.data[p].props : p \in DOMAIN del.data}
      /\ \A i \in DOMAIN del.props : del.props[i] = tree.props[i]
  <2> DEFINE gone == Within(tree, top) \ {Root}
             left == Restrict(tree.data, DOMAIN tree.data \ gone)
             cut == [p \in DOMAIN left |->
                       [left[p] EXCEPT !.children = {n \in @ : Child(p, n) \notin gone}]]
  <2>1. del = Collected([tree EXCEPT !.data = cut])
    BY DEF DelTree
  <2> HIDE DEF cut
  <2>2. [tree EXCEPT !.data = cut] = [data |-> cut, props |-> tree.props]
    BY DataReplaced DEF WellFormed, Shape
  <2>3. del = Collected([data |-> cut, props |-> tree.props])
    BY <2>1, <2>2
  <2> HIDE DEF del
  <2>4. QED
    BY <2>3, CollectedHeap
<1> HIDE DEF del
<1>3. IsFiniteSet(DOMAIN del.data)
  BY <1>1, FS_Subset DEF HeapTyped
<1>4. \A p \in DOMAIN del.data : /\ del.data[p].props \in DOMAIN del.props
                                 /\ del.data[p].content \in Content
  BY <1>1, <1>2 DEF HeapTyped
<1>5. HeapTyped(del)
  BY <1>2, <1>3, <1>4 DEF HeapTyped
<1>6. QED
  BY <1>1, <1>2, <1>4, <1>5 DEF HasProps, del

\* Nodes and the property objects that are made for them.
HeapFor(nodes, props) ==
    /\ IsFiniteSet(DOMAIN nodes)
    /\ \A q \in DOMAIN nodes : nodes[q].content \in Content
    /\ DOMAIN props = {nodes[q].props : q \in DOMAIN nodes}
    /\ \A i \in DOMAIN props : i \in PropId /\ props[i] \in Prop

\* An addition brings the property objects of the nodes added; other nodes keep theirs.
LEMMA AddTreeHeap ==
    ASSUME NEW tree, WellFormed(tree), HeapTyped(tree), NEW top \in Path, NEW nodes, NEW props,
           IsFolder(tree, Parent(top)), \A p \in DOMAIN tree.data : ~IsPrefix(top, p),
           Grafts(top, nodes), HeapFor(nodes, props)
    PROVE  LET add == AddTree(tree, top, nodes, props)
           IN  /\ HeapTyped(add)
               /\ \A q \in DOMAIN nodes : add.props[add.data[q].props] = props[nodes[q].props]
               /\ \A p \in DOMAIN tree.data :
                    tree.data[p].props \notin DOMAIN props => HasProps(tree, p, add, p)
<1> DEFINE add == AddTree(tree, top, nodes, props)
           heap == [i \in DOMAIN tree.props \union DOMAIN props |->
                      IF i \in DOMAIN props THEN props[i] ELSE tree.props[i]]
<1>1. /\ DOMAIN add.data = DOMAIN tree.data \union DOMAIN nodes
      /\ \A q \in DOMAIN nodes : add.data[q] = nodes[q]
      /\ \A p \in DOMAIN tree.data : /\ add.data[p].content = tree.data[p].content
                                     /\ add.data[p].props = tree.data[p].props
  BY AddTreeEffect
<1>2. /\ DOMAIN add.props = DOMAIN heap \intersect {add.data[p].props : p \in DOMAIN add.data}
      /\ \A i \in DOMAIN add.props : add.props[i] = heap[i]
  <2> DEFINE all == [p \in DOMAIN tree.data \union DOMAIN nodes |->
                       IF p \in DOMAIN nodes THEN nodes[p] ELSE tree.data[p]]
             data == [all EXCEPT ![Parent(top)].children = @ \union {Name(top)}]
  <2>1. add = Collected([data |-> data, props |-> heap])
    BY DEF AddTree
  <2> HIDE DEF add, data, heap
  <2>2. QED
    BY <2>1, CollectedHeap
<1>3. /\ DOMAIN heap = DOMAIN tree.props \union DOMAIN props
      /\ \A i \in DOMAIN props : heap[i] = props[i]
      /\ \A i \in DOMAIN tree.props \ DOMAIN props : heap[i] = tree.props[i]
  OBVIOUS
<1> HIDE DEF add, heap
<1>4. IsFiniteSet(DOMAIN add.data)
  <2>1. IsFiniteSet(DOMAIN tree.data) /\ IsFiniteSet(DOMAIN nodes)
    BY DEF HeapTyped, HeapFor
  <2>2. IsFiniteSet(DOMAIN tree.data \union DOMAIN nodes)
    BY <2>1, FS_Union
  <2>3. QED
    BY <1>1, <2>2
<1>5. \A q \in DOMAIN nodes : /\ add.data[q].props = nodes[q].props
                              /\ nodes[q].props \in DOMAIN props
                              /\ add.data[q].props \in DOMAIN add.props
                              /\ add.data[q].content \in Content
  BY <1>1, <1>2, <1>3 DEF HeapFor
<1>6. \A p \in DOMAIN tree.data : /\ tree.data[p].props \in DOMAIN tree.props
                                  /\ add.data[p].props \in DOMAIN add.props
                                  /\ add.data[p].content \in Content
  BY <1>1, <1>2, <1>3 DEF HeapTyped
<1>7. ASSUME NEW i \in DOMAIN add.props
      PROVE  /\ i \in PropId /\ add.props[i] \in Prop
             /\ \E p \in DOMAIN add.data : i = add.data[p].props
  BY <1>2, <1>3 DEF HeapTyped, HeapFor
<1>8. HeapTyped(add)
  BY <1>1, <1>4, <1>5, <1>6, <1>7 DEF HeapTyped
<1>9. QED
  BY <1>1, <1>2, <1>3, <1>5, <1>6, <1>8 DEF HasProps, add

\* The empty file system, ...
LEMMA EmptyHeap == HeapTyped(EmptyFS)
<1> DEFINE root == [is_file |-> FALSE, content |-> Empty, children |-> {}, props |-> <<Root, 1>>]
           data == [p \in {Root} |-> root]
           heap == [i \in {<<Root, 1>>} |-> [extra |-> NoExtra, describes |-> Empty]]
<1>1. EmptyFS.data = data /\ EmptyFS.props = heap
  BY DEF EmptyFS
<1>2. data[Root].content = Empty /\ data[Root].props = <<Root, 1>>
  OBVIOUS
<1>3. heap[<<Root, 1>>] \in Prop /\ <<Root, 1>> \in PropId
  BY FSAssumption DEF Prop, PropId
<1>4. IsFiniteSet({Root}) /\ DOMAIN data = {Root} /\ DOMAIN heap = {<<Root, 1>>}
  BY FS_Singleton
<1> HIDE DEF data, heap
<1>5. QED
  BY <1>1, <1>2, <1>3, <1>4, FSAssumption DEF HeapTyped

\* ... one node more, ...
LEMMA AddNodeHeap ==
    ASSUME NEW tree, WellFormed(tree), HeapTyped(tree), NEW path \in Path, ~HasNode(tree, path),
           IsFolder(tree, Parent(path)), NEW is_file \in BOOLEAN, NEW content \in Content
    PROVE  HeapTyped(AddNode(tree, path, is_file, content))
<1> DEFINE id == FreshId(tree, path)
           node == [is_file |-> is_file, content |-> content, children |-> {}, props |-> id]
           nodes == [p \in {path} |-> node]
           prop == [extra |-> NoExtra, describes |-> content]
           heap == [i \in {id} |-> prop]
<1>1. path \in Seq(Segment) /\ path \in Target
  BY TargetsAreSequences
<1>2. \A p \in DOMAIN tree.data : ~IsPrefix(path, p)
  BY <1>1, NothingBelowNothing
<1>3. id \in PropId
  BY <1>1, HeapIsFinite, FreshIsNew
<1>4. AddNode(tree, path, is_file, content) = AddTree(tree, path, nodes, heap)
  BY DEF AddNode
<1> HIDE DEF id
<1>5. NodeShape(node) /\ node.children = {} /\ node.props = id /\ node.content = content
  BY DEF NodeShape
<1>6. prop \in Prop
  BY FSAssumption DEF Prop
<1>7. IsPrefix(path, path) /\ Len(path) .. Len(path) - 1 = {}
  BY <1>1, PrefixReflexive DEF IsParentOfOrIsSelf
<1> HIDE DEF node, prop
<1>8. Grafts(path, nodes)
  BY <1>5, <1>7 DEF Grafts
<1>9. HeapFor(nodes, heap)
  BY <1>3, <1>5, <1>6, FS_Singleton DEF HeapFor
<1> HIDE DEF nodes, heap
<1>10. QED
  BY <1>2, <1>4, <1>8, <1>9, AddTreeHeap

\* ... and what each request leaves of the heap.
LEMMA MkcolHeap ==
    ASSUME NEW tree, WellFormed(tree), HeapTyped(tree), NEW path \in Target,
           HasNode(tree, Parent(path)) => IsFolder(tree, Parent(path))
    PROVE  HeapTyped(Mkcol(tree, path).fs)
<1>1. CASE path = Root \/ ~HasNode(tree, Parent(path)) \/ HasNode(tree, path)
  BY <1>1 DEF Mkcol, Result
<1>2. CASE path # Root /\ HasNode(tree, Parent(path)) /\ ~HasNode(tree, path)
  <2>1. path \in Path
    BY <1>2 DEF Target
  <2>2. Mkcol(tree, path).fs = AddNode(tree, path, FALSE, Empty)
    BY <1>2 DEF Mkcol, Result
  <2>3. QED
    BY <1>2, <2>1, <2>2, FSAssumption, AddNodeHeap
<1>3. QED
  BY <1>1, <1>2

LEMMA DeleteHeap ==
    ASSUME NEW tree, WellFormed(tree), HeapTyped(tree), NEW path \in Target
    PROVE  HeapTyped(Delete(tree, path).fs)
<1>1. path \in Seq(Segment)
  BY TargetsAreSequences
<1>2. \/ Delete(tree, path).fs = tree
      \/ path # Root /\ Delete(tree, path).fs = DelTree(tree, path)
  BY DEF Delete, Result
<1>3. QED
  BY <1>1, <1>2, DelTreeHeap

\* A tree that differs in the content of a node.
LEMMA PutHeap ==
    ASSUME NEW tree, WellFormed(tree), HeapTyped(tree), NEW path \in Target, NEW content \in Content,
           HasNode(tree, Parent(path)) => IsFolder(tree, Parent(path))
    PROVE  HeapTyped(Put(tree, path, content).fs)
<1>1. CASE PutRefusal(tree, path) # 0
  BY <1>1 DEF Put, Result
<1>2. CASE PutRefusal(tree, path) = 0 /\ ~HasNode(tree, path)
  <2>1. HasNode(tree, Parent(path))
    BY <1>2 DEF PutRefusal
  <2>2. path \in Path
    <3>1. Parent(Root) = Root
      BY DEF Root, Parent
    <3>2. QED
      BY <1>2, <2>1, <3>1 DEF Target
  <2>3. Put(tree, path, content).fs = AddNode(tree, path, TRUE, content)
    BY <1>2 DEF Put, PutContent, Result
  <2>4. QED
    BY <1>2, <2>1, <2>2, <2>3, AddNodeHeap
<1>3. CASE PutRefusal(tree, path) = 0 /\ HasNode(tree, path)
  <2> DEFINE data == [tree.data EXCEPT ![path].content = content]
             later == [data |-> data, props |-> tree.props]
  <2>1. Put(tree, path, content).fs = later
    <3>1. [tree EXCEPT !.data[path].content = content] = [tree EXCEPT !.data = data]
      OBVIOUS
    <3>2. [tree EXCEPT !.data = data] = later
      BY DataReplaced DEF WellFormed, Shape
    <3>3. QED
      BY <1>3, <3>1, <3>2 DEF Put, PutContent, Result
  <2>2. /\ DOMAIN data = DOMAIN tree.data
        /\ data[path] = WithContent(tree.data[path], content)
        /\ \A p \in DOMAIN tree.data \ {path} : data[p] = tree.data[p]
    BY <1>3 DEF HasNode, WithContent
  <2>3. NodeShape(tree.data[path]) /\ path \in DOMAIN tree.data
    BY <1>3 DEF WellFormed, Shape, HasNode
  <2> HIDE DEF data
  <2>4. data[path].content = content /\ data[path].props = tree.data[path].props
    BY <2>2, <2>3, ContentReplaced
  <2>5. \A p \in DOMAIN tree.data : /\ data[p].content \in Content
                                    /\ data[p].props = tree.data[p].props
    BY <2>2, <2>4 DEF HeapTyped
  <2>6. later.data = data /\ later.props = tree.props
    OBVIOUS
  <2> HIDE DEF later
  <2>7. HeapTyped(later)
    BY <2>2, <2>5, <2>6 DEF HeapTyped
  <2>8. QED
    BY <2>1, <2>7
<1>4. QED
  BY <1>1, <1>2, <1>3

LEMMA ProppatchHeap ==
    ASSUME NEW tree, WellFormed(tree), HeapTyped(tree), NEW path, NEW extra \in Extra
    PROVE  HeapTyped(Proppatch(tree, path, extra).fs)
<1>1. CASE ~HasNode(tree, path)
  BY <1>1 DEF Proppatch, Result
<1>2. CASE HasNode(tree, path)
  <2> DEFINE id == tree.data[path].props
             heap == [tree.props EXCEPT ![id].extra = extra]
             later == [data |-> tree.data, props |-> heap]
  <2>1. Proppatch(tree, path, extra).fs = later
    <3>1. [tree EXCEPT !.props[id].extra = extra] = [tree EXCEPT !.props = heap]
      OBVIOUS
    <3>2. [tree EXCEPT !.props = heap] = later
      <4>1. tree = [data |-> tree.data, props |-> tree.props]
        BY DEF WellFormed, Shape
      <4> HIDE DEF heap
      <4>2. QED
        BY <4>1, PropsReplaced
    <3>3. QED
      BY <1>2, <3>1, <3>2 DEF Proppatch, Result
  <2>2. id \in DOMAIN tree.props /\ \A i \in DOMAIN tree.props : tree.props[i] \in Prop
    BY <1>2 DEF HeapTyped, HasNode
  <2> HIDE DEF id
  <2>3. /\ DOMAIN heap = DOMAIN tree.props
        /\ \A i \in DOMAIN tree.props : heap[i] \in Prop
    <3>1. \A i \in DOMAIN tree.props \ {id} : heap[i] = tree.props[i]
      BY <2>2
    <3>2. heap[id] = [tree.props[id] EXCEPT !.extra = extra]
      BY <2>2
    <3>3. \A prop \in Prop : [prop EXCEPT !.extra = extra] \in Prop
      BY DEF Prop
    <3>4. DOMAIN heap = DOMAIN tree.props
      OBVIOUS
    <3> HIDE DEF heap
    <3>5. QED
      BY <2>2, <3>1, <3>2, <3>3, <3>4
  <2>4. later.data = tree.data /\ later.props = heap
    OBVIOUS
  <2> HIDE DEF later, heap
  <2>5. HeapTyped(later)
    BY <2>3, <2>4 DEF HeapTyped
  <2>6. QED
    BY <2>1, <2>5
<1>3. QED
  BY <1>1, <1>2

LEMMA OverHeap ==
    ASSUME NEW tree, WellFormed(tree), HeapTyped(tree), NEW dst \in Path
    PROVE  /\ HeapTyped(Over(tree, dst))
           /\ \A p \in DOMAIN Over(tree, dst).data : HasProps(tree, p, Over(tree, dst), p)
<1>1. dst \in Seq(Segment) /\ dst # Root
  BY TargetsAreSequences, FSAssumption DEF Root
<1>2. CASE HasNode(tree, dst)
  <2>1. Over(tree, dst) = DelTree(tree, dst)
    BY <1>2 DEF Over
  <2>2. QED
    BY <1>1, <2>1, DelTreeHeap
<1>3. CASE ~HasNode(tree, dst)
  BY <1>3 DEF Over, HasProps
<1>4. QED
  BY <1>2, <1>3

\* The destination cleared and filled: what is there then.
LEMMA TransferHeap ==
    ASSUME NEW tree, WellFormed(tree), HeapTyped(tree), NEW dst \in Path,
           IsFolder(tree, Parent(dst)), NEW nodes, Grafts(dst, nodes),
           NEW props, HeapFor(nodes, props)
    PROVE  LET over == Over(tree, dst)
               added == AddTree(over, dst, nodes, props)
           IN  /\ HeapTyped(added)
               /\ DOMAIN added.data = {p \in DOMAIN tree.data : ~IsPrefix(dst, p)} \union DOMAIN nodes
               /\ \A q \in DOMAIN nodes : /\ added.data[q] = nodes[q]
                                          /\ added.props[added.data[q].props] = props[nodes[q].props]
               /\ \A p \in DOMAIN tree.data :
                    ~IsPrefix(dst, p) /\ tree.data[p].props \notin DOMAIN props
                      => HasProps(tree, p, added, p)
<1> DEFINE over == Over(tree, dst)
           added == AddTree(over, dst, nodes, props)
<1>1. /\ WellFormed(over)
      /\ DOMAIN over.data = {p \in DOMAIN tree.data : ~IsPrefix(dst, p)}
      /\ \A p \in DOMAIN over.data : Stays(tree, over, p) /\ over.data[p].props = tree.data[p].props
  BY OverStays
<1>2. HeapTyped(over) /\ \A p \in DOMAIN over.data : HasProps(tree, p, over, p)
  BY OverHeap
<1> HIDE DEF over
<1>3. IsFolder(over, Parent(dst))
  <2>1. dst \in Seq(Segment) /\ dst # <<>>
    BY TargetsAreSequences, FSAssumption
  <2>2. ~IsPrefix(dst, Parent(dst))
    BY <2>1, ParentFacts
  <2>3. QED
    BY <1>1, <2>2 DEF IsFolder, HasNode, Stays
<1>4. /\ DOMAIN added.data = DOMAIN over.data \union DOMAIN nodes
      /\ \A q \in DOMAIN nodes : added.data[q] = nodes[q]
  BY <1>1, <1>3, AddTreeEffect
<1>5. /\ HeapTyped(added)
      /\ \A q \in DOMAIN nodes : added.props[added.data[q].props] = props[nodes[q].props]
      /\ \A p \in DOMAIN over.data :
           over.data[p].props \notin DOMAIN props => HasProps(over, p, added, p)
  BY <1>1, <1>2, <1>3, AddTreeHeap
<1> HIDE DEF added
<1>6. QED
  BY <1>1, <1>2, <1>4, <1>5 DEF HasProps, over, added

\* The property objects of a copy.
LEMMA CopyHeapFor ==
    ASSUME NEW tree, WellFormed(tree), HeapTyped(tree), NEW src \in DOMAIN tree.data,
           NEW dst \in Path, Unrelated(src, dst), NEW depth \in DAVDepth,
           \A p \in DOMAIN tree.data : IsPrefix(src, p) => Moved(p, src, dst) \in Path
    PROVE  LET nodes == CopyNodes(tree, Over(tree, dst), src, dst, depth)
           IN  HeapFor(nodes, CopyProps(tree, src, dst, nodes))
<1> DEFINE over == Over(tree, dst)
           from == CopiedFrom(over, src, depth)
           nodes == CopyNodes(tree, over, src, dst, depth)
           props == CopyProps(tree, src, dst, nodes)
           new(p) == nodes[Moved(p, src, dst)]
<1>1. /\ src \in Seq(Segment) /\ dst \in Seq(Segment)
      /\ \A p \in DOMAIN tree.data : p \in Seq(Segment)
  BY TargetsAreSequences DEF WellFormed, Shape
<1>0. Taken(tree, src, from, depth = "ZERO") /\ Copied(tree, over, src, dst, depth, from, nodes)
  BY CopyMakes
<1>2. /\ DOMAIN nodes = {Moved(p, src, dst) : p \in from}
      /\ \A p \in from : /\ new(p).content = tree.data[p].content
                         /\ new(p).props = CopiedProps(tree, over, src, dst, depth, p)
  <2> HIDE DEF nodes, from, over
  <2>1. QED
    BY <1>0 DEF Copied
<1>3. HeapTyped(over)
  BY OverHeap
<1>4. \A p \in from : p \in DOMAIN tree.data /\ IsPrefix(src, p) /\ Moved(p, src, dst) \in Path
  BY <1>0 DEF Taken
<1>5. IsFiniteSet(DOMAIN nodes)
  <2> DEFINE f == [p \in from |-> Moved(p, src, dst)]
  <2>1. from \in SUBSET DOMAIN tree.data
    BY <1>4
  <2>2. IsFiniteSet(from)
    <3> HIDE DEF from
    <3>1. QED
      BY <2>1, FS_Subset DEF HeapTyped
  <2>3. DOMAIN f = from /\ f = [p \in from |-> f[p]] /\ DOMAIN nodes = {f[p] : p \in from}
    BY <1>2
  <2> HIDE DEF f, from, nodes
  <2>4. QED
    BY <2>2, <2>3, ImageIsFinite
<1>6. ASSUME NEW p \in from
      PROVE  new(p).content \in Content /\ new(p).props \in PropId
  <2>1. new(p).content \in Content
    BY <1>2, <1>4 DEF HeapTyped
  <2>2. tree.data[p].props \in PropId
    BY <1>4 DEF HeapTyped
  <2>3. FreshId(over, Moved(p, src, dst)) \in PropId
    <3>1. Moved(p, src, dst) \in Target
      BY <1>4, TargetsAreSequences
    <3>2. IsFiniteSet(DOMAIN over.props)
      BY <1>3, HeapIsFinite
    <3> HIDE DEF over
    <3>3. \A t \in Target : FreshId(over, t) \in PropId
      BY <3>2, FreshIsNew
    <3>4. QED
      BY <3>1, <3>3
  <2>4. CopiedProps(tree, over, src, dst, depth, p) \in PropId
    <3> HIDE DEF over
    <3>1. QED
      BY <2>2, <2>3 DEF CopiedProps
  <2>5. QED
    BY <1>2, <2>1, <2>4
<1>7. DOMAIN props = {nodes[q].props : q \in DOMAIN nodes}
  BY DEF CopyProps
<1>8. ASSUME NEW i \in DOMAIN props
      PROVE  props[i] \in Prop
  <2> DEFINE at == CHOOSE q \in DOMAIN nodes : nodes[q].props = i
             back == AddChild(src, GetChild(at, dst))
             origin == IF back # src /\ tree.data[back].is_file THEN Parent(back) ELSE back
  <2>1. at \in DOMAIN nodes
    BY <1>7
  <2>2. props[i] = tree.props[tree.data[origin].props]
    BY <1>7, Zenon DEF CopyProps
  <2>3. PICK p \in from : at = Moved(p, src, dst)
    BY <1>2, <2>1
  <2>4. p \in DOMAIN tree.data /\ p \in Seq(Segment) /\ IsPrefix(src, p)
    BY <1>1, <1>4, <2>3
  <2>5. back = p
    <3>1. Moved(Moved(p, src, dst), dst, src) = p
      BY <1>1, <2>4, MovedBack
    <3> HIDE DEF at
    <3>2. back = Moved(at, dst, src)
      BY DEF Moved
    <3>3. QED
      BY <2>3, <3>1, <3>2
  <2>6. p # src => Parent(p) \in DOMAIN tree.data
    <3>1. p = Root => p = src
      BY <1>1, <2>4, NothingAboveRoot
    <3>2. QED
      BY <2>4, <3>1, NodesHang DEF IsFolder, HasNode
  <2>7. origin \in DOMAIN tree.data
    <3> HIDE DEF back
    <3>1. QED
      BY <2>4, <2>5, <2>6
  <2> HIDE DEF origin, props
  <2>8. QED
    BY <2>2, <2>7 DEF HeapTyped
<1> HIDE DEF nodes, props, from, over
<1>9. \A q \in DOMAIN nodes : nodes[q].content \in Content /\ nodes[q].props \in PropId
  BY <1>2, <1>6
<1>10. HeapFor(nodes, props)
  BY <1>5, <1>7, <1>8, <1>9 DEF HeapFor
<1>11. QED
  BY <1>10 DEF nodes, props, over

\* A node is what another was.
Becomes(tree, p, later, q) ==
    /\ later.data[q].is_file = tree.data[p].is_file
    /\ later.data[q].content = tree.data[p].content

\* The destination is the source, node for node, and the source is as it was.
CopiedWhole(tree, later, src, dst) ==
    LET from == {p \in DOMAIN tree.data : IsPrefix(src, p)}
    IN  /\ {p \in DOMAIN later.data : IsPrefix(dst, p)} = {Moved(p, src, dst) : p \in from}
        /\ \A p \in from :
             /\ Becomes(tree, p, later, Moved(p, src, dst)) /\ Becomes(tree, p, later, p)
             /\ HasProps(tree, p, later, p)
             /\ p = src \/ ~tree.data[p].is_file => HasProps(tree, p, later, Moved(p, src, dst))

\* A COPY of infinite depth takes all that is below the source.
LEMMA CopiedAll ==
    ASSUME NEW tree, WellFormed(tree), NEW src \in DOMAIN tree.data, NEW dst \in Path,
           Unrelated(src, dst)
    PROVE  CopiedFrom(Over(tree, dst), src, "INFINITY") = {p \in DOMAIN tree.data : IsPrefix(src, p)}
<1> DEFINE over == Over(tree, dst)
           from == CopiedFrom(over, src, "INFINITY")
<1>1. src \in Seq(Segment) /\ dst \in Seq(Segment) /\ \A p \in DOMAIN tree.data : p \in Seq(Segment)
  BY TargetsAreSequences DEF WellFormed, Shape
<1>2. IsPrefix(src, src)
  BY <1>1, PrefixReflexive DEF IsParentOfOrIsSelf
<1>3. WellFormed(over) /\ DOMAIN over.data = {p \in DOMAIN tree.data : ~IsPrefix(dst, p)}
  BY OverStays
<1> HIDE DEF over
<1>4. from = {src} \union Within(over, src)
  BY DEF CopiedFrom
<1>5. Within(over, src) = {p \in DOMAIN over.data : IsPrefix(src, p)}
  BY <1>1, <1>3, WithinIsBelow
<1>6. QED
  BY <1>1, <1>2, <1>3, <1>4, <1>5, SourceSurvives DEF over

\* What is copied, and each folder in a copy of infinite Depth, has properties like those
\* it had.
LEMMA CopiedKeepProps ==
    ASSUME NEW tree, WellFormed(tree), HeapTyped(tree), NEW src \in DOMAIN tree.data,
           NEW dst \in Path, Unrelated(src, dst),
           \A p \in DOMAIN tree.data : IsPrefix(src, p) => Moved(p, src, dst) \in Path,
           NEW from, from = CopiedFrom(Over(tree, dst), src, "INFINITY"),
           NEW nodes, nodes = CopyNodes(tree, Over(tree, dst), src, dst, "INFINITY"),
           NEW p \in from, p = src \/ ~tree.data[p].is_file
    PROVE  CopyProps(tree, src, dst, nodes)[nodes[Moved(p, src, dst)].props]
             = tree.props[tree.data[p].props]
<1> DEFINE over == Over(tree, dst)
           id == nodes[Moved(p, src, dst)].props
           at == CHOOSE q \in DOMAIN nodes : nodes[q].props = id
           back == AddChild(src, GetChild(at, dst))
           origin == IF back # src /\ tree.data[back].is_file THEN Parent(back) ELSE back
<1>1. /\ Taken(tree, src, from, "INFINITY" = "ZERO")
      /\ Copied(tree, over, src, dst, "INFINITY", from, nodes)
  BY CopyMakes DEF DAVDepth
<1> HIDE DEF over
<1>2. /\ DOMAIN nodes = {Moved(q, src, dst) : q \in from}
      /\ \A q \in from : nodes[Moved(q, src, dst)].props = FreshId(over, Moved(q, src, dst))
  BY <1>1 DEF Copied, CopiedProps
<1>3. \A q \in from : q \in DOMAIN tree.data /\ IsPrefix(src, q)
  BY <1>1 DEF Taken
<1>4. /\ src \in Seq(Segment) /\ dst \in Seq(Segment)
      /\ \A q \in DOMAIN tree.data : q \in Seq(Segment)
  BY TargetsAreSequences DEF WellFormed, Shape
<1>5. at \in DOMAIN nodes /\ nodes[at].props = id
  BY <1>2
<1>6. \A q \in DOMAIN nodes : nodes[q].props[1] = q
  <2>1. \A q : FreshId(over, q)[1] = q
    BY DEF FreshId
  <2>2. QED
    BY <1>2, <2>1
<1>7. at = Moved(p, src, dst)
  BY <1>2, <1>5, <1>6
<1>8. Moved(Moved(p, src, dst), dst, src) = p
  BY <1>3, <1>4, MovedBack
<1>9. CopyProps(tree, src, dst, nodes)[id] = tree.props[tree.data[origin].props]
  BY <1>2, Zenon DEF CopyProps
<1> HIDE DEF at
<1>10. back = p
  BY <1>7, <1>8 DEF Moved
<1> HIDE DEF back
<1>11. origin = p
  BY <1>10
<1> HIDE DEF origin
<1>12. QED
  BY <1>9, <1>11

\* What a COPY leaves: a sound heap and, of infinite depth, a whole copy.
LEMMA CopyHeap ==
    ASSUME NEW tree, WellFormed(tree), HeapTyped(tree), NEW src \in Target, NEW dst \in Path,
           Unrelated(src, dst), NEW depth \in DAVDepth, NEW overwrite \in BOOLEAN,
           \A p \in DOMAIN tree.data : IsPrefix(src, p) => Moved(p, src, dst) \in Path,
           HasNode(tree, Parent(dst)) => IsFolder(tree, Parent(dst))
    PROVE  LET result == Copy(tree, src, dst, depth, overwrite)
           IN  /\ HeapTyped(result.fs)
               /\ result.status < 300 /\ depth = "INFINITY"
                    => CopiedWhole(tree, result.fs, src, dst)
<1>1. CASE \/ ~HasNode(tree, src) \/ ~HasNode(tree, Parent(dst))
           \/ HasNode(tree, dst) /\ ~overwrite
  <2>1. \E status \in {403, 409, 412} : Copy(tree, src, dst, depth, overwrite) = Result(tree, status)
    BY <1>1 DEF Copy
  <2>2. QED
    BY <2>1 DEF Result
<1>2. CASE /\ HasNode(tree, src) /\ HasNode(tree, Parent(dst))
           /\ HasNode(tree, dst) => overwrite
  <2> DEFINE over == Over(tree, dst)
             nodes == CopyNodes(tree, over, src, dst, depth)
             props == CopyProps(tree, src, dst, nodes)
             added == AddTree(over, dst, nodes, props)
             from == CopiedFrom(over, src, depth)
             new(p) == nodes[Moved(p, src, dst)]
  <2>1. src \in DOMAIN tree.data /\ src \in Seq(Segment) /\ dst \in Seq(Segment)
    BY <1>2, TargetsAreSequences DEF HasNode
  <2>2. Grafts(dst, nodes) /\ Copied(tree, over, src, dst, depth, from, nodes)
    BY <2>1, CopyMakes
  <2>3. HeapFor(nodes, props)
    BY <2>1, CopyHeapFor
  <2>4. IsFolder(tree, Parent(dst)) /\ ~(HasNode(tree, dst) /\ DelTreeRaises(tree, dst))
    BY <1>2, OverStays
  <2>5. Copy(tree, src, dst, depth, overwrite).fs = added
    <3>1. CopyNode(tree, src, dst, depth) = Result(added, 200)
      BY <2>4, Zenon DEF CopyNode, Over
    <3> HIDE DEF added
    <3>2. QED
      BY <1>2, <3>1 DEF Copy, Result
  <2>6. /\ HeapTyped(over)
        /\ \A p \in DOMAIN tree.data : ~IsPrefix(dst, p) => tree.data[p].props \in DOMAIN over.props
    <3>1. /\ DOMAIN over.data = {p \in DOMAIN tree.data : ~IsPrefix(dst, p)}
          /\ \A p \in DOMAIN over.data : over.data[p].props = tree.data[p].props
      BY OverStays
    <3>2. HeapTyped(over)
      BY OverHeap
    <3> HIDE DEF over
    <3>3. QED
      BY <3>1, <3>2 DEF HeapTyped
  <2> HIDE DEF nodes, props
  <2>7. /\ HeapTyped(added)
        /\ DOMAIN added.data = {p \in DOMAIN tree.data : ~IsPrefix(dst, p)} \union DOMAIN nodes
        /\ \A q \in DOMAIN nodes : /\ added.data[q] = nodes[q]
                                   /\ added.props[added.data[q].props] = props[nodes[q].props]
        /\ \A p \in DOMAIN tree.data :
             ~IsPrefix(dst, p) /\ tree.data[p].props \notin DOMAIN props
               => HasProps(tree, p, added, p)
    BY <2>2, <2>3, <2>4, TransferHeap
  <2>8. \A p \in DOMAIN tree.data : ~IsPrefix(dst, p) => Stays(tree, added, p)
    BY <2>2, <2>4, TransferEffect
  <2>9. ASSUME depth = "INFINITY"
        PROVE  CopiedWhole(tree, added, src, dst)
    <3>1. from = {p \in DOMAIN tree.data : IsPrefix(src, p)}
      BY <2>1, <2>9, CopiedAll
    <3>2. \A p \in from : p \in DOMAIN tree.data /\ p \in Seq(Segment) /\ ~IsPrefix(dst, p)
      <4>1. \A p \in from : p \in DOMAIN tree.data /\ p \in Seq(Segment) /\ IsPrefix(src, p)
        BY <3>1, TargetsAreSequences DEF WellFormed, Shape
      <4> HIDE DEF from
      <4>2. QED
        BY <2>1, <4>1, SourceSurvives
    <3>3. {p \in DOMAIN added.data : IsPrefix(dst, p)} = DOMAIN nodes
      BY <2>2, <2>7 DEF Grafts
    <3>4. \A p \in from : new(p).props \notin DOMAIN over.props
      <4> TAKE p \in from
      <4>1. new(p).props = FreshId(over, Moved(p, src, dst))
        BY <2>2, <2>9, Zenon DEF CopiedProps, Copied
      <4>2. Moved(p, src, dst) \in Target
        BY <3>1, TargetsAreSequences
      <4>3. IsFiniteSet(DOMAIN over.props)
        BY <2>6, HeapIsFinite
      <4> HIDE DEF over
      <4>4. \A t \in Target : FreshId(over, t) \notin DOMAIN over.props
        BY <4>3, FreshIsNew
      <4>5. QED
        BY <4>1, <4>2, <4>4
    <3>5. DOMAIN props = {new(p).props : p \in from}
      BY <2>2, <2>3 DEF HeapFor, Copied
    <3>9. \A p \in from : p = src \/ ~tree.data[p].is_file =>
            props[new(p).props] = tree.props[tree.data[p].props]
      <4> TAKE p \in from
      <4> SUFFICES ASSUME p = src \/ ~tree.data[p].is_file
                   PROVE  props[new(p).props] = tree.props[tree.data[p].props]
        OBVIOUS
      <4>1. CopyProps(tree, src, dst, nodes)[nodes[Moved(p, src, dst)].props]
              = tree.props[tree.data[p].props]
        BY <2>1, <2>9, CopiedKeepProps DEF nodes
      <4>2. QED
        BY <4>1 DEF props
    <3> HIDE DEF from, over, added, new
    <3>6. \A p \in from : HasProps(tree, p, added, p) /\ Stays(tree, added, p)
      BY <2>6, <2>7, <2>8, <3>2, <3>4, <3>5
    <3>7. \A p \in from : Becomes(tree, p, added, Moved(p, src, dst))
      <4> TAKE p \in from
      <4>1. added.data[Moved(p, src, dst)] = nodes[Moved(p, src, dst)]
        BY <2>2, <2>7 DEF Copied
      <4>2. /\ nodes[Moved(p, src, dst)].is_file = CopiedFile(tree, depth, p)
            /\ nodes[Moved(p, src, dst)].content = tree.data[p].content
        BY <2>2, Zenon DEF Copied
      <4>3. tree.data[p].is_file \in BOOLEAN
        BY <3>2 DEF WellFormed, Shape, NodeShape
      <4>4. CopiedFile(tree, depth, p) = tree.data[p].is_file
        BY <2>9, <4>3 DEF CopiedFile
      <4>5. QED
        BY <4>1, <4>2, <4>4, Zenon DEF Becomes
    <3>10. \A p \in from : p = src \/ ~tree.data[p].is_file =>
             HasProps(tree, p, added, Moved(p, src, dst))
      BY <2>2, <2>7, <3>9 DEF HasProps, Copied, new
    <3>8. QED
      BY <2>2, <3>1, <3>3, <3>6, <3>7, <3>10 DEF CopiedWhole, Stays, Becomes, Copied
  <2> HIDE DEF added
  <2>10. QED
    BY <2>5, <2>7, <2>9
<1>3. QED
  BY <1>1, <1>2

\* Nothing lies deeper than the children.
FlatIn(tree, top) == \A p \in DOMAIN tree.data : IsPrefix(top, p) => Len(p) <= Len(top) + 1

\* The destination is what the source was, its properties included, and the source is
\* gone.
MovedWhole(tree, later, src, dst) ==
    LET from == {p \in DOMAIN tree.data : IsPrefix(src, p)}
    IN  /\ {p \in DOMAIN later.data : IsPrefix(dst, p) \/ IsPrefix(src, p)}
             = {Moved(p, src, dst) : p \in from}
        /\ \A p \in from : /\ Becomes(tree, p, later, Moved(p, src, dst))
                           /\ HasProps(tree, p, later, Moved(p, src, dst))

\* A MOVE takes all of a flat source.
LEMMA FlatIsTaken ==
    ASSUME NEW tree, WellFormed(tree), NEW src \in DOMAIN tree.data, NEW dst \in Path,
           Unrelated(src, dst), FlatIn(tree, src)
    PROVE  {p \in DOMAIN tree.data : IsPrefix(src, p)} \subseteq CopiedFrom(Over(tree, dst), src, "ONE")
<1> DEFINE over == Over(tree, dst)
           names == ChildrenOf(over, src)
<1>1. src \in Seq(Segment) /\ dst \in Seq(Segment) /\ \A p \in DOMAIN tree.data : p \in Seq(Segment)
  BY TargetsAreSequences DEF WellFormed, Shape
<1>2. CopiedFrom(over, src, "ONE") = {src} \union {Child(src, n) : n \in names}
  BY Zenon DEF CopiedFrom
<1>3. names = {n \in tree.data[src].children : ~IsPrefix(dst, Child(src, n))}
  <2>1. /\ src \in DOMAIN over.data
        /\ over.data[src].children = {n \in tree.data[src].children : ~IsPrefix(dst, Child(src, n))}
    BY OverStays DEF Unrelated
  <2>2. QED
    BY <2>1 DEF ChildrenOf, HasNode
<1> HIDE DEF names
<1>4. ASSUME NEW p \in DOMAIN tree.data, IsPrefix(src, p), p # src
      PROVE  \E n \in names : p = Child(src, n)
  <2> DEFINE k == Len(src)
             n == p[k + 1]
  <2>1. p \in Seq(Segment) /\ k <= Len(p) /\ src = SubSeq(p, 1, k)
    BY <1>1, <1>4, PrefixIsFirst
  <2>2. Len(p) = k + 1
    <3>1. Len(p) <= k + 1
      BY <1>4 DEF FlatIn
    <3>2. Len(p) # k
      <4>1. SubSeq(p, 1, Len(p)) = p
        BY <2>1
      <4> HIDE DEF k
      <4>2. QED
        BY <1>4, <2>1, <4>1
    <3>3. Len(p) \in Nat /\ k \in Nat
      BY <1>1, <2>1
    <3> HIDE DEF k
    <3>4. QED
      BY <2>1, <3>1, <3>2, <3>3
  <2>3. k \in 0 .. Len(p) - 1
    BY <1>1, <2>1, <2>2
  <2> HIDE DEF k
  <2>4. n \in tree.data[SubSeq(p, 1, k)].children
    BY <2>3 DEF WellFormed, Linked
  <2>5. Child(src, n) = p
    <3>1. Child(SubSeq(p, 1, k), p[k + 1]) = SubSeq(p, 1, k + 1)
      BY <2>1, <2>3, NextSegment
    <3>2. SubSeq(p, 1, k + 1) = p
      BY <2>1, <2>2
    <3>3. QED
      BY <2>1, <3>1, <3>2
  <2>6. ~IsPrefix(dst, p)
    BY <1>1, <1>4, <2>1, SourceSurvives
  <2> HIDE DEF n
  <2>7. QED
    BY <1>3, <2>1, <2>4, <2>5, <2>6
<1>5. QED
  BY <1>2, <1>4

\* The property objects of a move are those of the source.
LEMMA MoveHeapFor ==
    ASSUME NEW tree, WellFormed(tree), HeapTyped(tree), NEW src, NEW dst, NEW nodes, NEW from,
           from \subseteq DOMAIN tree.data, Carried(tree, src, dst, from, nodes)
    PROVE  HeapFor(nodes, [id \in {nodes[q].props : q \in DOMAIN nodes} |-> tree.props[id]])
<1> DEFINE props == [id \in {nodes[q].props : q \in DOMAIN nodes} |-> tree.props[id]]
           f == [p \in from |-> Moved(p, src, dst)]
<1>1. IsFiniteSet(from)
  BY FS_Subset DEF HeapTyped
<1>2. DOMAIN f = from /\ f = [p \in from |-> f[p]] /\ DOMAIN nodes = {f[p] : p \in from}
  BY DEF Carried
<1>3. IsFiniteSet(DOMAIN nodes)
  <2> HIDE DEF f
  <2>1. QED
    BY <1>1, <1>2, ImageIsFinite
<1>4. \A q \in DOMAIN nodes : nodes[q].content \in Content /\ nodes[q].props \in DOMAIN tree.props
  BY DEF Carried, HeapTyped
<1>5. \A id \in DOMAIN props : id \in PropId /\ props[id] \in Prop
  BY <1>4 DEF HeapTyped
<1>6. QED
  BY <1>3, <1>4, <1>5 DEF HeapFor

\* What a MOVE leaves: a sound heap and, of a flat source, all that was there.
LEMMA MoveHeap ==
    ASSUME NEW tree, WellFormed(tree), HeapTyped(tree), NEW src \in Target, NEW dst \in Path,
           Unrelated(src, dst), NEW overwrite \in BOOLEAN,
           \A p \in DOMAIN tree.data : IsPrefix(src, p) => Moved(p, src, dst) \in Path,
           HasNode(tree, Parent(dst)) => IsFolder(tree, Parent(dst))
    PROVE  LET result == Move(tree, src, dst, overwrite)
           IN  /\ HeapTyped(result.fs)
               /\ result.status < 300 /\ FlatIn(tree, src) => MovedWhole(tree, result.fs, src, dst)
<1>1. CASE \/ ~HasNode(tree, src) \/ ~HasNode(tree, Parent(dst)) \/ ~HasNode(tree, Parent(src))
           \/ HasNode(tree, dst) /\ ~overwrite
  <2>1. \E status \in {400, 403, 409, 412} : Move(tree, src, dst, overwrite) = Result(tree, status)
    BY <1>1 DEF Move
  <2>2. QED
    BY <2>1 DEF Result
<1>2. CASE /\ HasNode(tree, src) /\ HasNode(tree, Parent(dst)) /\ HasNode(tree, Parent(src))
           /\ HasNode(tree, dst) => overwrite
  <2> DEFINE over == Over(tree, dst)
             nodes == MoveNodes(tree, over, src, dst)
             props == [id \in {nodes[q].props : q \in DOMAIN nodes} |-> tree.props[id]]
             added == AddTree(over, dst, nodes, props)
             rest == DelTree(added, src)
             from == CopiedFrom(over, src, "ONE")
  <2>1. /\ src \in Seq(Segment) /\ dst \in Seq(Segment) /\ src \in DOMAIN tree.data
    BY <1>2, TargetsAreSequences DEF HasNode
  <2>2. src # Root
    <3>1. Root \in Seq(Segment) /\ Len(Root) = 0
      BY DEF Root
    <3>2. Len(Root) <= Len(dst) /\ \A i \in 1 .. Len(Root) : Root[i] = dst[i]
      BY <2>1, <3>1
    <3>3. IsPrefix(Root, dst)
      BY <2>1, <3>1, <3>2, PrefixBySegment
    <3>4. QED
      BY <3>3 DEF Unrelated
  <2>3. /\ from \subseteq {p \in DOMAIN tree.data : IsPrefix(src, p)}
        /\ Grafts(dst, nodes) /\ Carried(tree, src, dst, from, nodes)
    BY <2>1, MoveGrafts
  <2>4. HeapFor(nodes, props)
    <3> HIDE DEF from, nodes
    <3>1. QED
      BY <2>3, MoveHeapFor
  <2>5. IsFolder(tree, Parent(dst)) /\ ~(HasNode(tree, dst) /\ DelTreeRaises(tree, dst))
    BY <1>2, OverStays
  <2>6. MoveNode(tree, src, dst).fs = IF HasNode(added, src) THEN rest ELSE added
    <3>1. MoveNode(tree, src, dst) = Result(IF HasNode(added, src) THEN rest ELSE added,
                                            IF DelTreeRaises(added, src) THEN 500 ELSE 200)
      BY <2>5, Zenon DEF MoveNode, Over, over, nodes, props, added
    <3>2. QED
      BY <3>1 DEF Result
  <2>7. props = [id \in {nodes[q].props : q \in DOMAIN nodes} |-> tree.props[id]]
    OBVIOUS
  <2> HIDE DEF over, nodes, props, from
  <2>8. WellFormed(added) /\ \A p \in DOMAIN tree.data : ~IsPrefix(dst, p) => Stays(tree, added, p)
    BY <2>3, <2>5, TransferEffect DEF over
  <2>9. /\ HeapTyped(added)
        /\ DOMAIN added.data = {p \in DOMAIN tree.data : ~IsPrefix(dst, p)} \union DOMAIN nodes
        /\ \A q \in DOMAIN nodes : /\ added.data[q] = nodes[q]
                                   /\ added.props[added.data[q].props] = props[nodes[q].props]
    BY <2>3, <2>4, <2>5, TransferHeap DEF over
  <2>10. src \in DOMAIN added.data
    BY <2>1, <2>8 DEF Unrelated, Stays
  <2> HIDE DEF added
  <2>11. /\ DOMAIN rest.data = {p \in DOMAIN added.data : ~IsPrefix(src, p)}
         /\ \A p \in DOMAIN rest.data : Stays(added, rest, p)
         /\ HeapTyped(rest) /\ \A p \in DOMAIN rest.data : HasProps(added, p, rest, p)
    BY <2>1, <2>2, <2>8, <2>9, DelTreeStays, DelTreeHeap
  <2> HIDE DEF rest
  <2>12. Move(tree, src, dst, overwrite).fs = rest
    <3>1. MoveNode(tree, src, dst).fs = rest
      BY <2>6, <2>10 DEF HasNode
    <3>2. QED
      BY <1>2, <3>1 DEF Move, Result
  <2>13. ASSUME FlatIn(tree, src)
         PROVE  MovedWhole(tree, rest, src, dst)
    <3>1. from = {p \in DOMAIN tree.data : IsPrefix(src, p)}
      BY <2>1, <2>3, <2>13, FlatIsTaken DEF from, over
    <3>2. \A q \in DOMAIN nodes : IsPrefix(dst, q) /\ ~IsPrefix(src, q)
      <4> TAKE q \in DOMAIN nodes
      <4>1. IsPrefix(dst, q) /\ q \in Seq(Segment)
        BY <2>3, TargetsAreSequences DEF Grafts
      <4>2. QED
        BY <2>1, <4>1, AncestorsComparable DEF Unrelated, IsParentOfOrIsSelf, IsParentOf, IsStrictPrefix
    <3>3. {p \in DOMAIN rest.data : IsPrefix(dst, p) \/ IsPrefix(src, p)} = DOMAIN nodes
      BY <2>9, <2>11, <3>2
    <3>4. ASSUME NEW p \in from
          PROVE  /\ Becomes(tree, p, rest, Moved(p, src, dst))
                 /\ HasProps(tree, p, rest, Moved(p, src, dst))
      <4> DEFINE q == Moved(p, src, dst)
      <4>1. /\ q \in DOMAIN nodes /\ nodes[q].is_file = tree.data[p].is_file
            /\ nodes[q].content = tree.data[p].content /\ nodes[q].props = tree.data[p].props
        BY <2>3 DEF Carried
      <4> HIDE DEF q
      <4>2. q \in DOMAIN rest.data
        BY <2>9, <2>11, <3>2, <4>1
      <4>3. rest.data[q].is_file = nodes[q].is_file /\ rest.data[q].content = nodes[q].content
        BY <2>9, <2>11, <4>1, <4>2 DEF Stays
      <4>4. rest.props[rest.data[q].props] = props[nodes[q].props]
        BY <2>9, <2>11, <4>1, <4>2 DEF HasProps
      <4>5. props[nodes[q].props] = tree.props[tree.data[p].props]
        BY <2>7, <4>1
      <4>6. QED
        BY <4>1, <4>3, <4>4, <4>5 DEF Becomes, HasProps, q
    <3>5. DOMAIN nodes = {Moved(p, src, dst) : p \in from}
      BY <2>3 DEF Carried
    <3>6. QED
      BY <3>1, <3>3, <3>4, <3>5 DEF MovedWhole
  <2>14. QED
    BY <2>11, <2>12, <2>13
<1>3. QED
  BY <1>1, <1>2

-----------------------------------------------------------------------------
(* The specification *)

\* What a step does, given that the tree it starts from is well-formed.
StepIsSound ==
    /\ WellFormed(fs')
    /\ last'.status >= 400 \/ (last'.path = Root /\ last'.method \in {"MKCOL", "DELETE"})
         => fs' = fs
    /\ \A p \in DOMAIN fs.data :
         \/ IsPrefix(last'.path, p)
         \/ last'.method \in {"COPY", "MOVE"} /\ IsPrefix(last'.dst, p)
         \/ HasNode(fs', p) /\ Same(p, p)

\* A request on one path that was sound.
LEMMA ServedOne ==
    ASSUME NEW result, NEW method, NEW path, Sound(fs, result, {path}),
           Serve(result, Request(method, path)),
           path = Root /\ method \in {"MKCOL", "DELETE"} => result.fs = fs
    PROVE  StepIsSound
<1>1. fs' = result.fs /\ last' = [Request(method, path) EXCEPT !.status = result.status]
  BY DEF Serve
<1>2. last'.status = result.status /\ last'.method = method /\ last'.path = path
  BY <1>1 DEF Request
<1>3. QED
  BY <1>1, <1>2 DEF StepIsSound, Sound, Stays, HasNode, Same

\* A COPY or MOVE that was sound.
LEMMA ServedTwo ==
    ASSUME NEW result, NEW method \in {"COPY", "MOVE"}, NEW src, NEW dst, NEW depth,
           Sound(fs, result, {src, dst}), Serve(result, Transfer(method, src, dst, depth))
    PROVE  StepIsSound
<1>1. fs' = result.fs /\ last' = [Transfer(method, src, dst, depth) EXCEPT !.status = result.status]
  BY DEF Serve
<1>2. /\ last'.status = result.status /\ last'.method = method
      /\ last'.path = src /\ last'.dst = dst
  BY <1>1 DEF Transfer
<1>3. QED
  BY <1>1, <1>2 DEF StepIsSound, Sound, Stays, HasNode, Same

\* The tree of a new provider is well-formed.
LEMMA EmptyIsWellFormed == WellFormed(EmptyFS)
<1> DEFINE root == [is_file |-> FALSE, content |-> Empty, children |-> {}, props |-> <<Root, 1>>]
<1>1. /\ EmptyFS.data = [p \in {Root} |-> root]
      /\ EmptyFS = [data |-> EmptyFS.data, props |-> EmptyFS.props]
  BY DEF EmptyFS
<1>2. NodeShape(root) /\ root.children = {}
  BY DEF NodeShape
<1> HIDE DEF root
<1>3. Len(Root) = 0 /\ 0 .. 0 - 1 = {}
  BY DEF Root
<1>4. QED
  BY <1>1, <1>2, <1>3 DEF WellFormed, Shape, Linked, Listed, Target

\* Whatever request is served, its step is sound.
LEMMA EveryStepIsSound ==
    ASSUME Orderly, WellFormed(fs), NextTree
    PROVE  StepIsSound
<1>1. ASSUME NEW path \in Target, DoMkcol(path)
      PROVE  StepIsSound
  <2>1. Sound(fs, Mkcol(fs, path), {path}) /\ (path = Root => Mkcol(fs, path).fs = fs)
    BY <1>1, MkcolSound DEF DoMkcol, MayCreate
  <2>2. QED
    BY <1>1, <2>1, ServedOne DEF DoMkcol
<1>2. ASSUME NEW path \in Target, DoDelete(path)
      PROVE  StepIsSound
  <2>1. Sound(fs, Delete(fs, path), {path}) /\ (path = Root => Delete(fs, path).fs = fs)
    BY DeleteSound
  <2>2. QED
    BY <1>2, <2>1, ServedOne DEF DoDelete
<1>3. ASSUME NEW path \in Target, NEW content \in Content, DoPut(path, content)
      PROVE  StepIsSound
  <2>1. Sound(fs, Put(fs, path, content), {path})
    BY <1>3, PutSound DEF DoPut, MayCreate
  <2>2. QED
    BY <1>3, <2>1, ServedOne DEF DoPut
<1>4. ASSUME NEW path \in Target, NEW extra \in Extra, DoProppatch(path, extra)
      PROVE  StepIsSound
  <2>1. Sound(fs, Proppatch(fs, path, extra), {path})
    BY ProppatchSound
  <2>2. QED
    BY <1>4, <2>1, ServedOne DEF DoProppatch
<1>5. ASSUME NEW src \in Target, NEW dst \in Path, NEW overwrite \in BOOLEAN,
             DoMove(src, dst, overwrite)
      PROVE  StepIsSound
  <2>1. Sound(fs, Move(fs, src, dst, overwrite), {src, dst})
    BY <1>5, MoveSound DEF DoMove, MayCreate, Fits, Related, Unrelated
  <2>2. QED
    BY <1>5, <2>1, ServedTwo DEF DoMove
<1>6. ASSUME NEW src \in Target, NEW dst \in Path, NEW overwrite \in BOOLEAN,
             NEW depth \in DAVDepth, DoCopy(src, dst, depth, overwrite)
      PROVE  StepIsSound
  <2>1. Sound(fs, Copy(fs, src, dst, depth, overwrite), {src, dst})
    BY <1>6, CopySound DEF DoCopy, MayCreate, Fits, Related, Unrelated
  <2>2. QED
    BY <1>6, <2>1, ServedTwo DEF DoCopy
<1>7. QED
  BY <1>1, <1>2, <1>3, <1>4, <1>5, <1>6 DEF NextTree

\* What a step does to the property objects, and what a COPY and a MOVE carry over.
StepIsWhole ==
    /\ HeapTyped(fs')
    /\ Succeeded("COPY") /\ last'.depth = "INFINITY" => CopiedWhole(fs, fs', last'.path, last'.dst)
    /\ Succeeded("MOVE") /\ FlatIn(fs, last'.path) => MovedWhole(fs, fs', last'.path, last'.dst)

\* A request that keeps the heap and is neither a COPY nor a MOVE.
LEMMA ServedHeap ==
    ASSUME NEW result, NEW method \in {"MKCOL", "DELETE", "PUT", "PROPPATCH"}, NEW path,
           HeapTyped(result.fs), Serve(result, Request(method, path))
    PROVE  StepIsWhole
<1>1. fs' = result.fs /\ last' = [Request(method, path) EXCEPT !.status = result.status]
  BY DEF Serve
<1>2. last'.method = method
  BY <1>1 DEF Request
<1>3. QED
  BY <1>1, <1>2 DEF StepIsWhole, Succeeded

\* Whatever request is served, its step is whole.
LEMMA EveryStepIsWhole ==
    ASSUME Orderly, WellFormed(fs), HeapTyped(fs), NextTree
    PROVE  StepIsWhole
<1>1. ASSUME NEW path \in Target, DoMkcol(path)
      PROVE  StepIsWhole
  <2>1. HeapTyped(Mkcol(fs, path).fs)
    BY <1>1, MkcolHeap DEF DoMkcol, MayCreate
  <2>2. QED
    BY <1>1, <2>1, ServedHeap DEF DoMkcol
<1>2. ASSUME NEW path \in Target, DoDelete(path)
      PROVE  StepIsWhole
  <2>1. HeapTyped(Delete(fs, path).fs)
    BY DeleteHeap
  <2>2. QED
    BY <1>2, <2>1, ServedHeap DEF DoDelete
<1>3. ASSUME NEW path \in Target, NEW content \in Content, DoPut(path, content)
      PROVE  StepIsWhole
  <2>1. HeapTyped(Put(fs, path, content).fs)
    BY <1>3, PutHeap DEF DoPut, MayCreate
  <2>2. QED
    BY <1>3, <2>1, ServedHeap DEF DoPut
<1>4. ASSUME NEW path \in Target, NEW extra \in Extra, DoProppatch(path, extra)
      PROVE  StepIsWhole
  <2>1. HeapTyped(Proppatch(fs, path, extra).fs)
    BY ProppatchHeap
  <2>2. QED
    BY <1>4, <2>1, ServedHeap DEF DoProppatch
<1>5. ASSUME NEW src \in Target, NEW dst \in Path, NEW overwrite \in BOOLEAN,
             DoMove(src, dst, overwrite)
      PROVE  StepIsWhole
  <2> DEFINE result == Move(fs, src, dst, overwrite)
  <2>1. /\ HeapTyped(result.fs)
        /\ result.status < 300 /\ FlatIn(fs, src) => MovedWhole(fs, result.fs, src, dst)
    BY <1>5, MoveHeap DEF DoMove, MayCreate, Fits, Related, Unrelated
  <2> HIDE DEF result
  <2>2. fs' = result.fs /\ last' = [Transfer("MOVE", src, dst, "INFINITY") EXCEPT !.status = result.status]
    BY <1>5 DEF DoMove, Serve, result
  <2>3. /\ last'.method = "MOVE" /\ last'.status = result.status
        /\ last'.path = src /\ last'.dst = dst
    BY <2>2 DEF Transfer
  <2>4. QED
    BY <2>1, <2>2, <2>3 DEF StepIsWhole, Succeeded
<1>6. ASSUME NEW src \in Target, NEW dst \in Path, NEW overwrite \in BOOLEAN,
             NEW depth \in DAVDepth, DoCopy(src, dst, depth, overwrite)
      PROVE  StepIsWhole
  <2> DEFINE result == Copy(fs, src, dst, depth, overwrite)
  <2>1. /\ HeapTyped(result.fs)
        /\ result.status < 300 /\ depth = "INFINITY" => CopiedWhole(fs, result.fs, src, dst)
    BY <1>6, CopyHeap DEF DoCopy, MayCreate, Fits, Related, Unrelated
  <2> HIDE DEF result
  <2>2. fs' = result.fs /\ last' = [Transfer("COPY", src, dst, depth) EXCEPT !.status = result.status]
    BY <1>6 DEF DoCopy, Serve, result
  <2>3. /\ last'.method = "COPY" /\ last'.status = result.status /\ last'.depth = depth
        /\ last'.path = src /\ last'.dst = dst
    BY <2>2 DEF Transfer
  <2>4. QED
    BY <2>1, <2>2, <2>3 DEF StepIsWhole, Succeeded
<1>7. QED
  BY <1>1, <1>2, <1>3, <1>4, <1>5, <1>6 DEF NextTree

\* As long as clients are orderly, the tree is well-formed after any requests.
THEOREM WellFormedAlways ==
    ASSUME Orderly
    PROVE  SpecTree => []WellFormed(fs)
<1>1. InitTree => WellFormed(fs)
  BY EmptyIsWellFormed DEF InitTree
<1>2. WellFormed(fs) /\ [NextTree]_treeVars => WellFormed(fs)'
  <2>1. CASE NextTree
    BY <2>1, EveryStepIsSound DEF StepIsSound, WellFormed, Shape, Linked, Listed
  <2>2. CASE UNCHANGED treeVars
    BY <2>2 DEF treeVars
  <2>3. QED
    BY <2>1, <2>2
<1>3. QED
  BY <1>1, <1>2, PTL DEF SpecTree

\* What PROPFIND walks over is what the other requests find: MKCOL, PUT, DELETE, COPY
\* and MOVE of orderly clients keep the dictionary of paths and the lists of children
\* (class MemoryFS) one tree, and leave nothing behind.
THEOREM OneTreeAlways ==
    ASSUME Orderly
    PROVE  SpecTree => []OneTree
<1>1. WellFormed(fs) => OneTree
  BY WellFormedIsOneTree DEF OneTree
<1>2. QED
  BY <1>1, WellFormedAlways, PTL

\* A refused request of an orderly client, and the creation or deletion of the root,
\* leave the tree as it was: no exception is raised half-way through (del_tree of
\* class MemoryFS).
THEOREM RefusedNeverChanges ==
    ASSUME Orderly
    PROVE  SpecTree => RefusedChangesNothing
<1>1. WellFormed(fs) /\ [NextTree]_treeVars =>
        [last'.status >= 400 \/ (last'.path = Root /\ last'.method \in {"MKCOL", "DELETE"})
           => fs' = fs]_treeVars
  BY EveryStepIsSound DEF StepIsSound
<1>2. QED
  BY <1>1, WellFormedAlways, PTL DEF SpecTree, RefusedChangesNothing

\* No request of an orderly client touches a node outside the trees it names: what a
\* copy or a deletion finds by walking over children never leads out of its top.
THEOREM OthersNeverTouched ==
    ASSUME Orderly
    PROVE  SpecTree => OthersUntouched
<1>1. WellFormed(fs) /\ [NextTree]_treeVars =>
        [\A p \in DOMAIN fs.data :
            \/ IsPrefix(last'.path, p)
            \/ last'.method \in {"COPY", "MOVE"} /\ IsPrefix(last'.dst, p)
            \/ HasNode(fs', p) /\ Same(p, p)]_treeVars
  BY EveryStepIsSound DEF StepIsSound
<1>2. QED
  BY <1>1, WellFormedAlways, PTL DEF SpecTree, OthersUntouched

\* Every node refers to a property object that is there, and the objects that are there
\* are those referred to.
LEMMA HeapTypedAlways ==
    ASSUME Orderly
    PROVE  SpecTree => []HeapTyped(fs)
<1>1. InitTree => HeapTyped(fs)
  BY EmptyHeap DEF InitTree
<1>2. WellFormed(fs) /\ HeapTyped(fs) /\ [NextTree]_treeVars => HeapTyped(fs)'
  <2>1. CASE NextTree
    BY <2>1, EveryStepIsWhole DEF StepIsWhole, HeapTyped
  <2>2. CASE UNCHANGED treeVars
    BY <2>2 DEF treeVars
  <2>3. QED
    BY <2>1, <2>2
<1>3. QED
  BY <1>1, <1>2, WellFormedAlways, PTL DEF SpecTree

\* Type correctness: no request of an orderly client leaves a node that refers to a
\* property object freed with another node (class MemoryFSNode, copy_node, move_node).
THEOREM TreeTypeOKAlways ==
    ASSUME Orderly
    PROVE  SpecTree => []TreeTypeOK
<1>1. WellFormed(fs) /\ HeapTyped(fs) => TreeTypeOK
  <2> SUFFICES ASSUME WellFormed(fs), HeapTyped(fs)
               PROVE  TreeTypeOK
    OBVIOUS
  <2>1. ASSUME NEW p \in DOMAIN fs.data
        PROVE  fs.data[p] \in Node /\ fs.data[p].props \in DOMAIN fs.props
    <3> DEFINE node == fs.data[p]
    <3>1. NodeShape(node) /\ node.content \in Content /\ node.props \in PropId
      BY DEF WellFormed, Shape, HeapTyped
    <3> HIDE DEF node
    <3>2. node \in Node
      BY <3>1 DEF NodeShape, Node
    <3>3. QED
      BY <3>2 DEF node, HeapTyped
  <2>2. QED
    BY <2>1 DEF TreeTypeOK, WellFormed, Shape, HeapTyped
<1>2. QED
  BY <1>1, WellFormedAlways, HeapTypedAlways, PTL

\* A COPY of infinite depth of an orderly client makes of the destination what the
\* source is, node for node, with the properties of what was copied and of each folder in it, and
\* leaves the source and its properties as they were, whatever the destination was before
\* (copy_node of class MemoryFS).
THEOREM CopyAlwaysWhole ==
    ASSUME Orderly
    PROVE  SpecTree => CopyIsWhole
<1>1. WellFormed(fs) /\ HeapTyped(fs) /\ [NextTree]_treeVars =>
        [Succeeded("COPY") /\ last'.depth = "INFINITY" =>
           LET src == last'.path  dst == last'.dst
           IN  /\ {p \in DOMAIN fs'.data : IsPrefix(dst, p)}
                    = {Moved(p, src, dst) : p \in Below(src)}
               /\ \A p \in Below(src) :
                    /\ Same(p, Moved(p, src, dst)) /\ Same(p, p) /\ SameProps(p, p)
                    /\ p = src \/ ~fs.data[p].is_file => SameProps(p, Moved(p, src, dst))
        ]_treeVars
  <2> SUFFICES ASSUME WellFormed(fs), HeapTyped(fs), NextTree,
                      Succeeded("COPY"), last'.depth = "INFINITY"
               PROVE  LET src == last'.path  dst == last'.dst
                      IN  /\ {p \in DOMAIN fs'.data : IsPrefix(dst, p)}
                               = {Moved(p, src, dst) : p \in Below(src)}
                          /\ \A p \in Below(src) :
                               /\ Same(p, Moved(p, src, dst)) /\ Same(p, p) /\ SameProps(p, p)
                               /\ p = src \/ ~fs.data[p].is_file
                                    => SameProps(p, Moved(p, src, dst))
    OBVIOUS
  <2>1. CopiedWhole(fs, fs', last'.path, last'.dst)
    BY EveryStepIsWhole DEF StepIsWhole
  <2>2. QED
    BY <2>1 DEF CopiedWhole, Below, Becomes, HasProps, Same, SameProps
<1>2. QED
  BY <1>1, WellFormedAlways, HeapTypedAlways, PTL DEF SpecTree, CopyIsWhole

\* A MOVE of an orderly client of a file, or of a folder without folders in folders,
\* makes of the destination what the source was, its properties included, and takes
\* the source out (move_node of class MemoryFS).
THEOREM FlatMoveAlwaysWhole ==
    ASSUME Orderly
    PROVE  SpecTree => FlatMoveIsWhole
<1>1. WellFormed(fs) /\ HeapTyped(fs) /\ [NextTree]_treeVars =>
        [Succeeded("MOVE") /\ Flat(last'.path) =>
           LET src == last'.path  dst == last'.dst
           IN  /\ {p \in DOMAIN fs'.data : IsPrefix(dst, p) \/ IsPrefix(src, p)}
                    = {Moved(p, src, dst) : p \in Below(src)}
               /\ \A p \in Below(src) :
                    Same(p, Moved(p, src, dst)) /\ SameProps(p, Moved(p, src, dst))
        ]_treeVars
  <2> SUFFICES ASSUME WellFormed(fs), HeapTyped(fs), NextTree,
                      Succeeded("MOVE"), Flat(last'.path)
               PROVE  LET src == last'.path  dst == last'.dst
                      IN  /\ {p \in DOMAIN fs'.data : IsPrefix(dst, p) \/ IsPrefix(src, p)}
                               = {Moved(p, src, dst) : p \in Below(src)}
                          /\ \A p \in Below(src) :
                               Same(p, Moved(p, src, dst)) /\ SameProps(p, Moved(p, src, dst))
    OBVIOUS
  <2>1. FlatIn(fs, last'.path)
    BY DEF Flat, FlatIn, Below
  <2>2. MovedWhole(fs, fs', last'.path, last'.dst)
    BY <2>1, EveryStepIsWhole DEF StepIsWhole
  <2>3. QED
    BY <2>2 DEF MovedWhole, Below, Becomes, HasProps, Same, SameProps
<1>2. QED
  BY <1>1, WellFormedAlways, HeapTypedAlways, PTL DEF SpecTree, FlatMoveIsWhole
=============================================================================
