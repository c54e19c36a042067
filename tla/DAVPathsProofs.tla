--------------------------- MODULE DAVPathsProofs ---------------------------
(* Facts about paths, and about sets of numbers, that the proofs rest on. *)
EXTENDS DAVPaths, Integers, WellFoundedInduction, FiniteSetTheorems, TLAPS

\* A set of numbers has a smallest.
LEMMA Smallest ==
    ASSUME NEW S \in SUBSET Nat, S # {}
    PROVE  \E i \in S : \A j \in S : i <= j
<1>1. PICK i \in S : \A j \in S : ~(<<j, i>> \in OpToRel(<, Nat))
  BY WFMin, NatLessThanWellFounded, Zenon
<1>2. \A j \in S : ~(j < i)
  BY <1>1 DEF OpToRel
<1> QED
  BY <1>2

\* A prefix test compares segment by segment.
LEMMA PrefixBySegment ==
    ASSUME NEW S, NEW s \in Seq(S), NEW t \in Seq(S)
    PROVE  IsPrefix(s, t) <=> Len(s) <= Len(t) /\ \A i \in 1 .. Len(s) : s[i] = t[i]
<1>1. CASE Len(s) <= Len(t)
  <2>1. /\ SubSeq(s, 1, Len(s)) = [i \in 1 .. Len(s) |-> s[i]]
        /\ SubSeq(t, 1, Len(s)) = [i \in 1 .. Len(s) |-> t[i]]
    BY <1>1
  <2>2. QED
    BY <1>1, <2>1 DEF IsPrefix
<1>2. QED
  BY <1>1 DEF IsPrefix

\* Every path is a prefix of itself.
LEMMA PrefixReflexive ==
    ASSUME NEW S, NEW s \in Seq(S)
    PROVE  IsParentOfOrIsSelf(s, s)
BY PrefixBySegment DEF IsParentOfOrIsSelf

\* Two ancestors of one path lie on one branch of the tree.
LEMMA AncestorsComparable ==
    ASSUME NEW S, NEW p \in Seq(S), NEW q \in Seq(S), NEW r \in Seq(S),
           IsParentOfOrIsSelf(p, r), IsParentOfOrIsSelf(q, r)
    PROVE  IsParentOfOrIsSelf(p, q) \/ IsParentOf(q, p)
<1>1. /\ Len(p) <= Len(r) /\ \A i \in 1 .. Len(p) : p[i] = r[i]
      /\ Len(q) <= Len(r) /\ \A i \in 1 .. Len(q) : q[i] = r[i]
  BY PrefixBySegment DEF IsParentOfOrIsSelf
<1>2. CASE Len(p) <= Len(q)
  <2>1. \A i \in 1 .. Len(p) : p[i] = q[i]
    BY <1>1, <1>2
  <2>2. QED
    BY <1>2, <2>1, PrefixBySegment DEF IsParentOfOrIsSelf
<1>3. CASE Len(q) < Len(p)
  <2>1. \A i \in 1 .. Len(q) : q[i] = p[i]
    BY <1>1, <1>3
  <2>2. IsPrefix(q, p) /\ q # p
    BY <1>3, <2>1, PrefixBySegment
  <2>3. QED
    BY <2>2 DEF IsParentOf, IsStrictPrefix
<1>4. QED
  BY <1>2, <1>3

\* Sequences are equal when they agree everywhere.
LEMMA SameSequence ==
    ASSUME NEW s \in Seq(Segment), NEW t \in Seq(Segment), Len(s) = Len(t),
           \A i \in 1 .. Len(s) : s[i] = t[i]
    PROVE  s = t
OBVIOUS

\* The first k segments of a path.
LEMMA FirstSegments ==
    ASSUME NEW p \in Seq(Segment), NEW k \in 0 .. Len(p)
    PROVE  /\ SubSeq(p, 1, k) \in Seq(Segment) /\ Len(SubSeq(p, 1, k)) = k
           /\ \A i \in 1 .. k : SubSeq(p, 1, k)[i] = p[i]
           /\ IsPrefix(SubSeq(p, 1, k), p)
<1>1. /\ SubSeq(p, 1, k) \in Seq(Segment) /\ Len(SubSeq(p, 1, k)) = k
      /\ \A i \in 1 .. k : SubSeq(p, 1, k)[i] = p[i]
  OBVIOUS
<1>2. IsPrefix(SubSeq(p, 1, k), p)
  <2>1. k <= Len(p)
    OBVIOUS
  <2>2. QED
    BY <1>1, <2>1, PrefixBySegment
<1>3. QED
  BY <1>1, <1>2

\* A prefix of a path is its first segments, one by one.
LEMMA PrefixIsFirst ==
    ASSUME NEW p \in Seq(Segment), NEW q \in Seq(Segment), IsPrefix(q, p)
    PROVE  /\ Len(q) <= Len(p) /\ q = SubSeq(p, 1, Len(q))
           /\ \A k \in 0 .. Len(q) : SubSeq(p, 1, k) = SubSeq(q, 1, k)
           /\ \A i \in 1 .. Len(q) : p[i] = q[i]
<1>1. Len(q) <= Len(p) /\ \A i \in 1 .. Len(q) : q[i] = p[i]
  BY PrefixBySegment
<1>2. \A k \in 0 .. Len(q) : SubSeq(p, 1, k) = SubSeq(q, 1, k)
  <2> TAKE k \in 0 .. Len(q)
  <2>1. k \in 0 .. Len(p)
    BY <1>1
  <2>2. /\ SubSeq(p, 1, k) \in Seq(Segment) /\ Len(SubSeq(p, 1, k)) = k
        /\ \A i \in 1 .. k : SubSeq(p, 1, k)[i] = p[i]
    BY <2>1, FirstSegments
  <2>3. /\ SubSeq(q, 1, k) \in Seq(Segment) /\ Len(SubSeq(q, 1, k)) = k
        /\ \A i \in 1 .. k : SubSeq(q, 1, k)[i] = q[i]
    BY FirstSegments
  <2>4. \A i \in 1 .. k : SubSeq(p, 1, k)[i] = SubSeq(q, 1, k)[i]
    BY <1>1, <2>2, <2>3
  <2>5. QED
    BY <2>2, <2>3, <2>4, SameSequence
<1>3. SubSeq(q, 1, Len(q)) = q
  OBVIOUS
<1>4. QED
  BY <1>1, <1>2, <1>3

\* A prefix of a path is a prefix of its longer prefixes.
LEMMA PrefixOfFirst ==
    ASSUME NEW p \in Seq(Segment), NEW q \in Seq(Segment), IsPrefix(q, p),
           NEW k \in 0 .. Len(p), Len(q) <= k
    PROVE  IsPrefix(q, SubSeq(p, 1, k))
<1>1. /\ SubSeq(p, 1, k) \in Seq(Segment) /\ Len(SubSeq(p, 1, k)) = k
      /\ \A i \in 1 .. k : SubSeq(p, 1, k)[i] = p[i]
  BY FirstSegments
<1>2. \A i \in 1 .. Len(q) : q[i] = p[i]
  BY PrefixBySegment
<1>3. \A i \in 1 .. Len(q) : q[i] = SubSeq(p, 1, k)[i]
  BY <1>1, <1>2
<1>4. QED
  BY <1>1, <1>3, PrefixBySegment

\* What lies above an ancestor lies above the path.
LEMMA PrefixTransitive ==
    ASSUME NEW p \in Seq(Segment), NEW q \in Seq(Segment), NEW r \in Seq(Segment),
           IsPrefix(p, q), IsPrefix(q, r)
    PROVE  IsPrefix(p, r)
<1>1. /\ Len(p) <= Len(q) /\ \A i \in 1 .. Len(p) : p[i] = q[i]
      /\ Len(q) <= Len(r) /\ \A i \in 1 .. Len(q) : q[i] = r[i]
  BY PrefixBySegment
<1>2. Len(p) <= Len(r) /\ \A i \in 1 .. Len(p) : p[i] = r[i]
  BY <1>1
<1>3. QED
  BY <1>2, PrefixBySegment

\* Paths that are not above one another have nothing in common below.
LEMMA Separate ==
    ASSUME NEW p \in Seq(Segment), NEW q \in Seq(Segment), ~IsPrefix(p, q), ~IsPrefix(q, p),
           NEW x \in Seq(Segment), IsPrefix(p, x)
    PROVE  ~IsPrefix(q, x)
BY AncestorsComparable DEF IsParentOf, IsParentOfOrIsSelf, IsStrictPrefix

\* A path below a folder, named from there.
LEMMA ChildOfAdded ==
    ASSUME NEW p \in Seq(Segment), NEW q \in Seq(Segment)
    PROVE  /\ AddChild(p, q) \in Seq(Segment) /\ Len(AddChild(p, q)) = Len(p) + Len(q)
           /\ \A i \in 1 .. Len(p) : AddChild(p, q)[i] = p[i]
           /\ \A i \in 1 .. Len(q) : AddChild(p, q)[Len(p) + i] = q[i]
           /\ IsPrefix(p, AddChild(p, q))
           /\ GetChild(AddChild(p, q), p) = q
<1>1. /\ AddChild(p, q) \in Seq(Segment) /\ Len(AddChild(p, q)) = Len(p) + Len(q)
      /\ \A i \in 1 .. Len(p) : AddChild(p, q)[i] = p[i]
      /\ \A i \in 1 .. Len(q) : AddChild(p, q)[Len(p) + i] = q[i]
  BY DEF AddChild
<1>2. IsPrefix(p, AddChild(p, q))
  BY <1>1, PrefixBySegment
<1>3. GetChild(AddChild(p, q), p) \in Seq(Segment) /\ Len(GetChild(AddChild(p, q), p)) = Len(q)
  BY <1>1 DEF GetChild
<1>4. \A i \in 1 .. Len(q) : GetChild(AddChild(p, q), p)[i] = q[i]
  BY <1>1 DEF GetChild
<1>5. QED
  BY <1>1, <1>2, <1>3, <1>4, SameSequence

\* The other way round: what is below a folder is the folder and its name from there.
LEMMA AddedChild ==
    ASSUME NEW p \in Seq(Segment), NEW r \in Seq(Segment), IsPrefix(p, r)
    PROVE  /\ GetChild(r, p) \in Seq(Segment) /\ Len(GetChild(r, p)) = Len(r) - Len(p)
           /\ AddChild(p, GetChild(r, p)) = r
<1>1. Len(p) <= Len(r) /\ \A i \in 1 .. Len(p) : p[i] = r[i]
  BY PrefixBySegment
<1>2. /\ GetChild(r, p) \in Seq(Segment) /\ Len(GetChild(r, p)) = Len(r) - Len(p)
      /\ \A i \in 1 .. Len(r) - Len(p) : GetChild(r, p)[i] = r[Len(p) + i]
  BY <1>1 DEF GetChild
<1>3. /\ AddChild(p, GetChild(r, p)) \in Seq(Segment) /\ Len(AddChild(p, GetChild(r, p))) = Len(r)
      /\ \A i \in 1 .. Len(p) : AddChild(p, GetChild(r, p))[i] = p[i]
      /\ \A i \in 1 .. Len(r) - Len(p) :
           AddChild(p, GetChild(r, p))[Len(p) + i] = GetChild(r, p)[i]
  <2>1. ASSUME NEW q \in Seq(Segment), Len(q) = Len(r) - Len(p)
        PROVE  /\ AddChild(p, q) \in Seq(Segment) /\ Len(AddChild(p, q)) = Len(r)
               /\ \A i \in 1 .. Len(p) : AddChild(p, q)[i] = p[i]
               /\ \A i \in 1 .. Len(r) - Len(p) : AddChild(p, q)[Len(p) + i] = q[i]
    <3>1. /\ AddChild(p, q) \in Seq(Segment) /\ Len(AddChild(p, q)) = Len(p) + Len(q)
          /\ \A i \in 1 .. Len(p) : AddChild(p, q)[i] = p[i]
          /\ \A i \in 1 .. Len(q) : AddChild(p, q)[Len(p) + i] = q[i]
      BY ChildOfAdded
    <3>2. Len(p) + Len(q) = Len(r)
      BY <2>1
    <3>3. QED
      BY <2>1, <3>1, <3>2
  <2>2. QED
    BY <1>2, <2>1
<1>4. ASSUME NEW i \in 1 .. Len(r) PROVE AddChild(p, GetChild(r, p))[i] = r[i]
  <2>1. CASE i <= Len(p)
    BY <1>1, <1>3, <2>1
  <2>2. CASE i > Len(p)
    <3>1. i - Len(p) \in 1 .. Len(r) - Len(p) /\ Len(p) + (i - Len(p)) = i
      BY <2>2
    <3>2. QED
      BY <1>2, <1>3, <3>1
  <2>3. QED
    BY <2>1, <2>2
<1>5. QED
  BY <1>2, <1>3, <1>4, SameSequence

\* What is directly below a path is so from any folder above the path.
LEMMA MemberFrom ==
    ASSUME NEW p \in Seq(Segment), NEW q \in Seq(Segment), NEW r \in Seq(Segment)
    PROVE  IsParentOf(q, r) <=> IsParentOf(AddChild(p, q), AddChild(p, r))
<1>1. /\ AddChild(p, q) \in Seq(Segment) /\ Len(AddChild(p, q)) = Len(p) + Len(q)
      /\ \A i \in 1 .. Len(p) : AddChild(p, q)[i] = p[i]
      /\ \A i \in 1 .. Len(q) : AddChild(p, q)[Len(p) + i] = q[i]
      /\ GetChild(AddChild(p, q), p) = q
  BY ChildOfAdded
<1>2. /\ AddChild(p, r) \in Seq(Segment) /\ Len(AddChild(p, r)) = Len(p) + Len(r)
      /\ \A i \in 1 .. Len(p) : AddChild(p, r)[i] = p[i]
      /\ \A i \in 1 .. Len(r) : AddChild(p, r)[Len(p) + i] = r[i]
      /\ GetChild(AddChild(p, r), p) = r
  BY ChildOfAdded
<1>3. q = r <=> AddChild(p, q) = AddChild(p, r)
  BY <1>1, <1>2
<1>4. ASSUME IsPrefix(q, r) PROVE IsPrefix(AddChild(p, q), AddChild(p, r))
  <2>1. Len(q) <= Len(r) /\ \A i \in 1 .. Len(q) : q[i] = r[i]
    BY <1>4, PrefixBySegment
  <2>2. ASSUME NEW i \in 1 .. Len(p) + Len(q) PROVE AddChild(p, q)[i] = AddChild(p, r)[i]
    <3>1. CASE i <= Len(p)
      BY <1>1, <1>2, <3>1
    <3>2. CASE i > Len(p)
      <4>1. i - Len(p) \in 1 .. Len(q) /\ i - Len(p) \in 1 .. Len(r) /\ Len(p) + (i - Len(p)) = i
        BY <2>1, <3>2
      <4>2. QED
        BY <1>1, <1>2, <2>1, <4>1
    <3>3. QED
      BY <3>1, <3>2
  <2>3. Len(AddChild(p, q)) <= Len(AddChild(p, r))
    BY <1>1, <1>2, <2>1
  <2>4. \A i \in 1 .. Len(AddChild(p, q)) : AddChild(p, q)[i] = AddChild(p, r)[i]
    BY <1>1, <2>2
  <2>5. QED
    BY <1>1, <1>2, <2>3, <2>4, PrefixBySegment
<1>5. ASSUME IsPrefix(AddChild(p, q), AddChild(p, r)) PROVE IsPrefix(q, r)
  <2>1. /\ Len(p) + Len(q) <= Len(p) + Len(r)
        /\ \A i \in 1 .. Len(p) + Len(q) : AddChild(p, q)[i] = AddChild(p, r)[i]
    <3>1. /\ Len(AddChild(p, q)) <= Len(AddChild(p, r))
          /\ \A i \in 1 .. Len(AddChild(p, q)) : AddChild(p, q)[i] = AddChild(p, r)[i]
      <4>1. AddChild(p, q) \in Seq(Segment) /\ AddChild(p, r) \in Seq(Segment)
        BY <1>1, <1>2
      <4>2. QED
        BY <1>5, <4>1, PrefixBySegment
    <3>2. QED
      BY <1>1, <1>2, <3>1
  <2>2. ASSUME NEW i \in 1 .. Len(q) PROVE q[i] = r[i]
    <3>1. Len(p) + i \in 1 .. Len(p) + Len(q) /\ i \in 1 .. Len(r)
      BY <2>1
    <3>2. QED
      BY <1>1, <1>2, <2>1, <3>1
  <2>3. QED
    BY <2>1, <2>2, PrefixBySegment
<1>6. QED
  BY <1>3, <1>4, <1>5 DEF IsParentOf, IsStrictPrefix

-----------------------------------------------------------------------------
(* Paths below one folder, taken to another *)

Relocated(p, src, dst) == AddChild(dst, GetChild(p, src))

\* A path below the source and its place below the destination.
LEMMA RelocatedFacts ==
    ASSUME NEW p \in Seq(Segment), NEW src \in Seq(Segment), NEW dst \in Seq(Segment), IsPrefix(src, p)
    PROVE  LET m == Relocated(p, src, dst)
           IN  /\ m \in Seq(Segment) /\ Len(m) = Len(dst) + (Len(p) - Len(src))
               /\ \A i \in 1 .. Len(dst) : m[i] = dst[i]
               /\ \A i \in 1 .. Len(p) - Len(src) : m[Len(dst) + i] = p[Len(src) + i]
               /\ IsPrefix(dst, m)
<1> DEFINE rest == SubSeq(p, Len(src) + 1, Len(p))
           m == dst \o rest
<1>1. /\ Len(src) <= Len(p) /\ Len(src) \in Nat /\ Len(p) \in Nat /\ Len(dst) \in Nat
      /\ \A i \in 1 .. Len(src) : src[i] = p[i]
  BY PrefixBySegment
<1>2. /\ rest \in Seq(Segment) /\ Len(rest) = Len(p) - Len(src)
      /\ \A i \in 1 .. Len(p) - Len(src) : rest[i] = p[Len(src) + i]
  BY <1>1
<1> HIDE DEF rest
<1>3. /\ m \in Seq(Segment) /\ Len(m) = Len(dst) + Len(rest)
      /\ \A i \in 1 .. Len(dst) : m[i] = dst[i]
      /\ \A i \in 1 .. Len(rest) : m[Len(dst) + i] = rest[i]
  <2>1. rest \in Seq(Segment)
    BY <1>2
  <2>2. m \in Seq(Segment)
    BY <2>1
  <2>3. Len(m) = Len(dst) + Len(rest)
    BY <2>1
  <2>4. ASSUME NEW i \in 1 .. Len(dst)
        PROVE  m[i] = dst[i]
    <3>1. i \in 1 .. Len(dst) + Len(rest) /\ i <= Len(dst)
      BY <1>1, <1>2
    <3>2. QED
      BY <1>2, <3>1
  <2>5. ASSUME NEW i \in 1 .. Len(rest)
        PROVE  m[Len(dst) + i] = rest[i]
    <3>1. /\ Len(dst) + i \in 1 .. Len(dst) + Len(rest) /\ ~(Len(dst) + i <= Len(dst))
          /\ Len(dst) + i - Len(dst) = i
      BY <1>1, <1>2
    <3>2. QED
      BY <1>2, <3>1
  <2>6. QED
    BY <2>2, <2>3, <2>4, <2>5
<1>4. Relocated(p, src, dst) = m
  BY DEF Relocated, AddChild, GetChild, rest
<1> HIDE DEF m
<1>5. IsPrefix(dst, m)
  <2>1. Len(dst) <= Len(m)
    BY <1>1, <1>2, <1>3
  <2>2. QED
    BY <1>3, <2>1, PrefixBySegment
<1>6. QED
  BY <1>2, <1>3, <1>4, <1>5

\* The source itself goes to the destination.
LEMMA RelocatedTop ==
    ASSUME NEW src \in Seq(Segment), NEW dst \in Seq(Segment)
    PROVE  Relocated(src, src, dst) = dst
<1>1. IsPrefix(src, src) /\ Len(src) - Len(src) = 0
  BY PrefixReflexive DEF IsParentOfOrIsSelf
<1>2. /\ Relocated(src, src, dst) \in Seq(Segment)
      /\ Len(Relocated(src, src, dst)) = Len(dst) + (Len(src) - Len(src))
      /\ \A i \in 1 .. Len(dst) : Relocated(src, src, dst)[i] = dst[i]
  BY <1>1, RelocatedFacts
<1>3. Len(Relocated(src, src, dst)) = Len(dst)
  BY <1>1, <1>2
<1>4. QED
  BY <1>2, <1>3, SameSequence

\* Moving back.
LEMMA RelocatedBack ==
    ASSUME NEW p \in Seq(Segment), NEW src \in Seq(Segment), NEW dst \in Seq(Segment), IsPrefix(src, p)
    PROVE  Relocated(Relocated(p, src, dst), dst, src) = p
<1> DEFINE m == Relocated(p, src, dst)
           b == Relocated(m, dst, src)
<1>1. /\ m \in Seq(Segment) /\ Len(m) = Len(dst) + (Len(p) - Len(src))
      /\ \A i \in 1 .. Len(p) - Len(src) : m[Len(dst) + i] = p[Len(src) + i]
      /\ IsPrefix(dst, m)
  BY RelocatedFacts
<1>2. /\ b \in Seq(Segment) /\ Len(b) = Len(src) + (Len(m) - Len(dst))
      /\ \A i \in 1 .. Len(src) : b[i] = src[i]
      /\ \A i \in 1 .. Len(m) - Len(dst) : b[Len(src) + i] = m[Len(dst) + i]
  <2> HIDE DEF m
  <2>1. QED
    BY <1>1, RelocatedFacts
<1>3. /\ Len(src) <= Len(p) /\ Len(src) \in Nat /\ Len(p) \in Nat /\ Len(dst) \in Nat
      /\ \A i \in 1 .. Len(src) : src[i] = p[i]
  BY PrefixBySegment
<1> HIDE DEF m, b
<1>4. Len(b) = Len(p) /\ Len(m) - Len(dst) = Len(p) - Len(src)
  BY <1>1, <1>2, <1>3
<1>5. ASSUME NEW i \in 1 .. Len(p)
      PROVE  b[i] = p[i]
  <2>1. CASE i <= Len(src)
    BY <1>2, <1>3, <2>1
  <2>2. CASE i > Len(src)
    <3> DEFINE j == i - Len(src)
    <3>1. j \in 1 .. Len(p) - Len(src) /\ Len(src) + j = i
      BY <1>3, <2>2
    <3> HIDE DEF j
    <3>2. b[Len(src) + j] = m[Len(dst) + j] /\ m[Len(dst) + j] = p[Len(src) + j]
      BY <1>1, <1>2, <1>4, <3>1
    <3>3. QED
      BY <3>1, <3>2
  <2>3. QED
    BY <1>3, <2>1, <2>2
<1>6. b = p
  BY <1>2, <1>4, <1>5, SameSequence
<1>7. QED
  BY <1>6 DEF b, m

\* The ancestors of a moved path are the moved ancestors.
LEMMA RelocatedFirst ==
    ASSUME NEW p \in Seq(Segment), NEW src \in Seq(Segment), NEW dst \in Seq(Segment), IsPrefix(src, p),
           NEW k \in Len(dst) .. Len(Relocated(p, src, dst))
    PROVE  LET j == k - Len(dst) + Len(src)
           IN  /\ j \in Len(src) .. Len(p) /\ IsPrefix(src, SubSeq(p, 1, j))
               /\ SubSeq(Relocated(p, src, dst), 1, k) = Relocated(SubSeq(p, 1, j), src, dst)
               /\ k < Len(Relocated(p, src, dst)) => /\ j < Len(p)
                                                 /\ Relocated(p, src, dst)[k + 1] = p[j + 1]
<1> DEFINE m == Relocated(p, src, dst)
           j == k - Len(dst) + Len(src)
           a == SubSeq(p, 1, j)
<1>1. /\ m \in Seq(Segment) /\ Len(m) = Len(dst) + (Len(p) - Len(src))
      /\ \A i \in 1 .. Len(dst) : m[i] = dst[i]
      /\ \A i \in 1 .. Len(p) - Len(src) : m[Len(dst) + i] = p[Len(src) + i]
  BY RelocatedFacts
<1>2. /\ Len(src) <= Len(p) /\ Len(src) \in Nat /\ Len(p) \in Nat /\ Len(dst) \in Nat
      /\ \A i \in 1 .. Len(src) : src[i] = p[i]
  BY PrefixBySegment
<1>3. k \in Len(dst) .. Len(m)
  OBVIOUS
<1> HIDE DEF m
<1>4. j \in Len(src) .. Len(p) /\ j \in 0 .. Len(p) /\ k \in 0 .. Len(m)
  BY <1>1, <1>2, <1>3
<1> HIDE DEF j
<1>5. a \in Seq(Segment) /\ Len(a) = j /\ \A i \in 1 .. j : a[i] = p[i]
  BY <1>4, FirstSegments
<1> HIDE DEF a
<1>6. IsPrefix(src, a)
  BY <1>2, <1>4, <1>5, PrefixBySegment
<1>7. /\ Relocated(a, src, dst) \in Seq(Segment) /\ Len(Relocated(a, src, dst)) = k
      /\ \A i \in 1 .. Len(dst) : Relocated(a, src, dst)[i] = dst[i]
      /\ \A i \in 1 .. j - Len(src) : Relocated(a, src, dst)[Len(dst) + i] = a[Len(src) + i]
  <2>1. Len(dst) + (j - Len(src)) = k
    BY <1>2, <1>3 DEF j
  <2>2. QED
    BY <1>5, <1>6, <2>1, RelocatedFacts, ZenonT(30)
<1>8. SubSeq(m, 1, k) \in Seq(Segment) /\ Len(SubSeq(m, 1, k)) = k /\ \A i \in 1 .. k : SubSeq(m, 1, k)[i] = m[i]
  BY <1>1, <1>4, FirstSegments
<1>9. ASSUME NEW i \in 1 .. k
      PROVE  SubSeq(m, 1, k)[i] = Relocated(a, src, dst)[i]
  <2>1. CASE i <= Len(dst)
    BY <1>1, <1>2, <1>7, <1>8, <2>1
  <2>2. CASE i > Len(dst)
    <3> DEFINE n == i - Len(dst)
    <3>1. /\ n \in 1 .. j - Len(src) /\ n \in 1 .. Len(p) - Len(src)
          /\ Len(dst) + n = i /\ Len(src) + n \in 1 .. j
      BY <1>2, <1>3, <1>4, <2>2 DEF j
    <3> HIDE DEF n
    <3>2. QED
      BY <1>1, <1>5, <1>7, <1>8, <3>1
  <2>3. QED
    BY <1>2, <2>1, <2>2
<1>10. SubSeq(m, 1, k) = Relocated(a, src, dst)
  BY <1>7, <1>8, <1>9, SameSequence
<1>11. ASSUME k < Len(m)
       PROVE  j < Len(p) /\ m[k + 1] = p[j + 1]
  <2> DEFINE n == k + 1 - Len(dst)
  <2>1. /\ j < Len(p) /\ n \in 1 .. Len(p) - Len(src)
        /\ Len(dst) + n = k + 1 /\ Len(src) + n = j + 1
    BY <1>1, <1>2, <1>3, <1>11 DEF j
  <2> HIDE DEF n
  <2>2. m[Len(dst) + n] = p[Len(src) + n]
    BY <1>1, <2>1
  <2>3. QED
    BY <2>1, <2>2
<1>12. QED
  BY <1>4, <1>6, <1>10, <1>11 DEF m, a, j

-----------------------------------------------------------------------------
(* Finite sets *)

\* The image of a finite set is finite.
LEMMA ImageIsFinite ==
    ASSUME NEW S, IsFiniteSet(S), NEW f, DOMAIN f = S, f = [x \in S |-> f[x]]
    PROVE  IsFiniteSet({f[x] : x \in S})
<1> DEFINE T == {f[x] : x \in S}
<1>1. f \in [S -> T] /\ \A t \in T : \E x \in S : f[x] = t
  OBVIOUS
<1> HIDE DEF T
<1>2. f \in Surjection(S, T)
  BY <1>1 DEF Surjection
<1>3. IsFiniteSet(T)
  BY <1>2, FS_Surjection
<1>4. QED
  BY <1>3 DEF T

\* Of the things numbered from 1, there is a first that is not in a finite set.
LEMMA FirstFree ==
    ASSUME NEW H, IsFiniteSet(H), NEW x
    PROVE  LET k == CHOOSE k \in 1 .. Cardinality(H) + 1 :
                      <<x, k>> \notin H /\ \A j \in 1 .. k - 1 : <<x, j>> \in H
           IN  k \in Nat \ {0} /\ <<x, k>> \notin H
<1> DEFINE N == Cardinality(H)
           free(k) == <<x, k>> \notin H
<1>1. N \in Nat
  BY FS_CardinalityType
<1> HIDE DEF N
<1>2. \E k \in 1 .. N + 1 : free(k)
  <2> SUFFICES ASSUME \A k \in 1 .. N + 1 : <<x, k>> \in H
               PROVE  FALSE
    OBVIOUS
  <2> DEFINE f == [k \in 1 .. N + 1 |-> <<x, k>>]
             S == 1 .. N + 1
  <2>1. 1 \in Int /\ N + 1 \in Int /\ ~(1 > N + 1) /\ N + 1 - 1 + 1 = N + 1
    BY <1>1
  <2>2. IsFiniteSet(S) /\ Cardinality(S) = N + 1
    <3>1. IsFiniteSet(1 .. N + 1) /\ Cardinality(1 .. N + 1) = N + 1 - 1 + 1
      BY <2>1, FS_Interval
    <3>2. QED
      BY <2>1, <3>1
  <2>3. f \in [S -> H]
    OBVIOUS
  <2> HIDE DEF S, f
  <2>4. Cardinality(H) < Cardinality(S) /\ IsFiniteSet(H)
    BY <1>1, <2>2 DEF N
  <2>5. \E i, j \in S : i # j /\ f[i] = f[j]
    BY <2>2, <2>3, <2>4, FS_PigeonHole
  <2>6. QED
    BY <2>5 DEF f, S
<1> DEFINE F == {k \in 1 .. N + 1 : free(k)}
<1>3. F \in SUBSET Nat /\ F # {}
  BY <1>1, <1>2
<1>4. PICK i \in F : \A j \in F : i <= j
  <2> HIDE DEF F
  <2>1. QED
    BY <1>3, Smallest
<1>5. i \in 1 .. N + 1 /\ free(i) /\ \A j \in 1 .. i - 1 : ~free(j)
  <2>1. i \in 1 .. N + 1 /\ free(i) /\ \A j \in 1 .. N + 1 : free(j) => i <= j
    BY <1>4
  <2> HIDE DEF free
  <2>2. QED
    BY <1>1, <2>1
<1> DEFINE least == CHOOSE k \in 1 .. Cardinality(H) + 1 :
                      <<x, k>> \notin H /\ \A j \in 1 .. k - 1 : <<x, j>> \in H
<1>6. least \in 1 .. N + 1 /\ free(least)
  <2>1. \E k \in 1 .. Cardinality(H) + 1 : <<x, k>> \notin H /\ \A j \in 1 .. k - 1 : <<x, j>> \in H
    BY <1>5 DEF N
  <2>2. least \in 1 .. Cardinality(H) + 1 /\ <<x, least>> \notin H
    BY <2>1
  <2>3. QED
    BY <2>2 DEF N
<1> HIDE DEF least
<1>7. least \in Nat \ {0}
  BY <1>1, <1>6
<1>8. QED
  BY <1>6, <1>7 DEF least
=============================================================================
