------------------------------ MODULE DAVPaths ------------------------------
(***************************************************************************)
(* The path algebra of asgi_webdav (class DAVPath of constants.py).  A     *)
(* DAVPath is its list of segments; the textual comparisons of the code    *)
(* ("raw starts with the parent's raw, and what follows starts with '/'")  *)
(* compare whole segments, so they are prefix tests on the segment lists.  *)
(***************************************************************************)
EXTENDS SequencesExt

CONSTANTS
    Segment,  \* names of path segments
    Path      \* the paths requests may name

ASSUME PathAssumption == Path \subseteq Seq(Segment)

\* DAVPath.is_parent_of: a strict ancestor.
IsParentOf(path, other) == IsStrictPrefix(path, other)

\* DAVPath.is_parent_of_or_is_self.
IsParentOfOrIsSelf(path, other) == IsPrefix(path, other)

\* DAVPath.get_child: the path below the parent; its caller has checked the prefix.
GetChild(path, parent) == SubSeq(path, Len(parent) + 1, Len(path))

\* DAVPath.add_child.
AddChild(path, child) == path \o child

\* DAVPath.parent
Parent(path) == SubSeq(path, 1, Len(path) - 1)

\* DAVPath.name
Name(path) == path[Len(path)]
=============================================================================
