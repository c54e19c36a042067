----------------------------- MODULE MemoryClaims -----------------------------
(***************************************************************************)
(* What a text above the handlers of provider/common.py says of MOVE,      *)
(* against the memory provider.  It does not hold.                         *)
(***************************************************************************)
EXTENDS MemoryTree

\* common.py:1028: a successful MOVE of a collection moves what is in it.
MoveIsWhole ==
    [][Succeeded("MOVE") /\ ~Related(last'.path, last'.dst) =>
         \A p \in Below(last'.path) : HasNode(fs', Moved(p, last'.path, last'.dst))]_treeVars
=============================================================================
