---------------------------- MODULE MCMemoryClaims ----------------------------
(* The instance of MCMemoryTree, for the claims. *)
EXTENDS MemoryClaims

CONSTANTS a, b

MCSegment == {a, b}
MCPath == {<<a>>, <<b>>, <<a, a>>, <<b, a>>, <<a, a, a>>, <<b, a, a>>}
=============================================================================
