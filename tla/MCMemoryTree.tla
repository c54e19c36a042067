----------------------------- MODULE MCMemoryTree -----------------------------
(* Small instances of MemoryTree: two folders next to each other, each with a  *)
(* chain of three levels.                                                      *)
EXTENDS MemoryTree

CONSTANTS a, b

MCSegment == {a, b}
MCPath == {<<a>>, <<b>>, <<a, a>>, <<b, a>>, <<a, a, a>>, <<b, a, a>>}

(* The last request does not matter to what comes next, nor do the names of the *)
(* property objects: only what is in them, and which nodes share one.           *)
TreeView ==
    [p \in DOMAIN fs.data |->
        LET node == fs.data[p]
        IN  <<node.is_file, node.content, node.children,
              IF node.props \in DOMAIN fs.props THEN fs.props[node.props] ELSE "freed",
              {q \in DOMAIN fs.data : fs.data[q].props = node.props}>>]
=============================================================================
