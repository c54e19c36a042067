------------------------------ MODULE MCLocking ------------------------------
(* Small instances of DAVLocking and of its refinement: a collection with two *)
(* members, and a timeout that is useless next to one that is the maximum.    *)
EXTENDS DAVLockingRefines

CONSTANTS a, b, c

MCSegment == {a, b, c}
MCPath == {<<a>>, <<a, b>>, <<a, c>>}
MCTimeoutHeader == {[type |-> "Infinite", value |-> 0], [type |-> "Second", value |-> 2]}

\* Neither the tokens nor the two members differ but in name.
LockSymmetry == {p @@ q : p \in Permutations(Token), q \in Permutations({b, c})}
=============================================================================
