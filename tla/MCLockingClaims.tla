-------------------------- MODULE MCLockingClaims --------------------------
(* Small instances of DAVLockingClaims. *)
EXTENDS DAVLockingClaims

MCSegment == {"a", "b"}
MCPath == {<<"a">>, <<"a", "b">>}
MCSeconds == {[type |-> "Second", value |-> 1]}
=============================================================================
