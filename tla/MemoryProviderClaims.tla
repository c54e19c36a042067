------------------------- MODULE MemoryProviderClaims -------------------------
(***************************************************************************)
(* What the texts above the handlers of provider/common.py say of locks,   *)
(* against the memory provider.  It does not hold.                         *)
(***************************************************************************)
EXTENDS MemoryProvider

\* common.py:976, 1057: a COPY or MOVE of a locked resource is answered 423, also when
\* it had to wait for another request.
TransferRespectsLocks ==
    [][fs' # fs /\ served'.request.method \in {"COPY", "MOVE"}
         => LocksAgainst(served'.request) = {}]_provVars
=============================================================================
