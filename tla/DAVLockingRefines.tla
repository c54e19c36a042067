-------------------------- MODULE DAVLockingRefines --------------------------
(***************************************************************************)
(* The handlers and the keeper implement LockService: a lock object is the *)
(* lock that covers the paths is_locking_path accepts; the index by path,  *)
(* the lists handlers hold and their replies are not seen by the service.  *)
(***************************************************************************)
EXTENDS DAVLocking

HeldLock(lock) ==
    [extent |-> {p \in Path : Covers(lock, p)}, scope |-> lock.scope, expire |-> lock.expire]

HeldLocks == [t \in DOMAIN token2lock_obj |-> HeldLock(token2lock_obj[t])]

Service == INSTANCE LockService WITH held <- HeldLocks, granted <- issued

\* Every request of DAVLocking is a grant, a refresh, a release, a purge of expired
\* locks or nothing at all, as LockService allows them.
ImplementsService == Service!Spec

\* A lock never outlives its timeout counted from now, and a handler that is about
\* to refresh a lock has one whose own timeout is positive: a refresh with a
\* useless Timeout header still leaves the lock live.
RefreshLeavesLive ==
    /\ \A t \in DOMAIN token2lock_obj :
         token2lock_obj[t].expire <= now + token2lock_obj[t].timeout
    /\ call.at = "refresh" => token2lock_obj[call.token].timeout > 0
=============================================================================
