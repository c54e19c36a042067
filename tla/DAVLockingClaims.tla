-------------------------- MODULE DAVLockingClaims --------------------------
(***************************************************************************)
(* What a comment of the repository says of its locks and the code does    *)
(* not do.                                                                 *)
(***************************************************************************)
EXTENDS DAVLocking

\* request.py:310-313: a timeout is the time "between granting of the lock at the
\* server, and the automatic removal of the lock".  So a path that no lock covers
\* can be locked again once every lock below it is past its expiry.
RefusedByALiveLock ==
    [][call.at = "new" /\ call.covering = {} /\ call' = Idle /\ reply'.status = 423
          => \E t \in DOMAIN token2lock_obj : ~IsExpired(t)]_vars
=============================================================================
