------------------------------ MODULE DAVLocking ------------------------------
(***************************************************************************)
(* LOCK and UNLOCK (do_lock, do_unlock of provider/common.py) over the     *)
(* lock table, next to the lookups every other request makes in it.        *)
(*                                                                         *)
(* A handler is a coroutine: what it read with one method of the keeper it *)
(* uses in the next one.  `call` is the handler that has the event loop    *)
(* and what it holds in its local variables.  No handler here suspends     *)
(* between its calls, so no other one runs in between (NoneRunning), but   *)
(* time passes, and a lock read as unexpired may be past its expiry when   *)
(* it is used.                                                             *)
(***************************************************************************)
EXTENDS DAVLockKeeper

CONSTANTS
    TimeoutHeader,  \* Timeout headers of requests: [type, value]
    NoToken,        \* the request names no lock token
    BadToken,       \* the request names a token that is not a UUID
    MaxTime         \* bound on the clock

ASSUME HandlerAssumption ==
    /\ \A h \in TimeoutHeader : h.type \in STRING /\ h.value \in Int
    /\ NoToken \notin Token
    /\ BadToken \notin Token
    /\ MaxTime \in Nat

VARIABLES
    read_only,  \* DAVProvider.read_only
    call,       \* the running handler: where it is and its local variables
    reply       \* the last response: [status, token]

vars == <<now, token2lock_obj, path2lock_obj_set, issued, read_only, call, reply>>

Idle == [at |-> "idle"]

\* What a handler holds between two calls of the keeper.
Call ==
    {Idle}
    \union [at : {"new"}, path : Path, depth : Depth, scope : Scope, timeout : Int,
            covering : SUBSET Token]
    \union [at : {"refresh"}, token : Token, timeout : Int]
    \union [at : {"release"}, token : Token]

Status == {200, 201, 204, 400, 401, 403, 412, 423, 500}
Reply == [status : Status, token : Token \union {NoToken}]

Respond(status, token) == reply' = [status |-> status, token |-> token]

\* Mutant: a handler suspends between its calls of the keeper.
AnotherRuns == TRUE

\* The event loop is with none of the handlers below.
NoneRunning == call = Idle

\* _parse_header_timeout: seven characters are cut off before the value is read,
\* so that "Infinite" (the header's own name for it) is not understood.
ParseHeaderTimeout(header) ==
    CASE header.type = "Second-Infinite" -> TimeoutMaxValue
      [] header.type = "Second" -> header.value
      [] OTHER -> 0

-----------------------------------------------------------------------------
Init ==
    /\ InitKeeper
    /\ now = 0
    /\ read_only \in BOOLEAN
    /\ call = Idle
    /\ reply = [status |-> 200, token |-> NoToken]

\* do_lock: the refusals that touch no lock.
DoLockRefused(token, body, depth) ==
    /\ NoneRunning
    /\ \/ read_only /\ Respond(401, NoToken)
       \/ ~read_only /\ token = BadToken /\ Respond(412, NoToken)
       \/ /\ ~read_only
          /\ token = NoToken
          /\ ~body \/ depth \notin Depth
          /\ Respond(412, NoToken)
       \* NotImplementedError: a condition of the If header is no lock token.
       \/ ~read_only /\ token = NoToken /\ Respond(500, NoToken)
    /\ UNCHANGED <<now, keeperVars, read_only, call>>

\* do_lock for a new lock: list the locks that cover the path.
DoLock(path, depth, scope, header) ==
    /\ NoneRunning
    /\ ~read_only
    /\ issued # Token                 \* bound: as many grants as there are tokens
    /\ GetLockObjsFromPath(path)
    /\ call' = [at |-> "new", path |-> path, depth |-> depth, scope |-> scope,
                timeout |-> ParseHeaderTimeout(header), covering |-> LockObjsFromPath(path)]
    /\ UNCHANGED <<now, read_only, reply>>

\* ... then ask the keeper for the lock: with that list, or, when it was empty,
\* without one, and the keeper looks again.
DoLockNew(token) ==
    /\ call.at = "new"
    /\ LET again    == call.covering = {}
           covering == IF again THEN LockObjsFromPath(call.path) ELSE call.covering
           purged   == IF again THEN ExpiredFrom(call.path) ELSE {}
       IN  /\ New(token, call.path, call.depth, call.scope, call.timeout, covering, purged)
           /\ IF CanLock(call.path, call.depth, call.scope, covering)
              THEN Respond(IF again THEN 201 ELSE 200, token)
              ELSE Respond(423, NoToken)
    /\ call' = Idle
    /\ UNCHANGED <<now, read_only>>

\* do_lock with a token in its If header: read the lock to refresh.
DoLockRefresh(token, path, header) ==
    /\ NoneRunning
    /\ ~read_only
    /\ Get(token)
    /\ \/ /\ ~Found(token)
          /\ Respond(412, NoToken)
          /\ UNCHANGED call
       \/ /\ Found(token)
          /\ ~IsLockingPath(token, path)
          /\ Respond(423, NoToken)
          /\ UNCHANGED call
       \/ /\ Found(token)
          /\ IsLockingPath(token, path)
          /\ call' = [at |-> "refresh", token |-> token,
                      timeout |-> ParseHeaderTimeout(header)]
          /\ UNCHANGED reply
    /\ UNCHANGED <<now, read_only>>

\* ... then restart its timeout.
DoLockRefreshed ==
    /\ call.at = "refresh"
    /\ Refresh(call.token, call.timeout)
    /\ Respond(200, call.token)
    /\ call' = Idle
    /\ UNCHANGED <<now, read_only>>

\* Mutant: UNLOCK without a token answers 404.
DoUnlockNotFound(token) ==
    /\ NoneRunning
    /\ \/ read_only /\ Respond(401, NoToken)
       \/ ~read_only /\ token \in {NoToken, BadToken} /\ Respond(404, NoToken)
    /\ UNCHANGED <<now, keeperVars, read_only, call>>

\* do_unlock: the refusals that touch no lock.
DoUnlockRefused(token) ==
    /\ NoneRunning
    /\ \/ read_only /\ Respond(401, NoToken)
       \/ ~read_only /\ token \in {NoToken, BadToken} /\ Respond(400, NoToken)
    /\ UNCHANGED <<now, keeperVars, read_only, call>>

\* do_unlock: the token must name a live lock rooted at the request's path.
DoUnlock(token, path) ==
    /\ NoneRunning
    /\ ~read_only
    /\ Get(token)
    /\ \/ /\ ~(Found(token) /\ token2lock_obj[token].path = path)
          /\ Respond(403, NoToken)
          /\ UNCHANGED call
       \/ /\ Found(token)
          /\ token2lock_obj[token].path = path
          /\ call' = [at |-> "release", token |-> token]
          /\ UNCHANGED reply
    /\ UNCHANGED <<now, read_only>>

\* ... then it is released.
DoUnlockRelease ==
    /\ call.at = "release"
    /\ Release(call.token)
    /\ Respond(IF call.token \in DOMAIN token2lock_obj /\ Releasable(call.token)
               THEN 204 ELSE 400, NoToken)
    /\ call' = Idle
    /\ UNCHANGED <<now, read_only>>

\* The lookups of the other requests: PROPFIND's lock discovery, DELETE's has_lock,
\* the covering locks and the tokens of an If header.  Each may purge.
LookUpPath(path) ==
    /\ NoneRunning
    /\ GetLockObjsFromPath(path)
    /\ UNCHANGED <<now, read_only, call, reply>>

LookUpToken(token, path) ==
    /\ NoneRunning
    /\ CheckLockToken(token, path)
    /\ UNCHANGED <<now, read_only, call, reply>>

\* Wall-clock time passes, also while a handler runs.
Tick ==
    /\ now < MaxTime
    /\ now' = now + 1
    /\ UNCHANGED <<keeperVars, read_only, call, reply>>

LockRequest ==
    \/ \E token \in {NoToken, BadToken}, body \in BOOLEAN, depth \in Depth \union {"ONE"} :
           DoLockRefused(token, body, depth)
    \/ \E path \in Path, depth \in Depth, scope \in Scope, header \in TimeoutHeader :
           DoLock(path, depth, scope, header)
    \/ \E token \in Token : DoLockNew(token)
    \/ \E token \in Token, path \in Path, header \in TimeoutHeader :
           DoLockRefresh(token, path, header)
    \/ DoLockRefreshed

UnlockRequest ==
    \/ \E token \in {NoToken, BadToken} : DoUnlockRefused(token)
    \/ \E token \in Token, path \in Path : DoUnlock(token, path)
    \/ DoUnlockRelease

LookUp ==
    \/ \E path \in Path : LookUpPath(path)
    \/ \E token \in Token, path \in Path : LookUpToken(token, path)

Next == LockRequest \/ UnlockRequest \/ LookUp \/ Tick

Spec == Init /\ [][Next]_vars
-----------------------------------------------------------------------------
TypeOK ==
    /\ KeeperTypeOK
    /\ read_only \in BOOLEAN
    /\ call \in Call
    /\ reply \in Reply

\* What a handler read before its second call of the keeper still stands when it
\* makes it: the lock to refresh or release is in the table, and the list of
\* covering locks is the whole of what covers the path.
WhatIsHeldStands ==
    /\ call.at \in {"refresh", "release"} => call.token \in DOMAIN token2lock_obj
    /\ call.at = "new" =>
         call.covering = {t \in DOMAIN token2lock_obj : IsLockingPath(t, call.path)}

LiveLocksStay ==
    \A t \in DOMAIN token2lock_obj :
        ~IsExpired(t) /\ t \notin DOMAIN token2lock_obj'
            => call.at = "release" /\ call.token = t

\* A lock leaves the table before its expiry only through an UNLOCK that names its
\* token: no lookup, purge, refresh or other client's request takes it away.
OnlyUnlockEndsLiveLock ==
    [][LiveLocksStay]_vars
=============================================================================
