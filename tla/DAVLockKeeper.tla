---------------------------- MODULE DAVLockKeeper ----------------------------
(***************************************************************************)
(* The lock table of a provider (class DAVLockKeeper of lock.py).          *)
(*                                                                         *)
(* The keeper has two indexes over the same mutable lock objects: by token *)
(* and by path.  Objects are equal when their tokens are, so the sets kept *)
(* by path are sets of tokens here, and the object a token names is the    *)
(* one the first index holds.  Every method runs between two suspensions   *)
(* of the event loop (its critical section contains no await and its       *)
(* asyncio.Lock is never contended), hence is one action; the clock is     *)
(* free to advance between two methods of one handler.                     *)
(*                                                                         *)
(* The module gives each method as an action on the table; who calls them, *)
(* and in which order, is the business of DAVLocking.                      *)
(***************************************************************************)
EXTENDS DAVPaths, Integers

CONSTANTS
    Token,          \* the UUIDs that uuid4() may draw
    TimeoutMaxValue \* DAVLockTimeoutMaxValue

ASSUME TimeoutAssumption == TimeoutMaxValue \in Nat \ {0}

VARIABLES
    now,               \* time(), in whole seconds
    token2lock_obj,    \* _token2lock_obj: token -> lock object
    path2lock_obj_set, \* _path2lock_obj_set: path -> [lock_scope, data]
    issued             \* the tokens uuid4() has drawn so far

keeperVars == <<token2lock_obj, path2lock_obj_set, issued>>

Depth == {"ZERO", "INFINITY"}
Scope == {"EXCLUSIVE", "SHARED"}

LockObj == [path : Path, depth : Depth, scope : Scope, timeout : Int, expire : Int]
LockObjSet == [lock_scope : Scope, data : SUBSET Token]

-----------------------------------------------------------------------------
(* Lock objects *)

\* Mutant: a lock lives on in the very second it expires.
IsExpiredLate(token) == token2lock_obj[token].expire < now

\* DAVLockObj.is_expired
IsExpired(token) == token2lock_obj[token].expire <= now

\* DAVLockObj.is_locking_path
Covers(lock, path) ==
    \/ lock.depth = "ZERO" /\ lock.path = path
    \/ lock.depth = "INFINITY" /\ IsParentOfOrIsSelf(lock.path, path)

IsLockingPath(token, path) == Covers(token2lock_obj[token], path)

NewLockObj(path, depth, scope, timeout) ==
    [path |-> path, depth |-> depth, scope |-> scope,
     timeout |-> timeout, expire |-> now + timeout]

-----------------------------------------------------------------------------
(* What the methods look up *)

\* Entries filed under a path that is `path` itself or an ancestor of it.
EntriesFrom(path) ==
    UNION {path2lock_obj_set[p].data :
             p \in {q \in DOMAIN path2lock_obj_set : IsParentOfOrIsSelf(q, path)}}

\* Mutant: the entries that do not cover the path are purged with the expired ones.
NotCoveringFrom(path) == {t \in EntriesFrom(path) : IsExpired(t) \/ ~IsLockingPath(t, path)}

\* What _get_lock_objs_from_path purges: expired entries, covering or not.
ExpiredFrom(path) == {t \in EntriesFrom(path) : IsExpired(t)}

\* What _get_lock_objs_from_path returns.
LockObjsFromPath(path) ==
    {t \in EntriesFrom(path) : ~IsExpired(t) /\ IsLockingPath(t, path)}

\* _get_lock_objs_of_child_path_from_path: expired entries are not left out.
LockObjsOfChildPath(path) ==
    {t \in UNION {path2lock_obj_set[p].data : p \in DOMAIN path2lock_obj_set} :
        IsParentOf(path, token2lock_obj[t].path)}

-----------------------------------------------------------------------------
(* How the table changes *)

\* dict[key] = value
SetItem(dict, key, value) ==
    [k \in DOMAIN dict \union {key} |-> IF k = key THEN value ELSE dict[k]]

\* The condition under which _release finds the lock in the index by path.
Releasable(token) ==
    LET path == token2lock_obj[token].path
    IN  path \in DOMAIN path2lock_obj_set /\ token \in path2lock_obj_set[path].data

\* _release on each of a set of tokens, empty sets leaving the index by path.
WithoutTokens(objs, tokens) == Restrict(objs, DOMAIN objs \ tokens)

\* Mutant: a path keeps its set when the last lock has left it.
WithEmptySets(sets, tokens) ==
    [p \in DOMAIN sets |->
        [lock_scope |-> sets[p].lock_scope, data |-> sets[p].data \ tokens]]

WithoutEntries(sets, tokens) ==
    LET left(p) == sets[p].data \ tokens
    IN  [p \in {q \in DOMAIN sets : left(q) # {}} |->
            [lock_scope |-> sets[p].lock_scope, data |-> left(p)]]

Drop(tokens) ==
    LET gone == {t \in tokens : Releasable(t)}
    IN  /\ token2lock_obj' = WithoutTokens(token2lock_obj, gone)
        /\ path2lock_obj_set' = WithoutEntries(path2lock_obj_set, gone)
        /\ UNCHANGED issued

\* _new_just_do_it: the scope of an existing set is left as it is.
WithEntry(sets, path, scope, token) ==
    IF path \in DOMAIN sets
    THEN [sets EXCEPT ![path].data = @ \union {token}]
    ELSE SetItem(sets, path, [lock_scope |-> scope, data |-> {token}])

\* Mutant: only the scopes of the locks found are looked at.
FoundAreShared(scope, tokens) == \A t \in tokens : token2lock_obj[t].scope = "SHARED"

\* The rule of _new for one list of locks: none, or shared with shared only.
CompatibleWith(scope, tokens) ==
    \/ tokens = {}
    \/ scope = "SHARED" /\ \A t \in tokens : token2lock_obj[t].scope = "SHARED"

\* Mutant: the locks below the path are not looked at.
CanLockHere(path, depth, scope, covering) == CompatibleWith(scope, covering)

\* _new, given the locks found to cover the path.
CanLock(path, depth, scope, covering) ==
    /\ CompatibleWith(scope, covering)
    /\ depth = "INFINITY" => CompatibleWith(scope, LockObjsOfChildPath(path))

-----------------------------------------------------------------------------
(* The methods *)

InitKeeper ==
    /\ token2lock_obj = <<>>
    /\ path2lock_obj_set = <<>>
    /\ issued = {}

\* get: TRUE in `found` when the lock exists and is unexpired; an expired one goes.
Found(token) == token \in DOMAIN token2lock_obj /\ ~IsExpired(token)

Get(token) == Drop({t \in {token} \intersect DOMAIN token2lock_obj : IsExpired(t)})

\* new without a list: look the covering locks up, purging; add when compatible.
New(token, path, depth, scope, timeout, covering, purged) ==
    IF CanLock(path, depth, scope, covering)
    THEN /\ token \notin issued
         /\ issued' = issued \union {token}
         /\ token2lock_obj' =
                SetItem(WithoutTokens(token2lock_obj, purged), token,
                        NewLockObj(path, depth, scope, timeout))
         /\ path2lock_obj_set' =
                WithEntry(WithoutEntries(path2lock_obj_set, purged), path, scope, token)
    ELSE Drop(purged)

\* Mutant: any timeout is taken.
RefreshUnchecked(token, timeout) ==
    /\ token2lock_obj' =
           [token2lock_obj EXCEPT ![token].timeout = timeout, ![token].expire = now + timeout]
    /\ UNCHANGED <<path2lock_obj_set, issued>>

\* refresh: a timeout outside 1 .. max keeps the old one; expiry restarts anyway.
Refresh(token, timeout) ==
    LET kept == token2lock_obj[token].timeout
        new  == IF 0 < timeout /\ timeout <= TimeoutMaxValue THEN timeout ELSE kept
    IN  /\ token2lock_obj' =
               [token2lock_obj EXCEPT ![token].timeout = new, ![token].expire = now + new]
        /\ UNCHANGED <<path2lock_obj_set, issued>>

\* release
Release(token) == Drop({token} \intersect DOMAIN token2lock_obj)

\* is_valid_lock_token: coverage is tested first, an expired covering lock goes.
IsValidLockToken(token, path) ==
    /\ Found(token)
    /\ IsLockingPath(token, path)

CheckLockToken(token, path) ==
    Drop({t \in {token} \intersect DOMAIN token2lock_obj :
            IsLockingPath(t, path) /\ IsExpired(t)})

\* get_lock_objs_from_path and has_lock
GetLockObjsFromPath(path) == Drop(ExpiredFrom(path))

-----------------------------------------------------------------------------
(* What holds of the table between two methods *)

KeeperTypeOK ==
    /\ now \in Nat
    /\ issued \subseteq Token
    /\ DOMAIN token2lock_obj \subseteq issued
    /\ token2lock_obj \in [DOMAIN token2lock_obj -> LockObj]
    /\ DOMAIN path2lock_obj_set \subseteq Path
    /\ path2lock_obj_set \in [DOMAIN path2lock_obj_set -> LockObjSet]

\* The two indexes of the keeper hold the same locks, each filed under its own
\* path, no path with an empty set: the `raise DAVCodingError` of lock.py:205 and
\* 240 and the 400 that ends do_unlock are unreachable.
IndexesAgree ==
    /\ \A t \in DOMAIN token2lock_obj : Releasable(t)
    /\ \A p \in DOMAIN path2lock_obj_set :
         /\ path2lock_obj_set[p].data # {}
         /\ \A t \in path2lock_obj_set[p].data :
              t \in DOMAIN token2lock_obj /\ token2lock_obj[t].path = p

\* The scope a DAVLockObjSet is created with is the scope of every lock added
\* to it later (DAVLockObjSet.add does not look).
ScopeOfSet ==
    \A p \in DOMAIN path2lock_obj_set : \A t \in path2lock_obj_set[p].data :
        token2lock_obj[t].scope = path2lock_obj_set[p].lock_scope

\* Two locks that cover a common path are both shared: the lock compatibility
\* table, for locks granted in any order at any depths, expired entries included
\* (so that a refresh cannot revive a lock next to an exclusive one).
LocksCompatible ==
    \A t, u \in DOMAIN token2lock_obj :
        t # u /\ (\E p \in Path : IsLockingPath(t, p) /\ IsLockingPath(u, p))
            => token2lock_obj[t].scope = "SHARED"
=============================================================================
