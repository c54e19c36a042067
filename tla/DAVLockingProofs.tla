-------------------------- MODULE DAVLockingProofs --------------------------
(***************************************************************************)
(* The invariants of DAVLocking and that it implements LockService, for    *)
(* any paths, tokens and timeouts.                                         *)
(*                                                                         *)
(* None of them is inductive alone.  That two granted locks are compatible *)
(* needs the list a LOCK handler holds to be complete when it is used      *)
(* (WhatIsHeldStands), that list needs the index by path to miss no lock   *)
(* (IndexesAgree), and so on around; Inv is their conjunction.             *)
(***************************************************************************)
EXTENDS DAVLockingRefines, DAVPathsProofs

-----------------------------------------------------------------------------
(* What the methods of the lock table preserve, whatever handler calls them: *)
(* releasing any locks, granting one found compatible, refreshing.           *)

KeeperInv == KeeperTypeOK /\ IndexesAgree /\ ScopeOfSet /\ LocksCompatible

\* All the locks of the table that cover a path, expired or not.
Covering(path) == {t \in DOMAIN token2lock_obj : IsLockingPath(t, path)}

\* Exactly the locks T leave both indexes; the others stay as they are.
Leave(T) ==
    /\ DOMAIN token2lock_obj' = DOMAIN token2lock_obj \ T
    /\ \A t \in DOMAIN token2lock_obj \ T : token2lock_obj'[t] = token2lock_obj[t]
    /\ DOMAIN path2lock_obj_set' =
         {p \in DOMAIN path2lock_obj_set : path2lock_obj_set[p].data \ T # {}}
    /\ \A p \in DOMAIN path2lock_obj_set' :
         /\ path2lock_obj_set'[p].lock_scope = path2lock_obj_set[p].lock_scope
         /\ path2lock_obj_set'[p].data = path2lock_obj_set[p].data \ T

\* Releasing locks leaves the other locks, and their entries, as they were.
LEMMA DropEffect ==
    ASSUME KeeperInv, NEW T \in SUBSET DOMAIN token2lock_obj, Drop(T), now' = now
    PROVE  KeeperTypeOK' /\ Leave(T)
<1>1. {t \in T : Releasable(t)} = T
  BY DEF KeeperInv, IndexesAgree
<1>2. /\ token2lock_obj' = WithoutTokens(token2lock_obj, T)
      /\ path2lock_obj_set' = WithoutEntries(path2lock_obj_set, T)
      /\ issued' = issued
  BY <1>1 DEF Drop
<1>3. /\ DOMAIN token2lock_obj' = DOMAIN token2lock_obj \ T
      /\ \A t \in DOMAIN token2lock_obj \ T : token2lock_obj'[t] = token2lock_obj[t]
      /\ token2lock_obj' \in [DOMAIN token2lock_obj' -> LockObj]
  BY <1>2 DEF WithoutTokens, Restrict, KeeperInv, KeeperTypeOK
<1>4. /\ DOMAIN path2lock_obj_set' =
            {p \in DOMAIN path2lock_obj_set : path2lock_obj_set[p].data \ T # {}}
      /\ \A p \in DOMAIN path2lock_obj_set' :
           path2lock_obj_set'[p] = [lock_scope |-> path2lock_obj_set[p].lock_scope,
                                    data |-> path2lock_obj_set[p].data \ T]
  BY <1>2 DEF WithoutEntries
<1>5. path2lock_obj_set' \in [DOMAIN path2lock_obj_set' -> LockObjSet]
  <2>1. ASSUME NEW p \in DOMAIN path2lock_obj_set'
        PROVE  path2lock_obj_set'[p] \in LockObjSet
    <3>1. path2lock_obj_set[p] \in LockObjSet
      BY <1>4 DEF KeeperInv, KeeperTypeOK
    <3>2. /\ path2lock_obj_set[p].lock_scope \in Scope
          /\ path2lock_obj_set[p].data \ T \in SUBSET Token
      BY <3>1 DEF LockObjSet
    <3>3. path2lock_obj_set'[p] = [lock_scope |-> path2lock_obj_set[p].lock_scope,
                                   data |-> path2lock_obj_set[p].data \ T]
      BY <1>4
    <3>4. QED
      BY <3>2, <3>3 DEF LockObjSet
  <2>2. path2lock_obj_set' = [p \in DOMAIN path2lock_obj_set' |-> path2lock_obj_set'[p]]
    BY <1>2 DEF WithoutEntries
  <2>3. QED
    BY <2>1, <2>2
<1>6. KeeperTypeOK'
  BY <1>2, <1>3, <1>4, <1>5 DEF KeeperInv, KeeperTypeOK
<1>7. \A p \in DOMAIN path2lock_obj_set' :
         /\ path2lock_obj_set'[p].lock_scope = path2lock_obj_set[p].lock_scope
         /\ path2lock_obj_set'[p].data = path2lock_obj_set[p].data \ T
  <2>1. TAKE p \in DOMAIN path2lock_obj_set'
  <2>2. path2lock_obj_set'[p] = [lock_scope |-> path2lock_obj_set[p].lock_scope,
                                 data |-> path2lock_obj_set[p].data \ T]
    BY <1>4
  <2>3. QED
    BY ONLY <2>2
<1>8. QED
  BY <1>3, <1>4, <1>6, <1>7 DEF Leave

\* Releasing locks preserves what holds of the table.
LEMMA DropKeeps ==
    ASSUME KeeperInv, NEW T \in SUBSET DOMAIN token2lock_obj, Drop(T), now' = now
    PROVE  KeeperInv'
<1>1. KeeperTypeOK' /\ Leave(T)
  BY DropEffect
<1>2. IndexesAgree'
  BY <1>1 DEF Leave, KeeperInv, IndexesAgree, Releasable
<1>3. ScopeOfSet'
  BY <1>1 DEF Leave, KeeperInv, ScopeOfSet, IndexesAgree
<1>4. LocksCompatible'
  BY <1>1 DEF Leave, KeeperInv, LocksCompatible, IsLockingPath
<1>5. QED
  BY <1>1, <1>2, <1>3, <1>4 DEF KeeperInv

\* Refreshing a lock changes its timeout and expiry only.
LEMMA RefreshEffect ==
    ASSUME KeeperInv, NEW token \in DOMAIN token2lock_obj, NEW timeout \in Int,
           Refresh(token, timeout), now' = now
    PROVE  /\ KeeperTypeOK'
           /\ DOMAIN token2lock_obj' = DOMAIN token2lock_obj
           /\ \A t \in DOMAIN token2lock_obj :
                /\ token2lock_obj'[t].path = token2lock_obj[t].path
                /\ token2lock_obj'[t].depth = token2lock_obj[t].depth
                /\ token2lock_obj'[t].scope = token2lock_obj[t].scope
           /\ path2lock_obj_set' = path2lock_obj_set
<1> DEFINE kept == token2lock_obj[token].timeout
           new  == IF 0 < timeout /\ timeout <= TimeoutMaxValue THEN timeout ELSE kept
<1>1. /\ token2lock_obj' =
            [token2lock_obj EXCEPT ![token].timeout = new, ![token].expire = now + new]
      /\ path2lock_obj_set' = path2lock_obj_set
      /\ issued' = issued
  BY DEF Refresh
<1>2. \A t \in DOMAIN token2lock_obj : token2lock_obj[t] \in LockObj
  BY DEF KeeperInv, KeeperTypeOK
<1>3. new \in Int /\ now + new \in Int
  BY <1>2 DEF LockObj, KeeperInv, KeeperTypeOK
<1>4. token2lock_obj' \in [DOMAIN token2lock_obj -> LockObj]
  <2> HIDE DEF new
  <2>1. [token2lock_obj[token] EXCEPT !.timeout = new, !.expire = now + new] \in LockObj
    BY <1>2, <1>3 DEF LockObj
  <2>2. token2lock_obj' = [token2lock_obj EXCEPT ![token] =
            [token2lock_obj[token] EXCEPT !.timeout = new, !.expire = now + new]]
    BY <1>1
  <2>3. QED
    BY <2>1, <2>2 DEF KeeperInv, KeeperTypeOK
<1>5. KeeperTypeOK'
  BY <1>1, <1>4 DEF KeeperInv, KeeperTypeOK
<1>6. \A t \in DOMAIN token2lock_obj :
         /\ token2lock_obj'[t].path = token2lock_obj[t].path
         /\ token2lock_obj'[t].depth = token2lock_obj[t].depth
         /\ token2lock_obj'[t].scope = token2lock_obj[t].scope
  <2> HIDE DEF new
  <2>1. QED
    BY <1>1, <1>2 DEF LockObj
<1>7. QED
  BY <1>1, <1>4, <1>5, <1>6

\* Refreshing preserves what holds of the table.
LEMMA RefreshKeeps ==
    ASSUME KeeperInv, NEW token \in DOMAIN token2lock_obj, NEW timeout \in Int,
           Refresh(token, timeout), now' = now
    PROVE  KeeperInv'
<1>1. /\ KeeperTypeOK'
      /\ DOMAIN token2lock_obj' = DOMAIN token2lock_obj
      /\ \A t \in DOMAIN token2lock_obj :
           /\ token2lock_obj'[t].path = token2lock_obj[t].path
           /\ token2lock_obj'[t].depth = token2lock_obj[t].depth
           /\ token2lock_obj'[t].scope = token2lock_obj[t].scope
      /\ path2lock_obj_set' = path2lock_obj_set
  BY RefreshEffect
<1>2. IndexesAgree' /\ ScopeOfSet'
  BY <1>1 DEF KeeperInv, IndexesAgree, ScopeOfSet, Releasable
<1>3. LocksCompatible'
  BY <1>1 DEF KeeperInv, LocksCompatible, IsLockingPath, Covers
<1>4. QED
  BY <1>1, <1>2, <1>3 DEF KeeperInv

\* Two locks that cover a common path: one of them covers the other's root, or is
\* rooted strictly below it, the other being of infinite depth.
LEMMA OverlapIsFound ==
    ASSUME NEW p \in Path, NEW lock \in LockObj, NEW other \in LockObj,
           Covers(lock, p), Covers(other, p)
    PROVE  \/ Covers(other, lock.path)
           \/ lock.depth = "INFINITY" /\ IsParentOf(lock.path, other.path)
<1> USE PathAssumption
<1>1. p \in Seq(Segment) /\ lock.path \in Seq(Segment) /\ other.path \in Seq(Segment)
  BY DEF LockObj
<1>2. CASE lock.depth = "ZERO"
  BY <1>2 DEF Covers
<1>3. CASE other.depth = "ZERO" /\ lock.depth = "INFINITY"
  <2>1. IsParentOfOrIsSelf(lock.path, other.path)
    BY <1>3 DEF Covers
  <2>2. CASE lock.path = other.path
    BY <1>3, <2>2 DEF Covers
  <2>3. CASE lock.path # other.path
    BY <1>3, <2>1, <2>3 DEF IsParentOf, IsParentOfOrIsSelf, IsStrictPrefix
  <2>4. QED
    BY <2>2, <2>3
<1>4. CASE other.depth = "INFINITY" /\ lock.depth = "INFINITY"
  <2>1. IsParentOfOrIsSelf(lock.path, p) /\ IsParentOfOrIsSelf(other.path, p)
    BY <1>4 DEF Covers
  <2>2. IsParentOfOrIsSelf(other.path, lock.path) \/ IsParentOf(lock.path, other.path)
    BY <1>1, <2>1, AncestorsComparable
  <2>3. QED
    BY <1>4, <2>2 DEF Covers
<1>5. QED
  BY <1>2, <1>3, <1>4 DEF LockObj, Depth

\* What a successful grant leaves in the table: the purged locks are gone, the new
\* one is filed under its path, every other lock is as it was.
Granted(token, path, depth, scope, timeout, purged) ==
    /\ DOMAIN token2lock_obj' = (DOMAIN token2lock_obj \ purged) \union {token}
    /\ token2lock_obj'[token] = NewLockObj(path, depth, scope, timeout)
    /\ \A t \in DOMAIN token2lock_obj \ purged : token2lock_obj'[t] = token2lock_obj[t]
    /\ \A p \in DOMAIN path2lock_obj_set' \ {path} :
         /\ p \in DOMAIN path2lock_obj_set
         /\ path2lock_obj_set'[p].lock_scope = path2lock_obj_set[p].lock_scope
         /\ path2lock_obj_set'[p].data = path2lock_obj_set[p].data \ purged
         /\ path2lock_obj_set'[p].data # {}
    /\ \A p \in DOMAIN path2lock_obj_set :
         path2lock_obj_set[p].data \ purged # {} => p \in DOMAIN path2lock_obj_set'
    /\ path \in DOMAIN path2lock_obj_set'
    /\ path2lock_obj_set'[path].data =
         {token} \union
           (IF path \in DOMAIN path2lock_obj_set
            THEN path2lock_obj_set[path].data \ purged ELSE {})
    /\ path2lock_obj_set'[path].lock_scope =
         IF path \in DOMAIN path2lock_obj_set /\ path2lock_obj_set[path].data \ purged # {}
         THEN path2lock_obj_set[path].lock_scope ELSE scope

\* What granting a lock does to the two indexes, given that the locks purged on
\* the way are gone.
LEMMA NewEffect ==
    ASSUME KeeperInv,
           NEW token \in Token, NEW path \in Path, NEW depth \in Depth,
           NEW scope \in Scope, NEW timeout \in Int,
           NEW covering \in SUBSET DOMAIN token2lock_obj,
           NEW purged \in SUBSET DOMAIN token2lock_obj,
           CanLock(path, depth, scope, covering),
           New(token, path, depth, scope, timeout, covering, purged),
           now' = now
    PROVE  /\ KeeperTypeOK'
           /\ token \notin DOMAIN token2lock_obj
           /\ Granted(token, path, depth, scope, timeout, purged)
<1> DEFINE lock == NewLockObj(path, depth, scope, timeout)
           objs == WithoutTokens(token2lock_obj, purged)
           sets == WithoutEntries(path2lock_obj_set, purged)
<1>1. /\ token \notin issued
      /\ issued' = issued \union {token}
      /\ token2lock_obj' = SetItem(objs, token, lock)
      /\ path2lock_obj_set' = WithEntry(sets, path, scope, token)
  BY DEF New
<1>2. token \notin DOMAIN token2lock_obj
  BY <1>1 DEF KeeperInv, KeeperTypeOK
<1>3. lock \in LockObj
  BY DEF NewLockObj, LockObj, KeeperInv, KeeperTypeOK
<1>4. objs \in [DOMAIN token2lock_obj \ purged -> LockObj]
      /\ \A t \in DOMAIN token2lock_obj \ purged : objs[t] = token2lock_obj[t]
  BY DEF WithoutTokens, Restrict, KeeperInv, KeeperTypeOK
<1>5. /\ DOMAIN token2lock_obj' = (DOMAIN token2lock_obj \ purged) \union {token}
      /\ token2lock_obj'[token] = lock
      /\ \A t \in DOMAIN token2lock_obj \ purged : token2lock_obj'[t] = token2lock_obj[t]
      /\ token2lock_obj' \in [DOMAIN token2lock_obj' -> LockObj]
  <2> HIDE DEF lock, objs
  <2>1. token2lock_obj' = [t \in {token} \union (DOMAIN token2lock_obj \ purged) |->
                              IF t = token THEN lock ELSE objs[t]]
    BY <1>1, <1>4 DEF SetItem
  <2>2. QED
    BY <2>1, <1>2, <1>3, <1>4
<1>6. /\ DOMAIN sets = {p \in DOMAIN path2lock_obj_set :
                            path2lock_obj_set[p].data \ purged # {}}
      /\ \A p \in DOMAIN sets :
           /\ sets[p].lock_scope = path2lock_obj_set[p].lock_scope
           /\ sets[p].data = path2lock_obj_set[p].data \ purged
      /\ sets \in [DOMAIN sets -> LockObjSet]
  <2>1. sets = [p \in {q \in DOMAIN path2lock_obj_set :
                          path2lock_obj_set[q].data \ purged # {}} |->
                  [lock_scope |-> path2lock_obj_set[p].lock_scope,
                   data |-> path2lock_obj_set[p].data \ purged]]
    BY DEF WithoutEntries
  <2>2. DOMAIN sets = {p \in DOMAIN path2lock_obj_set :
                            path2lock_obj_set[p].data \ purged # {}}
    BY <2>1
  <2>3. ASSUME NEW p \in DOMAIN sets
        PROVE  /\ sets[p] \in LockObjSet
               /\ sets[p].lock_scope = path2lock_obj_set[p].lock_scope
               /\ sets[p].data = path2lock_obj_set[p].data \ purged
    <3>1. sets[p] = [lock_scope |-> path2lock_obj_set[p].lock_scope,
                     data |-> path2lock_obj_set[p].data \ purged]
      BY <2>1, <2>2
    <3>2. path2lock_obj_set[p] \in LockObjSet
      BY <2>2 DEF KeeperInv, KeeperTypeOK
    <3>3. /\ path2lock_obj_set[p].lock_scope \in Scope
          /\ path2lock_obj_set[p].data \ purged \in SUBSET Token
      BY <3>2 DEF LockObjSet
    <3>4. QED
      BY ONLY <3>1, <3>3 DEF LockObjSet
  <2>4. QED
    <3> HIDE DEF sets
    <3>1. sets = [p \in DOMAIN sets |-> sets[p]]
      BY <2>1
    <3>2. QED
      BY <2>2, <2>3, <3>1
<1> HIDE DEF lock, objs, sets
<1>7. CASE path \in DOMAIN sets
  <2>1. path2lock_obj_set' = [sets EXCEPT ![path].data = @ \union {token}]
    BY <1>1, <1>7 DEF WithEntry
  <2>2. sets[path] \in LockObjSet
    BY <1>6, <1>7
  <2>3. /\ DOMAIN path2lock_obj_set' = DOMAIN sets
        /\ path2lock_obj_set'[path].data = sets[path].data \union {token}
        /\ path2lock_obj_set'[path].lock_scope = sets[path].lock_scope
        /\ \A p \in DOMAIN sets \ {path} : path2lock_obj_set'[p] = sets[p]
    BY <2>1, <2>2, <1>6, <1>7 DEF LockObjSet
  <2>4. [sets[path] EXCEPT !.data = @ \union {token}] \in LockObjSet
    BY <2>2 DEF LockObjSet
  <2>5. path2lock_obj_set' \in [DOMAIN path2lock_obj_set' -> LockObjSet]
    BY <2>1, <2>4, <1>6, <1>7
  <2>6. DOMAIN path2lock_obj_set' \subseteq Path
    BY <2>3, <1>6 DEF KeeperInv, KeeperTypeOK
  <2>7. KeeperTypeOK'
    BY <1>1, <1>5, <2>5, <2>6 DEF KeeperInv, KeeperTypeOK
  <2>8. Granted(token, path, depth, scope, timeout, purged)
    BY <1>5, <1>6, <1>7, <2>3 DEF Granted, lock
  <2>9. QED
    BY <1>2, <2>7, <2>8
<1>8. CASE path \notin DOMAIN sets
  <2>1. path2lock_obj_set' = SetItem(sets, path, [lock_scope |-> scope, data |-> {token}])
    BY <1>1, <1>8 DEF WithEntry
  <2>2. path2lock_obj_set' = [p \in {path} \union DOMAIN sets |->
            IF p = path THEN [lock_scope |-> scope, data |-> {token}] ELSE sets[p]]
    BY <2>1 DEF SetItem
  <2>3. [lock_scope |-> scope, data |-> {token}] \in LockObjSet
    BY DEF LockObjSet
  <2>4. /\ DOMAIN path2lock_obj_set' = DOMAIN sets \union {path}
        /\ path2lock_obj_set'[path].data = {token}
        /\ path2lock_obj_set'[path].lock_scope = scope
        /\ \A p \in DOMAIN sets : path2lock_obj_set'[p] = sets[p]
    BY <2>2, <1>8
  <2>5. path2lock_obj_set' \in [DOMAIN path2lock_obj_set' -> LockObjSet]
    BY <2>2, <2>3, <1>6
  <2>6. DOMAIN path2lock_obj_set' \subseteq Path
    BY <2>4, <1>6 DEF KeeperInv, KeeperTypeOK
  <2>7. KeeperTypeOK'
    BY <1>1, <1>5, <2>5, <2>6 DEF KeeperInv, KeeperTypeOK
  <2>8. Granted(token, path, depth, scope, timeout, purged)
    BY <1>5, <1>6, <1>8, <2>4 DEF Granted, lock
  <2>9. QED
    BY <1>2, <2>7, <2>8
<1>9. QED
  BY <1>7, <1>8

\* Granting a lock preserves what holds of the table, provided the list it was
\* checked against names every remaining lock that covers its path.
LEMMA NewKeeps ==
    ASSUME KeeperInv,
           NEW token \in Token, NEW path \in Path, NEW depth \in Depth,
           NEW scope \in Scope, NEW timeout \in Int,
           NEW covering \in SUBSET DOMAIN token2lock_obj,
           NEW purged \in SUBSET DOMAIN token2lock_obj,
           Covering(path) \subseteq covering \union purged,
           CanLock(path, depth, scope, covering),
           New(token, path, depth, scope, timeout, covering, purged),
           now' = now
    PROVE  KeeperInv'
<1>1. /\ KeeperTypeOK'
      /\ token \notin DOMAIN token2lock_obj
      /\ Granted(token, path, depth, scope, timeout, purged)
  BY NewEffect
<1> DEFINE lock == NewLockObj(path, depth, scope, timeout)
<1>2. /\ lock \in LockObj
      /\ lock.path = path /\ lock.depth = depth /\ lock.scope = scope
  BY DEF NewLockObj, LockObj, KeeperInv, KeeperTypeOK
<1>3. /\ DOMAIN token2lock_obj' = (DOMAIN token2lock_obj \ purged) \union {token}
      /\ token2lock_obj'[token] = lock
      /\ \A t \in DOMAIN token2lock_obj \ purged : token2lock_obj'[t] = token2lock_obj[t]
  BY <1>1 DEF Granted
<1> HIDE DEF lock
<1>4. \A t \in DOMAIN token2lock_obj : token2lock_obj[t] \in LockObj
  BY DEF KeeperInv, KeeperTypeOK
<1>5. IndexesAgree'
  <2>1. ASSUME NEW t \in DOMAIN token2lock_obj'
        PROVE  Releasable(t)'
    <3>1. CASE t = token
      BY <3>1, <1>1, <1>2, <1>3 DEF Releasable, Granted
    <3>2. CASE t # token
      <4>1. t \in DOMAIN token2lock_obj \ purged /\ token2lock_obj'[t] = token2lock_obj[t]
        BY <3>2, <1>3
      <4>2. Releasable(t)
        BY <4>1 DEF KeeperInv, IndexesAgree
      <4>3. QED
        BY <4>1, <4>2, <1>1 DEF Releasable, Granted
    <3>3. QED
      BY <3>1, <3>2
  <2>2. ASSUME NEW p \in DOMAIN path2lock_obj_set'
        PROVE  /\ path2lock_obj_set'[p].data # {}
               /\ \A t \in path2lock_obj_set'[p].data :
                    t \in DOMAIN token2lock_obj' /\ token2lock_obj'[t].path = p
    BY <1>1, <1>2, <1>3 DEF Granted, KeeperInv, IndexesAgree
  <2>3. QED
    BY <2>1, <2>2 DEF IndexesAgree
<1>6. \A t \in DOMAIN token2lock_obj \ purged :
         IsLockingPath(t, path) => t \in covering
  BY DEF Covering
<1>7. ScopeOfSet'
  <2>1. ASSUME NEW p \in DOMAIN path2lock_obj_set', p # path,
               NEW t \in path2lock_obj_set'[p].data
        PROVE  token2lock_obj'[t].scope = path2lock_obj_set'[p].lock_scope
    BY <2>1, <1>1, <1>3 DEF Granted, KeeperInv, ScopeOfSet, IndexesAgree
  <2>2. ASSUME NEW t \in path2lock_obj_set'[path].data
        PROVE  token2lock_obj'[t].scope = path2lock_obj_set'[path].lock_scope
    <3> DEFINE old == path2lock_obj_set[path].data \ purged
    <3>1. CASE path \in DOMAIN path2lock_obj_set /\ old # {}
      <4>1. \A u \in old : u \in DOMAIN token2lock_obj \ purged
                             /\ token2lock_obj[u].path = path
                             /\ token2lock_obj[u].scope = path2lock_obj_set[path].lock_scope
        BY <3>1 DEF KeeperInv, IndexesAgree, ScopeOfSet
      <4>2. \A u \in old : IsLockingPath(u, path)
        <5>1. IsParentOfOrIsSelf(path, path)
          BY PathAssumption, PrefixReflexive
        <5>2. QED
          BY <4>1, <5>1, <1>4 DEF IsLockingPath, Covers, LockObj, Depth
      <4>3. scope = "SHARED" /\ \A u \in old : token2lock_obj[u].scope = "SHARED"
        BY <3>1, <4>1, <4>2, <1>6 DEF CanLock, CompatibleWith
      <4>4. path2lock_obj_set'[path].lock_scope = "SHARED"
        BY <3>1, <4>1, <4>3, <1>1 DEF Granted
      <4>5. t = token \/ t \in old
        BY <3>1, <1>1 DEF Granted
      <4>6. QED
        BY <4>1, <4>3, <4>4, <4>5, <1>2, <1>3
    <3>2. CASE ~(path \in DOMAIN path2lock_obj_set /\ old # {})
      BY <3>2, <1>1, <1>2, <1>3 DEF Granted
    <3>3. QED
      BY <3>1, <3>2
  <2>3. QED
    BY <2>1, <2>2 DEF ScopeOfSet
<1>8. ASSUME NEW u \in DOMAIN token2lock_obj \ purged, NEW p \in Path,
             Covers(lock, p), IsLockingPath(u, p)
      PROVE  scope = "SHARED" /\ token2lock_obj[u].scope = "SHARED"
  <2>1. \/ IsLockingPath(u, path)
        \/ depth = "INFINITY" /\ IsParentOf(path, token2lock_obj[u].path)
    BY <1>2, <1>4, <1>8, OverlapIsFound DEF IsLockingPath
  <2>2. CASE IsLockingPath(u, path)
    BY <2>2, <1>6 DEF CanLock, CompatibleWith
  <2>3. CASE depth = "INFINITY" /\ IsParentOf(path, token2lock_obj[u].path)
    <3>1. u \in LockObjsOfChildPath(path)
      BY <2>3 DEF LockObjsOfChildPath, KeeperInv, IndexesAgree, Releasable
    <3>2. QED
      BY <2>3, <3>1 DEF CanLock, CompatibleWith
  <2>4. QED
    BY <2>1, <2>2, <2>3
<1>9. LocksCompatible'
  <2>1. SUFFICES ASSUME NEW t \in DOMAIN token2lock_obj', NEW u \in DOMAIN token2lock_obj',
                        t # u, NEW p \in Path,
                        IsLockingPath(t, p)', IsLockingPath(u, p)'
                 PROVE  token2lock_obj'[t].scope = "SHARED"
    BY DEF LocksCompatible
  <2>2. CASE t = token
    BY <2>1, <2>2, <1>2, <1>3, <1>8 DEF IsLockingPath
  <2>3. CASE u = token
    BY <2>1, <2>3, <1>3, <1>8 DEF IsLockingPath
  <2>4. CASE t # token /\ u # token
    BY <2>1, <2>4, <1>3 DEF IsLockingPath, KeeperInv, LocksCompatible
  <2>5. QED
    BY <2>2, <2>3, <2>4
<1>10. QED
  BY <1>1, <1>5, <1>7, <1>9 DEF KeeperInv

-----------------------------------------------------------------------------
(* The handlers *)

Inv == TypeOK /\ KeeperInv /\ WhatIsHeldStands

-----------------------------------------------------------------------------
(* What the lookups return and purge *)

\* Entries reached from a path are locks of the table, filed under an ancestor.
LEMMA EntriesAreLocks ==
    ASSUME KeeperInv, NEW path
    PROVE  /\ EntriesFrom(path) \subseteq DOMAIN token2lock_obj
           /\ ExpiredFrom(path) \subseteq DOMAIN token2lock_obj
           /\ LockObjsFromPath(path) \subseteq DOMAIN token2lock_obj
BY DEF EntriesFrom, ExpiredFrom, LockObjsFromPath, KeeperInv, IndexesAgree

\* A lock that covers a path is filed under that path or an ancestor of it.
LEMMA CoveringIsReached ==
    ASSUME KeeperInv, NEW path
    PROVE  Covering(path) \subseteq EntriesFrom(path)
<1>1. SUFFICES ASSUME NEW t \in Covering(path)
               PROVE  t \in EntriesFrom(path)
  OBVIOUS
<1>2. /\ t \in DOMAIN token2lock_obj
      /\ token2lock_obj[t] \in LockObj
      /\ Covers(token2lock_obj[t], path)
  BY <1>1 DEF Covering, IsLockingPath, KeeperInv, KeeperTypeOK
<1>3. IsParentOfOrIsSelf(token2lock_obj[t].path, path)
  <2>1. token2lock_obj[t].path \in Seq(Segment)
    BY <1>2, PathAssumption DEF LockObj
  <2>2. IsParentOfOrIsSelf(token2lock_obj[t].path, token2lock_obj[t].path)
    BY <2>1, PrefixReflexive
  <2>3. QED
    BY <1>2, <2>2 DEF Covers
<1>4. /\ token2lock_obj[t].path \in DOMAIN path2lock_obj_set
      /\ t \in path2lock_obj_set[token2lock_obj[t].path].data
  BY <1>2 DEF KeeperInv, IndexesAgree, Releasable
<1>5. QED
  BY <1>3, <1>4 DEF EntriesFrom

\* After the purge, the list is all that covers the path.
LEMMA ListIsComplete ==
    ASSUME KeeperInv, NEW path \in Path
    PROVE  LockObjsFromPath(path) = Covering(path) \ ExpiredFrom(path)
BY EntriesAreLocks, CoveringIsReached
   DEF LockObjsFromPath, ExpiredFrom, Covering

-----------------------------------------------------------------------------
\* The timeouts the handlers work with are integers.
LEMMA TimeoutIsInt ==
    ASSUME NEW header \in TimeoutHeader
    PROVE  ParseHeaderTimeout(header) \in Int
BY HandlerAssumption, TimeoutAssumption DEF ParseHeaderTimeout

\* An empty lock table is well-formed.
LEMMA InitInv == Init => Inv
<1> SUFFICES ASSUME Init PROVE Inv
  OBVIOUS
<1>1. /\ token2lock_obj = <<>> /\ path2lock_obj_set = <<>> /\ issued = {}
      /\ now = 0 /\ call = Idle
  BY DEF Init, InitKeeper
<1>2. DOMAIN token2lock_obj = {} /\ DOMAIN path2lock_obj_set = {}
  BY <1>1
<1>3. KeeperTypeOK
  BY <1>1, <1>2 DEF KeeperTypeOK
<1>4. TypeOK
  BY <1>1, <1>3 DEF Init, TypeOK, Call, Idle, Reply, Status
<1>5. IndexesAgree /\ ScopeOfSet /\ LocksCompatible
  BY <1>2 DEF IndexesAgree, ScopeOfSet, LocksCompatible
<1>6. WhatIsHeldStands
  BY <1>1 DEF WhatIsHeldStands, Idle
<1>7. QED
  BY <1>3, <1>4, <1>5, <1>6 DEF Inv, KeeperInv

\* Every step of every handler preserves the invariant.
LEMMA NextInv == Inv /\ [Next]_vars => Inv'
<1> SUFFICES ASSUME Inv, [Next]_vars PROVE Inv'
  OBVIOUS
<1>a. KeeperInv /\ TypeOK /\ WhatIsHeldStands
  BY DEF Inv
<1>b. /\ now \in Nat /\ read_only \in BOOLEAN /\ call \in Call /\ reply \in Reply
      /\ KeeperTypeOK
  BY <1>a DEF TypeOK, KeeperTypeOK
<1>c. ASSUME NEW token, NEW status \in Status, token \in Token \/ token = NoToken,
             Respond(status, token)
      PROVE  reply' \in Reply
  BY <1>c DEF Respond, Reply
<1>d. Idle \in Call
  BY DEF Call
\* A step that leaves no handler with anything in hand keeps the invariant when
\* the table keeps its own.
<1>e. ASSUME KeeperInv', call' = Idle, reply' \in Reply, read_only' = read_only
      PROVE  Inv'
  <2>1. TypeOK'
    BY <1>b, <1>d, <1>e DEF TypeOK, KeeperInv
  <2>2. WhatIsHeldStands'
    BY <1>e DEF WhatIsHeldStands, Idle
  <2>3. QED
    BY <2>1, <2>2, <1>e DEF Inv
<1>1. ASSUME NEW token \in {NoToken, BadToken}, NEW body \in BOOLEAN,
             NEW depth \in Depth \union {"ONE"}, DoLockRefused(token, body, depth)
      PROVE  Inv'
  <2>1. reply' \in Reply
    BY <1>1, <1>c DEF DoLockRefused, Status
  <2>2. KeeperInv'
    BY <1>1, <1>a DEF DoLockRefused, keeperVars, KeeperInv, KeeperTypeOK, IndexesAgree,
       ScopeOfSet, LocksCompatible, Releasable, IsLockingPath
  <2>3. QED
    BY <1>1, <1>e, <2>1, <2>2 DEF DoLockRefused, NoneRunning
<1>2. ASSUME NEW path \in Path, NEW depth \in Depth, NEW scope \in Scope,
             NEW header \in TimeoutHeader, DoLock(path, depth, scope, header)
      PROVE  Inv'
  <2>1. /\ Drop(ExpiredFrom(path)) /\ now' = now
        /\ ExpiredFrom(path) \in SUBSET DOMAIN token2lock_obj
        /\ LockObjsFromPath(path) \in SUBSET DOMAIN token2lock_obj
    BY <1>2, <1>a, EntriesAreLocks DEF DoLock, GetLockObjsFromPath
  <2>2. KeeperInv' /\ Leave(ExpiredFrom(path))
    BY <2>1, <1>a, DropKeeps, DropEffect
  <2>3. call' = [at |-> "new", path |-> path, depth |-> depth, scope |-> scope,
                 timeout |-> ParseHeaderTimeout(header),
                 covering |-> LockObjsFromPath(path)]
    BY <1>2 DEF DoLock
  <2>4. LockObjsFromPath(path) \subseteq Token
    BY <2>1, <1>b DEF KeeperTypeOK
  <2>5. call' \in Call
    BY <2>3, <2>4, TimeoutIsInt DEF Call
  <2>6. TypeOK'
    BY <1>2, <1>b, <2>2, <2>5 DEF DoLock, TypeOK, KeeperInv
  <2>7. LockObjsFromPath(path) = {t \in DOMAIN token2lock_obj' : IsLockingPath(t, path)'}
    BY <1>a, <2>2, ListIsComplete DEF Leave, Covering, IsLockingPath
  <2>8. WhatIsHeldStands'
    BY <2>3, <2>7 DEF WhatIsHeldStands, IsLockingPath
  <2>9. QED
    BY <2>2, <2>6, <2>8 DEF Inv
<1>3. ASSUME NEW token \in Token, DoLockNew(token)
      PROVE  Inv'
  <2> DEFINE again    == call.covering = {}
             covering == IF again THEN LockObjsFromPath(call.path) ELSE call.covering
             purged   == IF again THEN ExpiredFrom(call.path) ELSE {}
  <2>1. /\ call.at = "new" /\ call' = Idle /\ now' = now /\ read_only' = read_only
        /\ New(token, call.path, call.depth, call.scope, call.timeout, covering, purged)
        /\ IF CanLock(call.path, call.depth, call.scope, covering)
           THEN Respond(IF again THEN 201 ELSE 200, token)
           ELSE Respond(423, NoToken)
    BY <1>3 DEF DoLockNew
  <2>2. /\ call.path \in Path /\ call.depth \in Depth /\ call.scope \in Scope
        /\ call.timeout \in Int /\ call.covering \in SUBSET Token
    BY <1>b, <2>1 DEF Call, Idle
  <2>3. call.covering = Covering(call.path)
    BY <1>a, <2>1 DEF WhatIsHeldStands, Covering
  <2>4. /\ covering \in SUBSET DOMAIN token2lock_obj
        /\ purged \in SUBSET DOMAIN token2lock_obj
        /\ Covering(call.path) \subseteq covering \union purged
    BY <1>a, <2>2, <2>3, EntriesAreLocks DEF Covering
  <2>5. reply' \in Reply
    <3> HIDE DEF again, covering
    <3>1. (IF again THEN 201 ELSE 200) \in Status /\ 423 \in Status
      BY DEF Status
    <3>2. QED
      BY <2>1, <3>1, <1>c
  <2> HIDE DEF again, covering, purged
  <2>6. CASE CanLock(call.path, call.depth, call.scope, covering)
    <3>1. KeeperInv'
      BY <1>a, <2>1, <2>2, <2>4, <2>6, NewKeeps
    <3>2. QED
      BY <1>e, <2>1, <2>5, <3>1
  <2>7. CASE ~CanLock(call.path, call.depth, call.scope, covering)
    <3>1. Drop(purged)
      BY <2>1, <2>7 DEF New
    <3>2. KeeperInv'
      BY <1>a, <2>1, <2>4, <3>1, DropKeeps
    <3>3. QED
      BY <1>e, <2>1, <2>5, <3>2
  <2>8. QED
    BY <2>6, <2>7
<1>4. ASSUME NEW token \in Token, NEW path \in Path, NEW header \in TimeoutHeader,
             DoLockRefresh(token, path, header)
      PROVE  Inv'
  <2> DEFINE gone == {t \in {token} \intersect DOMAIN token2lock_obj : IsExpired(t)}
  <2>1. Drop(gone) /\ now' = now /\ read_only' = read_only /\ call = Idle
    BY <1>4 DEF DoLockRefresh, Get, NoneRunning
  <2>2. KeeperInv' /\ Leave(gone)
    BY <1>a, <2>1, DropKeeps, DropEffect
  <2>3. CASE ~(Found(token) /\ IsLockingPath(token, path))
    <3>1. call' = call /\ (Respond(412, NoToken) \/ Respond(423, NoToken))
      BY <1>4, <2>3 DEF DoLockRefresh
    <3>2. reply' \in Reply
      BY <1>c, <3>1 DEF Status
    <3>3. QED
      BY <1>e, <2>1, <2>2, <3>1, <3>2
  <2>4. CASE Found(token) /\ IsLockingPath(token, path)
    <3>1. /\ call' = [at |-> "refresh", token |-> token,
                      timeout |-> ParseHeaderTimeout(header)]
          /\ reply' = reply
      BY <1>4, <2>4 DEF DoLockRefresh
    <3>2. call' \in Call
      BY <3>1, TimeoutIsInt DEF Call
    <3>3. token \in DOMAIN token2lock_obj'
      BY <2>2, <2>4 DEF Found, Leave
    <3>4. TypeOK' /\ WhatIsHeldStands'
      BY <1>b, <2>1, <2>2, <3>1, <3>2, <3>3 DEF TypeOK, KeeperInv, WhatIsHeldStands
    <3>5. QED
      BY <2>2, <3>4 DEF Inv
  <2>5. QED
    BY <2>3, <2>4
<1>5. ASSUME DoLockRefreshed
      PROVE  Inv'
  <2>1. /\ call.at = "refresh" /\ call' = Idle /\ now' = now /\ read_only' = read_only
        /\ Refresh(call.token, call.timeout)
        /\ Respond(200, call.token)
    BY <1>5 DEF DoLockRefreshed
  <2>2. call.token \in Token /\ call.timeout \in Int
    BY <1>b, <2>1 DEF Call, Idle
  <2>3. call.token \in DOMAIN token2lock_obj
    BY <1>a, <2>1 DEF WhatIsHeldStands
  <2>4. KeeperInv'
    BY <1>a, <2>1, <2>2, <2>3, RefreshKeeps
  <2>5. reply' \in Reply
    BY <1>c, <2>1, <2>2 DEF Status
  <2>6. QED
    BY <1>e, <2>1, <2>4, <2>5
<1>6. ASSUME NEW token \in {NoToken, BadToken}, DoUnlockRefused(token)
      PROVE  Inv'
  <2>1. reply' \in Reply
    BY <1>6, <1>c DEF DoUnlockRefused, Status
  <2>2. KeeperInv'
    BY <1>6, <1>a DEF DoUnlockRefused, keeperVars, KeeperInv, KeeperTypeOK, IndexesAgree,
       ScopeOfSet, LocksCompatible, Releasable, IsLockingPath
  <2>3. QED
    BY <1>6, <1>e, <2>1, <2>2 DEF DoUnlockRefused, NoneRunning
<1>7. ASSUME NEW token \in Token, NEW path \in Path, DoUnlock(token, path)
      PROVE  Inv'
  <2> DEFINE gone == {t \in {token} \intersect DOMAIN token2lock_obj : IsExpired(t)}
  <2>1. Drop(gone) /\ now' = now /\ read_only' = read_only /\ call = Idle
    BY <1>7 DEF DoUnlock, Get, NoneRunning
  <2>2. KeeperInv' /\ Leave(gone)
    BY <1>a, <2>1, DropKeeps, DropEffect
  <2>3. CASE call' = call /\ Respond(403, NoToken)
    BY <1>c, <1>e, <2>1, <2>2, <2>3 DEF Status
  <2>4. CASE /\ Found(token)
             /\ call' = [at |-> "release", token |-> token]
             /\ reply' = reply
    <3>1. call' \in Call
      BY <2>4 DEF Call
    <3>2. token \in DOMAIN token2lock_obj'
      BY <2>2, <2>4 DEF Found, Leave
    <3>3. TypeOK' /\ WhatIsHeldStands'
      BY <1>b, <2>1, <2>2, <2>4, <3>1, <3>2 DEF TypeOK, KeeperInv, WhatIsHeldStands
    <3>4. QED
      BY <2>2, <3>3 DEF Inv
  <2>5. QED
    BY <1>7, <2>3, <2>4 DEF DoUnlock
<1>8. ASSUME DoUnlockRelease
      PROVE  Inv'
  <2>1. /\ call' = Idle /\ now' = now /\ read_only' = read_only
        /\ Drop({call.token} \intersect DOMAIN token2lock_obj)
        /\ Respond(204, NoToken) \/ Respond(400, NoToken)
    BY <1>8 DEF DoUnlockRelease, Release
  <2>2. KeeperInv'
    BY <1>a, <2>1, DropKeeps
  <2>3. QED
    BY <1>c, <1>e, <2>1, <2>2 DEF Status
<1>9. ASSUME NEW path \in Path, LookUpPath(path)
      PROVE  Inv'
  <2>1. KeeperInv'
    BY <1>9, <1>a, EntriesAreLocks, DropKeeps DEF LookUpPath, GetLockObjsFromPath
  <2>2. QED
    BY <1>9, <1>b, <1>e, <2>1 DEF LookUpPath, NoneRunning
<1>10. ASSUME NEW token \in Token, NEW path \in Path, LookUpToken(token, path)
       PROVE  Inv'
  <2>1. KeeperInv'
    BY <1>10, <1>a, DropKeeps DEF LookUpToken, CheckLockToken
  <2>2. QED
    BY <1>10, <1>b, <1>e, <2>1 DEF LookUpToken, NoneRunning
<1>11. ASSUME Tick
       PROVE  Inv'
  <2>1. /\ now' = now + 1
        /\ UNCHANGED <<token2lock_obj, path2lock_obj_set, issued, read_only, call, reply>>
    BY <1>11 DEF Tick, keeperVars
  <2>2. KeeperInv'
    BY <1>a, <1>b, <2>1 DEF KeeperInv, KeeperTypeOK, IndexesAgree, ScopeOfSet,
       LocksCompatible, Releasable, IsLockingPath
  <2>3. TypeOK' /\ WhatIsHeldStands'
    BY <1>a, <1>b, <2>1, <2>2 DEF TypeOK, KeeperInv, WhatIsHeldStands, IsLockingPath
  <2>4. QED
    BY <2>2, <2>3 DEF Inv
<1>12. CASE UNCHANGED vars
  BY <1>12, <1>a DEF vars, Inv, TypeOK, KeeperInv, KeeperTypeOK, IndexesAgree, ScopeOfSet,
     LocksCompatible, WhatIsHeldStands, Releasable, IsLockingPath
<1>13. QED
  BY <1>1, <1>2, <1>3, <1>4, <1>5, <1>6, <1>7, <1>8, <1>9, <1>10, <1>11, <1>12
     DEF Next, LockRequest, UnlockRequest, LookUp

\* The invariant holds of every reachable state.
THEOREM InvAlways == Spec => []Inv
BY InitInv, NextInv, PTL DEF Spec

-----------------------------------------------------------------------------
(* The properties the runs check *)

\* The state of the lock table and of the handlers is well-formed.
THEOREM TypeCorrect == Spec => []TypeOK
<1>1. Inv => TypeOK
  BY DEF Inv
<1>2. QED
  BY <1>1, InvAlways, PTL

\* The index by token and the index by path always hold the same locks.
THEOREM IndexesAlwaysAgree == Spec => []IndexesAgree
<1>1. Inv => IndexesAgree
  BY DEF Inv, KeeperInv
<1>2. QED
  BY <1>1, InvAlways, PTL

\* The scope recorded for a path is that of every lock rooted there.
THEOREM ScopeOfSetAlways == Spec => []ScopeOfSet
<1>1. Inv => ScopeOfSet
  BY DEF Inv, KeeperInv
<1>2. QED
  BY <1>1, InvAlways, PTL

\* Locks that cover a common path are shared, for every interleaving of requests
\* and every advance of the clock.
THEOREM LocksAlwaysCompatible == Spec => []LocksCompatible
<1>1. Inv => LocksCompatible
  BY DEF Inv, KeeperInv
<1>2. QED
  BY <1>1, InvAlways, PTL

\* What a LOCK or UNLOCK handler has read still stands at its next call.
THEOREM WhatIsHeldAlwaysStands == Spec => []WhatIsHeldStands
<1>1. Inv => WhatIsHeldStands
  BY DEF Inv
<1>2. QED
  BY <1>1, InvAlways, PTL

-----------------------------------------------------------------------------
\* Dropping a set of expired locks takes no live lock away.
LEMMA DropOfExpired ==
    ASSUME KeeperInv, NEW T \in SUBSET DOMAIN token2lock_obj, Drop(T), now' = now,
           \A t \in T : IsExpired(t)
    PROVE  LiveLocksStay
<1>1. Leave(T)
  BY DropEffect
<1>2. QED
  BY <1>1 DEF Leave, LiveLocksStay

\* No step but the UNLOCK of its token takes a live lock out of the table.
THEOREM OnlyUnlockEndsLiveLockAlways == Spec => OnlyUnlockEndsLiveLock
<1>1. Inv /\ [Next]_vars => [LiveLocksStay]_vars
  <2> SUFFICES ASSUME Inv, Next PROVE LiveLocksStay
    OBVIOUS
  <2>a. KeeperInv /\ call \in Call /\ WhatIsHeldStands
    BY DEF Inv, TypeOK
  <2>1. ASSUME token2lock_obj' = token2lock_obj
        PROVE  LiveLocksStay
    BY <2>1 DEF LiveLocksStay
  <2>2. ASSUME NEW path \in Path, GetLockObjsFromPath(path), now' = now
        PROVE  LiveLocksStay
    <3>1. ExpiredFrom(path) \subseteq DOMAIN token2lock_obj
      BY <2>a, EntriesAreLocks
    <3>2. \A t \in ExpiredFrom(path) : IsExpired(t)
      BY DEF ExpiredFrom
    <3>3. QED
      BY <2>2, <2>a, <3>1, <3>2, DropOfExpired DEF GetLockObjsFromPath
  <2>3. ASSUME NEW token \in Token, Get(token), now' = now
        PROVE  LiveLocksStay
    BY <2>3, <2>a, DropOfExpired DEF Get
  <2>4. ASSUME NEW token \in Token, DoLockNew(token)
        PROVE  LiveLocksStay
    <3> DEFINE again    == call.covering = {}
               covering == IF again THEN LockObjsFromPath(call.path) ELSE call.covering
               purged   == IF again THEN ExpiredFrom(call.path) ELSE {}
    <3>1. /\ call.at = "new" /\ now' = now
          /\ New(token, call.path, call.depth, call.scope, call.timeout, covering, purged)
      BY <2>4 DEF DoLockNew
    <3>2. call.path \in Path /\ call.depth \in Depth /\ call.scope \in Scope
          /\ call.timeout \in Int
      BY <2>a, <3>1 DEF Call, Idle
    <3>3. /\ purged \in SUBSET DOMAIN token2lock_obj
          /\ \A t \in purged : IsExpired(t)
      BY <2>a, <3>2, EntriesAreLocks DEF ExpiredFrom
    <3>4. covering \in SUBSET DOMAIN token2lock_obj
      BY <2>a, <3>1, <3>2, EntriesAreLocks DEF WhatIsHeldStands
    <3> HIDE DEF covering, purged
    <3>5. CASE CanLock(call.path, call.depth, call.scope, covering)
      <4>1. Granted(token, call.path, call.depth, call.scope, call.timeout, purged)
        BY <2>a, <3>1, <3>2, <3>3, <3>4, <3>5, NewEffect
      <4>2. QED
        BY <3>3, <4>1 DEF Granted, LiveLocksStay
    <3>6. CASE ~CanLock(call.path, call.depth, call.scope, covering)
      BY <2>a, <3>1, <3>3, <3>6, DropOfExpired DEF New
    <3>7. QED
      BY <3>5, <3>6
  <2>5. ASSUME DoLockRefreshed
        PROVE  LiveLocksStay
    BY <2>5 DEF DoLockRefreshed, Refresh, LiveLocksStay
  <2>6. ASSUME DoUnlockRelease
        PROVE  LiveLocksStay
    <3>1. /\ call.at = "release" /\ now' = now
          /\ Drop({call.token} \intersect DOMAIN token2lock_obj)
      BY <2>6 DEF DoUnlockRelease, Release
    <3>2. Leave({call.token} \intersect DOMAIN token2lock_obj)
      BY <2>a, <3>1, DropEffect
    <3>3. QED
      BY <3>1, <3>2 DEF Leave, LiveLocksStay
  <2>7. ASSUME NEW token \in Token, NEW path \in Path, LookUpToken(token, path)
        PROVE  LiveLocksStay
    BY <2>7, <2>a, DropOfExpired DEF LookUpToken, CheckLockToken
  <2>8. QED
    BY <2>1, <2>2, <2>3, <2>4, <2>5, <2>6, <2>7
       DEF Next, LockRequest, UnlockRequest, LookUp, DoLockRefused, DoLock, DoLockRefresh,
           DoUnlockRefused, DoUnlock, LookUpPath, Tick, keeperVars
<1>2. QED
  BY <1>1, InvAlways, PTL DEF Spec, OnlyUnlockEndsLiveLock

-----------------------------------------------------------------------------
(* The lock table and its handlers implement LockService. *)

\* The refinement mapping, lock by lock.
LEMMA HeldAt ==
    /\ DOMAIN HeldLocks = DOMAIN token2lock_obj
    /\ \A t \in DOMAIN token2lock_obj :
         /\ HeldLocks[t] = HeldLock(token2lock_obj[t])
         /\ HeldLocks[t].extent = {p \in Path : IsLockingPath(t, p)}
         /\ HeldLocks[t].scope = token2lock_obj[t].scope
         /\ HeldLocks[t].expire = token2lock_obj[t].expire
BY DEF HeldLocks, HeldLock, IsLockingPath

\* The same in the next state.
LEMMA HeldAtNext ==
    /\ DOMAIN HeldLocks' = DOMAIN token2lock_obj'
    /\ \A t \in DOMAIN token2lock_obj' :
         /\ HeldLocks'[t] = HeldLock(token2lock_obj'[t])
         /\ HeldLocks'[t].extent = {p \in Path : Covers(token2lock_obj'[t], p)}
         /\ HeldLocks'[t].scope = token2lock_obj'[t].scope
         /\ HeldLocks'[t].expire = token2lock_obj'[t].expire
BY DEF HeldLocks, HeldLock

\* A purge of expired locks is a Reclaim.
LEMMA PurgeReclaims ==
    ASSUME KeeperInv, NEW T \in SUBSET DOMAIN token2lock_obj, Drop(T), now' = now,
           \A t \in T : IsExpired(t)
    PROVE  Service!Reclaim
<1>1. Leave(T) /\ issued' = issued
  BY DropEffect DEF Drop
<1>2. \A t \in DOMAIN token2lock_obj \ T : HeldLocks'[t] = HeldLocks[t]
  BY <1>1, HeldAt, HeldAtNext DEF Leave
<1>3. T \subseteq Service!Expired
  BY HeldAt DEF Service!Expired, IsExpired
<1>4. QED
  BY <1>1, <1>2, <1>3, HeldAt, HeldAtNext DEF Service!Reclaim, Service!Keep, Leave

-----------------------------------------------------------------------------
\* No lock is about to be refreshed at first.
LEMMA InitRefreshLeavesLive == Init => RefreshLeavesLive
BY DEF Init, InitKeeper, RefreshLeavesLive, Idle

\* RefreshLeavesLive is inductive under Inv.
LEMMA NextRefreshLeavesLive ==
    Inv /\ RefreshLeavesLive /\ [Next]_vars => RefreshLeavesLive'
<1> SUFFICES ASSUME Inv, RefreshLeavesLive, [Next]_vars PROVE RefreshLeavesLive'
  OBVIOUS
<1>a. KeeperInv /\ call \in Call /\ WhatIsHeldStands /\ now \in Nat
  BY DEF Inv, TypeOK, KeeperTypeOK
<1>b. \A t \in DOMAIN token2lock_obj : token2lock_obj[t] \in LockObj
  BY <1>a DEF KeeperInv, KeeperTypeOK
<1>c. ASSUME NEW T \in SUBSET DOMAIN token2lock_obj, Drop(T), now' = now,
             call' = Idle \/ call'.at # "refresh"
      PROVE  RefreshLeavesLive'
  <2>1. Leave(T)
    BY <1>c, <1>a, DropEffect
  <2>2. QED
    BY <2>1, <1>c DEF Leave, RefreshLeavesLive, Idle
<1>1. ASSUME token2lock_obj' = token2lock_obj, call' = call, now' = now
      PROVE  RefreshLeavesLive'
  BY <1>1 DEF RefreshLeavesLive
<1>2. ASSUME NEW path \in Path, NEW depth \in Depth, NEW scope \in Scope,
             NEW header \in TimeoutHeader, DoLock(path, depth, scope, header)
      PROVE  RefreshLeavesLive'
  <2>1. Drop(ExpiredFrom(path)) /\ now' = now /\ call'.at = "new"
    BY <1>2 DEF DoLock, GetLockObjsFromPath
  <2>2. QED
    BY <1>a, <1>c, <2>1, EntriesAreLocks
<1>3. ASSUME NEW token \in Token, DoLockNew(token)
      PROVE  RefreshLeavesLive'
  <2> DEFINE again    == call.covering = {}
             covering == IF again THEN LockObjsFromPath(call.path) ELSE call.covering
             purged   == IF again THEN ExpiredFrom(call.path) ELSE {}
  <2>1. /\ call.at = "new" /\ now' = now /\ call' = Idle
        /\ New(token, call.path, call.depth, call.scope, call.timeout, covering, purged)
    BY <1>3 DEF DoLockNew
  <2>2. call.path \in Path /\ call.depth \in Depth /\ call.scope \in Scope
        /\ call.timeout \in Int
    BY <1>a, <2>1 DEF Call, Idle
  <2>3. /\ purged \in SUBSET DOMAIN token2lock_obj
        /\ covering \in SUBSET DOMAIN token2lock_obj
    BY <1>a, <2>1, <2>2, EntriesAreLocks DEF WhatIsHeldStands
  <2> HIDE DEF covering, purged
  <2>4. CASE CanLock(call.path, call.depth, call.scope, covering)
    <3>1. Granted(token, call.path, call.depth, call.scope, call.timeout, purged)
      BY <1>a, <2>1, <2>2, <2>3, <2>4, NewEffect
    <3>2. /\ token2lock_obj'[token].expire = now + call.timeout
          /\ token2lock_obj'[token].timeout = call.timeout
      BY <3>1 DEF Granted, NewLockObj
    <3>3. now + call.timeout <= now + call.timeout
      BY <1>a, <2>2
    <3>4. QED
      BY <2>1, <3>1, <3>2, <3>3 DEF Granted, RefreshLeavesLive, Idle
  <2>5. CASE ~CanLock(call.path, call.depth, call.scope, covering)
    BY <1>c, <2>1, <2>3, <2>5 DEF New
  <2>6. QED
    BY <2>4, <2>5
<1>4. ASSUME NEW token \in Token, NEW path \in Path, NEW header \in TimeoutHeader,
             DoLockRefresh(token, path, header)
      PROVE  RefreshLeavesLive'
  <2> DEFINE gone == {t \in {token} \intersect DOMAIN token2lock_obj : IsExpired(t)}
  <2>1. Drop(gone) /\ now' = now /\ call = Idle
    BY <1>4 DEF DoLockRefresh, Get, NoneRunning
  <2>2. CASE call' = call
    BY <1>c, <2>1, <2>2
  <2>3. CASE Found(token) /\ call' = [at |-> "refresh", token |-> token,
                                      timeout |-> ParseHeaderTimeout(header)]
    <3>1. Leave(gone) /\ call'.token = token
      BY <1>a, <2>1, <2>3, DropEffect
    <3>2. /\ token \in DOMAIN token2lock_obj
          /\ token2lock_obj[token].expire > now
          /\ token2lock_obj[token].expire <= now + token2lock_obj[token].timeout
          /\ token2lock_obj[token].expire \in Int /\ token2lock_obj[token].timeout \in Int
      BY <1>a, <1>b, <2>3 DEF Found, IsExpired, RefreshLeavesLive, LockObj
    <3>3. token2lock_obj[token].timeout > 0
      BY <1>a, <3>2
    <3>4. token2lock_obj'[token] = token2lock_obj[token]
      BY <3>1, <3>2, <2>3 DEF Leave, Found
    <3>5. QED
      BY <2>1, <3>1, <3>3, <3>4 DEF Leave, RefreshLeavesLive
  <2>4. QED
    BY <1>4, <2>2, <2>3 DEF DoLockRefresh
<1>5. ASSUME DoLockRefreshed
      PROVE  RefreshLeavesLive'
  <2> DEFINE kept == token2lock_obj[call.token].timeout
             new  == IF 0 < call.timeout /\ call.timeout <= TimeoutMaxValue
                     THEN call.timeout ELSE kept
  <2>1. /\ call.at = "refresh" /\ call' = Idle /\ now' = now
        /\ token2lock_obj' = [token2lock_obj EXCEPT ![call.token].timeout = new,
                                                    ![call.token].expire = now + new]
    BY <1>5 DEF DoLockRefreshed, Refresh
  <2>2. call.token \in DOMAIN token2lock_obj /\ call.timeout \in Int
    BY <1>a, <2>1 DEF WhatIsHeldStands, Call, Idle
  <2>3. new \in Int
    BY <1>b, <2>2 DEF LockObj
  <2> HIDE DEF new
  <2>4. /\ DOMAIN token2lock_obj' = DOMAIN token2lock_obj
        /\ token2lock_obj'[call.token].timeout = new
        /\ token2lock_obj'[call.token].expire = now + new
        /\ \A t \in DOMAIN token2lock_obj \ {call.token} :
             token2lock_obj'[t] = token2lock_obj[t]
    BY <1>b, <2>1, <2>2 DEF LockObj
  <2>5. now + new <= now + new
    BY <1>a, <2>3
  <2>6. QED
    BY <2>1, <2>4, <2>5 DEF RefreshLeavesLive, Idle
<1>6. ASSUME NEW token \in Token, NEW path \in Path, DoUnlock(token, path)
      PROVE  RefreshLeavesLive'
  <2> DEFINE gone == {t \in {token} \intersect DOMAIN token2lock_obj : IsExpired(t)}
  <2>1. Drop(gone) /\ now' = now /\ (call' = Idle \/ call'.at = "release")
    BY <1>6 DEF DoUnlock, Get, NoneRunning
  <2>2. QED
    BY <1>c, <2>1
<1>7. ASSUME DoUnlockRelease
      PROVE  RefreshLeavesLive'
  BY <1>7, <1>c DEF DoUnlockRelease, Release
<1>8. ASSUME NEW path \in Path, LookUpPath(path)
      PROVE  RefreshLeavesLive'
  BY <1>8, <1>a, <1>c, EntriesAreLocks DEF LookUpPath, GetLockObjsFromPath, NoneRunning
<1>9. ASSUME NEW token \in Token, NEW path \in Path, LookUpToken(token, path)
      PROVE  RefreshLeavesLive'
  BY <1>9, <1>c DEF LookUpToken, CheckLockToken, NoneRunning
<1>10. ASSUME Tick
       PROVE  RefreshLeavesLive'
  <2>1. now' = now + 1 /\ token2lock_obj' = token2lock_obj /\ call' = call
    BY <1>10 DEF Tick, keeperVars
  <2>2. QED
    BY <1>a, <1>b, <2>1 DEF RefreshLeavesLive, LockObj
<1>11. CASE UNCHANGED vars
  BY <1>1, <1>11 DEF vars
<1>12. QED
  BY <1>1, <1>2, <1>3, <1>4, <1>5, <1>6, <1>7, <1>8, <1>9, <1>10, <1>11
     DEF Next, LockRequest, UnlockRequest, LookUp, DoLockRefused, DoUnlockRefused, keeperVars

\* A lock about to be refreshed has a positive timeout of its own.
THEOREM RefreshAlwaysLeavesLive == Spec => []RefreshLeavesLive
BY InitRefreshLeavesLive, NextRefreshLeavesLive, InvAlways, PTL DEF Spec

-----------------------------------------------------------------------------
\* The empty table is the empty service.
LEMMA InitImplements == Init => Service!Init
BY HeldAt DEF Init, InitKeeper, Service!Init

\* Every step of the handlers is a step of the service, or one it does not see.
LEMMA StepImplements ==
    Inv /\ RefreshLeavesLive /\ [Next]_vars => [Service!Next]_Service!vars
<1> SUFFICES ASSUME Inv, RefreshLeavesLive, [Next]_vars
             PROVE  Service!Next \/ UNCHANGED <<now, HeldLocks, issued>>
  BY DEF Service!vars
<1>a. KeeperInv /\ call \in Call /\ WhatIsHeldStands /\ now \in Nat
  BY DEF Inv, TypeOK, KeeperTypeOK
<1>b. \A t \in DOMAIN token2lock_obj : token2lock_obj[t] \in LockObj
  BY <1>a DEF KeeperInv, KeeperTypeOK
<1>1. ASSUME token2lock_obj' = token2lock_obj, issued' = issued, now' = now
      PROVE  UNCHANGED <<now, HeldLocks, issued>>
  BY <1>1 DEF HeldLocks
<1>2. ASSUME NEW path \in Path, GetLockObjsFromPath(path), now' = now
      PROVE  Service!Next
  <2>1. ExpiredFrom(path) \in SUBSET DOMAIN token2lock_obj
    BY <1>a, EntriesAreLocks
  <2>2. \A t \in ExpiredFrom(path) : IsExpired(t)
    BY DEF ExpiredFrom
  <2>3. Service!Reclaim
    BY <1>a, <1>2, <2>1, <2>2, PurgeReclaims DEF GetLockObjsFromPath
  <2>4. QED
    BY <2>3 DEF Service!Next
<1>3. ASSUME NEW token \in Token, Get(token), now' = now
      PROVE  Service!Next
  <2>1. Service!Reclaim
    BY <1>a, <1>3, PurgeReclaims DEF Get
  <2>2. QED
    BY <2>1 DEF Service!Next
<1>4. ASSUME NEW token \in Token, DoLockNew(token)
      PROVE  Service!Next
  <2> DEFINE again    == call.covering = {}
             covering == IF again THEN LockObjsFromPath(call.path) ELSE call.covering
             purged   == IF again THEN ExpiredFrom(call.path) ELSE {}
  <2>1. /\ call.at = "new" /\ now' = now
        /\ New(token, call.path, call.depth, call.scope, call.timeout, covering, purged)
    BY <1>4 DEF DoLockNew
  <2>2. call.path \in Path /\ call.depth \in Depth /\ call.scope \in Scope
        /\ call.timeout \in Int
    BY <1>a, <2>1 DEF Call, Idle
  <2>3. /\ purged \in SUBSET DOMAIN token2lock_obj
        /\ covering \in SUBSET DOMAIN token2lock_obj
        /\ \A t \in purged : IsExpired(t)
        /\ Covering(call.path) \subseteq covering \union purged
    BY <1>a, <2>1, <2>2, EntriesAreLocks DEF WhatIsHeldStands, Covering, ExpiredFrom
  <2> HIDE DEF covering, purged
  <2>4. CASE CanLock(call.path, call.depth, call.scope, covering)
    <3>1. /\ Granted(token, call.path, call.depth, call.scope, call.timeout, purged)
          /\ token \notin DOMAIN token2lock_obj
      BY <1>a, <2>1, <2>2, <2>3, <2>4, NewEffect
    <3>2. KeeperInv'
      BY <1>a, <2>1, <2>2, <2>3, <2>4, NewKeeps
    <3>3. /\ DOMAIN HeldLocks' = (DOMAIN HeldLocks \ purged) \union {token}
          /\ \A t \in DOMAIN HeldLocks \ purged : HeldLocks'[t] = HeldLocks[t]
      BY <3>1, HeldAt, HeldAtNext DEF Granted
    <3>4. token2lock_obj'[token] \in LockObj
      BY <3>1, <3>2 DEF KeeperInv, KeeperTypeOK, Granted
    <3>5. HeldLocks'[token] \in Service!Lock
      <4>1. HeldLocks'[token] = [extent |-> {p \in Path : Covers(token2lock_obj'[token], p)},
                                 scope |-> token2lock_obj'[token].scope,
                                 expire |-> token2lock_obj'[token].expire]
        BY <3>1, HeldAtNext DEF HeldLock, Granted
      <4>2. /\ token2lock_obj'[token].scope \in {"EXCLUSIVE", "SHARED"}
            /\ token2lock_obj'[token].expire \in Int
        BY <3>4 DEF LockObj, Scope
      <4>3. QED
        BY <4>1, <4>2 DEF Service!Lock
    <3>6. purged \subseteq Service!Expired
      BY <2>3, HeldAt DEF Service!Expired, IsExpired
    <3>7. Service!Keep(DOMAIN HeldLocks' \ {token})
      BY <3>1, <3>3, <3>6, HeldAt DEF Service!Keep
    <3>8. ASSUME NEW t \in DOMAIN HeldLocks' \ {token}
          PROVE  Service!Compatible(HeldLocks'[token], HeldLocks[t])
      <4>1. /\ t \in DOMAIN token2lock_obj' /\ token \in DOMAIN token2lock_obj'
            /\ t \in DOMAIN HeldLocks \ purged
            /\ HeldLocks'[t] = HeldLocks[t]
        BY <3>3, HeldAtNext
      <4>2. CASE HeldLocks'[token].extent \intersect HeldLocks'[t].extent = {}
        BY <4>1, <4>2 DEF Service!Compatible
      <4>3. CASE HeldLocks'[token].extent \intersect HeldLocks'[t].extent # {}
        <5>1. PICK p \in Path : IsLockingPath(token, p)' /\ IsLockingPath(t, p)'
          BY <4>1, <4>3, HeldAtNext DEF IsLockingPath
        <5>2. /\ token2lock_obj'[token].scope = "SHARED"
              /\ token2lock_obj'[t].scope = "SHARED"
          BY <3>2, <4>1, <5>1 DEF KeeperInv, LocksCompatible
        <5>3. QED
          BY <4>1, <5>2, HeldAtNext DEF Service!Compatible
      <4>4. QED
        BY <4>2, <4>3
    <3>9. token \notin issued /\ issued' = issued \union {token}
      BY <2>1, <2>4 DEF New
    <3>10. Service!Grant(token)
      BY <2>1, <3>3, <3>5, <3>7, <3>8, <3>9 DEF Service!Grant
    <3>11. QED
      BY <3>10 DEF Service!Next
  <2>5. CASE ~CanLock(call.path, call.depth, call.scope, covering)
    <3>1. Service!Reclaim
      BY <1>a, <2>1, <2>3, <2>5, PurgeReclaims DEF New
    <3>2. QED
      BY <3>1 DEF Service!Next
  <2>6. QED
    BY <2>4, <2>5
<1>5. ASSUME DoLockRefreshed
      PROVE  Service!Next
  <2> DEFINE kept == token2lock_obj[call.token].timeout
             new  == IF 0 < call.timeout /\ call.timeout <= TimeoutMaxValue
                     THEN call.timeout ELSE kept
  <2>1. /\ call.at = "refresh" /\ now' = now /\ issued' = issued
        /\ token2lock_obj' = [token2lock_obj EXCEPT ![call.token].timeout = new,
                                                    ![call.token].expire = now + new]
    BY <1>5 DEF DoLockRefreshed, Refresh
  <2>2. /\ call.token \in DOMAIN token2lock_obj /\ call.token \in Token
        /\ call.timeout \in Int
    BY <1>a, <2>1 DEF WhatIsHeldStands, Call, Idle
  <2>3. new \in Int /\ new > 0
    BY <1>b, <2>1, <2>2 DEF LockObj, RefreshLeavesLive
  <2> HIDE DEF new
  <2>4. /\ DOMAIN token2lock_obj' = DOMAIN token2lock_obj
        /\ token2lock_obj'[call.token].path = token2lock_obj[call.token].path
        /\ token2lock_obj'[call.token].depth = token2lock_obj[call.token].depth
        /\ token2lock_obj'[call.token].scope = token2lock_obj[call.token].scope
        /\ token2lock_obj'[call.token].expire = now + new
        /\ \A t \in DOMAIN token2lock_obj \ {call.token} :
             token2lock_obj'[t] = token2lock_obj[t]
    BY <1>b, <2>1, <2>2 DEF LockObj
  <2>5. now + new > now
    BY <1>a, <2>3
  <2>6. \A t \in DOMAIN HeldLocks \ {call.token} : HeldLocks'[t] = HeldLocks[t]
    BY <2>4, HeldAt, HeldAtNext
  <2>7. \A p \in Path :
           Covers(token2lock_obj'[call.token], p) <=> IsLockingPath(call.token, p)
    BY <2>4 DEF Covers, IsLockingPath
  <2>8. HeldLocks'[call.token].extent = HeldLocks[call.token].extent
    BY <2>2, <2>4, <2>7, HeldAt, HeldAtNext, ZenonT(30)
  <2>9. Service!Refresh(call.token)
    BY <2>1, <2>2, <2>4, <2>5, <2>6, <2>8, HeldAt, HeldAtNext DEF Service!Refresh
  <2>10. QED
    BY <2>2, <2>9 DEF Service!Next
<1>6. ASSUME DoUnlockRelease
      PROVE  Service!Next
  <2>1. /\ call.at = "release" /\ now' = now /\ issued' = issued
        /\ Drop({call.token} \intersect DOMAIN token2lock_obj)
    BY <1>6 DEF DoUnlockRelease, Release, Drop
  <2>2. call.token \in DOMAIN token2lock_obj /\ call.token \in Token
    BY <1>a, <2>1 DEF WhatIsHeldStands, Call, Idle
  <2>3. Leave({call.token} \intersect DOMAIN token2lock_obj)
    BY <1>a, <2>1, DropEffect
  <2>4. /\ DOMAIN HeldLocks' = DOMAIN HeldLocks \ {call.token}
        /\ \A t \in DOMAIN HeldLocks' : HeldLocks'[t] = HeldLocks[t]
    BY <2>2, <2>3, HeldAt, HeldAtNext DEF Leave
  <2>5. Service!Release(call.token)
    BY <2>1, <2>2, <2>4, HeldAt DEF Service!Release
  <2>6. QED
    BY <2>2, <2>5 DEF Service!Next
<1>7. ASSUME NEW token \in Token, NEW path \in Path, LookUpToken(token, path)
      PROVE  Service!Next
  <2>1. Service!Reclaim
    BY <1>a, <1>7, PurgeReclaims DEF LookUpToken, CheckLockToken
  <2>2. QED
    BY <2>1 DEF Service!Next
<1>8. ASSUME Tick
      PROVE  Service!Next
  BY <1>8 DEF Tick, keeperVars, HeldLocks, Service!Tick, Service!Next
<1>9. CASE UNCHANGED vars
  BY <1>1, <1>9 DEF vars
<1>10. QED
  BY <1>1, <1>2, <1>3, <1>4, <1>5, <1>6, <1>7, <1>8, <1>9
     DEF Next, LockRequest, UnlockRequest, LookUp, DoLockRefused, DoUnlockRefused,
         DoLock, DoLockRefresh, DoUnlock, LookUpPath, keeperVars

\* The lock table and its handlers keep the promise of LockService: grants only
\* next to compatible locks, no live lock lost, a refreshed lock live.
THEOREM LockingImplementsService == Spec => ImplementsService
BY InitImplements, StepImplements, InvAlways, RefreshAlwaysLeavesLive, PTL
   DEF Spec, ImplementsService, Service!Spec
=============================================================================
