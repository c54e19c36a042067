------------------------- MODULE DAVIfHeaderProofs -------------------------
(***************************************************************************)
(* Two results about the check of the If header, for any headers,          *)
(* resources, paths, tokens and timeouts.                                  *)
(*                                                                         *)
(* A request that passes without suspending holds the tokens of all live   *)
(* locks on its resources.  The check reads the table several times while  *)
(* locks expire.  What makes it sound is that every live lock on a         *)
(* resource already collected is either among the tokens not yet checked   *)
(* off or named by the header for a resource it locks (Accounted), and     *)
(* that, unless another handler runs, the table only shrinks.  The locals  *)
(* of the check are well-formed, and no other handler holds anything while *)
(* it has the event loop (IfInv).                                          *)
(*                                                                         *)
(* And when nothing comes in between, the verdict is what the header says. *)
(* The three nested loops say it with two flags that are set, kept and     *)
(* reset on the way; Right reads them: what they claim of the conditions   *)
(* behind the loops is so (VInv).                                          *)
(***************************************************************************)
EXTENDS DAVIfHeader, DAVLockingProofs

Position == {"collect", "condition", "stat", "resume", "done", "raised"}

CheckState ==
    [at : Position, request_ifs : RequestIfs, res_paths : ResPaths, path : Nat,
     unchecked : SUBSET Token, checked : SUBSET Token,
     request_if : Nat, group : Nat, condition : Nat, locked : BOOLEAN, failed : BOOLEAN,
     etag : Etag \union {NoEtag}, ticked : BOOLEAN, overtaken : BOOLEAN]

\* The three indexes of the loops name a condition of the header.
Placed(ck) ==
    /\ ck.request_if \in DOMAIN ck.request_ifs
    /\ ck.group \in DOMAIN ck.request_ifs[ck.request_if].conditions
    /\ ck.condition \in DOMAIN ck.request_ifs[ck.request_if].conditions[ck.group]

\* The unexpired locks of a table that cover a path, at a time.
LiveOn(locks, time, path) ==
    {t \in DOMAIN locks : locks[t].expire > time /\ Covers(locks[t], path)}

\* The header submits the token for a resource that its lock, if it is there, covers.
Named(ck, locks, t) ==
    t \in DOMAIN locks =>
        \E i \in DOMAIN ck.request_ifs :
            /\ Covers(locks[t], ck.request_ifs[i].res_path)
            /\ \E g \in DOMAIN ck.request_ifs[i].conditions :
                 t \in TokensOf(ck.request_ifs[i].conditions[g])

Accounted(ck, paths, locks, time) ==
    /\ \A t \in ck.checked : Named(ck, locks, t)
    /\ \A i \in paths : \A t \in LiveOn(locks, time, ck.res_paths[i]) :
         t \in ck.unchecked \/ Named(ck, locks, t)

Collected(ck) == IF ck.at = "collect" THEN 1 .. ck.path - 1 ELSE DOMAIN ck.res_paths

\* What holds of a check between two of its steps.
Sound(ck) ==
    /\ ck \in CheckState
    /\ ck.at = "collect" =>
         /\ ck.path \in DOMAIN ck.res_paths
         /\ ck.request_if = 1 /\ ck.group = 1 /\ ck.condition = 1
    /\ ck.at \in {"condition", "stat", "resume"} => Placed(ck)
    /\ ck.at = "done" /\ ~ck.locked /\ ~ck.failed => ck.unchecked = {}

IfInv ==
    /\ Inv
    /\ etag \in [Path -> Etag \union {NoEtag}]
    /\ ~OthersRun => call = Idle
    /\ check # NoCheck =>
         /\ Sound(check)
         /\ ~check.overtaken =>
              Accounted(check, Collected(check), token2lock_obj, now)

-----------------------------------------------------------------------------
(* The loops *)

\* Every list and every resource of a header has a condition to begin with.
LEMMA HeadersAreFull ==
    ASSUME NEW ifs \in RequestIfs, NEW i \in DOMAIN ifs
    PROVE  /\ ifs \in Seq(RequestIf)
           /\ ifs[i].res_path \in Path
           /\ 1 \in DOMAIN ifs[i].conditions
           /\ \A g \in DOMAIN ifs[i].conditions : 1 \in DOMAIN ifs[i].conditions[g]
<1>1. /\ ifs \in Seq(RequestIf) /\ ifs[i].conditions # <<>>
      /\ \A g \in DOMAIN ifs[i].conditions : ifs[i].conditions[g] # <<>>
  BY IfAssumption
<1>2. ifs[i] \in RequestIf
  BY <1>1
<1>3. ifs[i].res_path \in Path /\ ifs[i].conditions \in Seq(Seq(Condition))
  BY <1>2 DEF RequestIf
<1>4. \A g \in DOMAIN ifs[i].conditions : ifs[i].conditions[g] \in Seq(Condition)
  BY <1>3
<1>5. QED
  BY <1>1, <1>3, <1>4

\* What the end of a list, a condition or a resource may leave of a check.
GoesOn(ck, next) ==
    /\ Sound(next)
    /\ next.at \in {"condition", "done"}
    /\ next.request_ifs = ck.request_ifs
    /\ next.res_paths = ck.res_paths
    /\ next.overtaken = ck.overtaken

\* The loops move, and nothing else of the check does.
Same(ck, next) ==
    /\ next.at = ck.at
    /\ next.checked = ck.checked
    /\ next.unchecked = ck.unchecked
    /\ next.request_ifs = ck.request_ifs
    /\ next.res_paths = ck.res_paths
    /\ next.overtaken = ck.overtaken

\* After a list whose conditions hold, the check goes on with nothing forgotten.
LEMMA PassedIfGoesOn ==
    ASSUME NEW ck \in CheckState, NEW locks, NEW time, ck.at \in {"collect", "condition"},
           ck.at = "condition" => Placed(ck),
           ck.at = "collect" => ck.request_ifs = <<>> /\ ck.request_if = 1
    PROVE  /\ GoesOn(ck, PassedIf(ck))
           /\ Accounted(ck, DOMAIN ck.res_paths, locks, time) =>
                Accounted(PassedIf(ck), DOMAIN ck.res_paths, locks, time)
<1> DEFINE left == [ck EXCEPT !.unchecked = @ \ ck.checked, !.checked = {}]
<1>1. /\ left \in CheckState /\ left.checked = {}
      /\ left.unchecked = ck.unchecked \ ck.checked
      /\ left.request_ifs = ck.request_ifs /\ left.res_paths = ck.res_paths
      /\ left.overtaken = ck.overtaken /\ left.at = ck.at
      /\ left.request_if = ck.request_if
  BY DEF CheckState
<1>2. Accounted(ck, DOMAIN ck.res_paths, locks, time) =>
        Accounted(left, DOMAIN ck.res_paths, locks, time)
  BY <1>1 DEF Accounted, Named
<1> HIDE DEF left
<1>3. CASE ck.request_if < Len(ck.request_ifs)
  <2> DEFINE next == [left EXCEPT !.request_if = @ + 1, !.group = 1, !.condition = 1]
  <2>1. PassedIf(ck) = next
    BY <1>3 DEF PassedIf, left
  <2>2. /\ next \in CheckState /\ next.at = left.at /\ next.checked = left.checked
        /\ next.unchecked = left.unchecked /\ next.request_ifs = left.request_ifs
        /\ next.res_paths = left.res_paths /\ next.overtaken = left.overtaken
        /\ next.request_if = ck.request_if + 1 /\ next.group = 1 /\ next.condition = 1
    <3> DEFINE first  == [left EXCEPT !.request_if = @ + 1]
               second == [first EXCEPT !.group = 1]
    <3>1. /\ first \in CheckState /\ first.request_if = ck.request_if + 1
          /\ Same(left, first)
      BY <1>1 DEF CheckState, Same
    <3>2. /\ second \in CheckState /\ second.request_if = first.request_if
          /\ second.group = 1 /\ Same(first, second)
      <4> HIDE DEF first
      <4>1. QED
        BY <3>1 DEF CheckState, Same
    <3>3. next = [second EXCEPT !.condition = 1]
      BY <1>1 DEF CheckState
    <3> HIDE DEF first, second, next
    <3>4. QED
      BY <3>1, <3>2, <3>3 DEF CheckState, Same
  <2> HIDE DEF next
  <2>3. ck.request_ifs \in RequestIfs /\ ck.request_ifs \in Seq(RequestIf)
    BY IfAssumption DEF CheckState
  <2>4. ck.at = "condition" /\ ck.request_if \in DOMAIN ck.request_ifs
    BY <1>3, <2>3 DEF Placed, CheckState
  <2>5. ck.request_if + 1 \in DOMAIN ck.request_ifs
    BY <1>3, <2>3, <2>4
  <2>6. Placed(next)
    BY <1>1, <2>2, <2>3, <2>5, HeadersAreFull DEF Placed
  <2>7. Accounted(left, DOMAIN ck.res_paths, locks, time) =>
          Accounted(next, DOMAIN ck.res_paths, locks, time)
    BY <1>1, <2>2 DEF Accounted, Named
  <2>8. GoesOn(ck, next)
    BY <1>1, <2>2, <2>4, <2>6 DEF GoesOn, Sound
  <2>9. QED
    BY <1>2, <2>1, <2>7, <2>8
<1>4. CASE ~(ck.request_if < Len(ck.request_ifs))
  <2> DEFINE next == Done([left EXCEPT !.locked = left.unchecked # {}])
  <2>1. PassedIf(ck) = next
    BY <1>4 DEF PassedIf, left
  <2>2. /\ next \in CheckState /\ next.at = "done" /\ next.checked = left.checked
        /\ next.unchecked = left.unchecked /\ next.request_ifs = left.request_ifs
        /\ next.res_paths = left.res_paths /\ next.overtaken = left.overtaken
        /\ next.locked = (left.unchecked # {})
    BY <1>1 DEF CheckState, Done, Position
  <2> HIDE DEF next
  <2>3. Accounted(left, DOMAIN ck.res_paths, locks, time) =>
          Accounted(next, DOMAIN ck.res_paths, locks, time)
    BY <1>1, <2>2 DEF Accounted, Named
  <2>4. GoesOn(ck, next)
    BY <1>1, <2>2 DEF GoesOn, Sound
  <2>5. QED
    BY <1>2, <2>1, <2>3, <2>4
<1>5. QED
  BY <1>3, <1>4

\* After one condition, whether it stops its list or not, likewise.
LEMMA EndOfConditionGoesOn ==
    ASSUME NEW ck \in CheckState, NEW stop \in BOOLEAN, NEW locks, NEW time,
           ck.at = "condition", Placed(ck)
    PROVE  /\ GoesOn(ck, EndOfCondition(ck, stop))
           /\ Accounted(ck, DOMAIN ck.res_paths, locks, time) =>
                Accounted(EndOfCondition(ck, stop), DOMAIN ck.res_paths, locks, time)
<1> DEFINE conditions == ck.request_ifs[ck.request_if].conditions
<1>0. /\ ck.request_ifs \in RequestIfs
      /\ ck.group \in Nat /\ ck.condition \in Nat
      /\ ck.request_if \in DOMAIN ck.request_ifs
      /\ ck.group \in DOMAIN conditions /\ ck.condition \in DOMAIN conditions[ck.group]
  BY DEF CheckState, Placed
<1>a. /\ conditions \in Seq(Seq(Condition)) /\ conditions[ck.group] \in Seq(Condition)
      /\ \A g \in DOMAIN conditions : 1 \in DOMAIN conditions[g]
  <2>1. ck.request_ifs[ck.request_if] \in RequestIf
    BY <1>0, IfAssumption
  <2>2. conditions \in Seq(Seq(Condition))
    BY <2>1 DEF RequestIf
  <2>3. QED
    BY <1>0, <2>2, HeadersAreFull
<1> HIDE DEF conditions
<1>1. CASE ~stop /\ ck.condition < Len(conditions[ck.group])
  <2> DEFINE next == [ck EXCEPT !.condition = @ + 1]
  <2>1. EndOfCondition(ck, stop) = next
    BY <1>1 DEF EndOfCondition, conditions
  <2>2. /\ next \in CheckState /\ next.at = "condition" /\ next.checked = ck.checked
        /\ next.unchecked = ck.unchecked /\ next.request_ifs = ck.request_ifs
        /\ next.res_paths = ck.res_paths /\ next.overtaken = ck.overtaken
        /\ next.request_if = ck.request_if /\ next.group = ck.group
        /\ next.condition = ck.condition + 1
    BY DEF CheckState
  <2> HIDE DEF next
  <2>3. ck.condition + 1 \in DOMAIN conditions[ck.group]
    BY <1>0, <1>a, <1>1
  <2>4. Placed(next)
    BY <1>0, <2>2, <2>3 DEF Placed, conditions
  <2>5. Accounted(ck, DOMAIN ck.res_paths, locks, time) =>
          Accounted(next, DOMAIN ck.res_paths, locks, time)
    BY <2>2 DEF Accounted, Named
  <2>6. QED
    BY <2>1, <2>2, <2>4, <2>5 DEF GoesOn, Sound
<1>2. CASE ~(~stop /\ ck.condition < Len(conditions[ck.group]))
  <2>0. EndOfCondition(ck, stop) = EndOfGroup(ck)
    BY <1>2 DEF EndOfCondition, conditions
  <2>1. CASE ~ck.locked /\ ~ck.failed
    <3>1. EndOfGroup(ck) = PassedIf(ck)
      BY <2>1 DEF EndOfGroup
    <3>2. QED
      BY <2>0, <3>1, PassedIfGoesOn, SMTT(30)
  <2>2. CASE /\ ck.locked \/ ck.failed
             /\ ck.group < Len(conditions)
    <3> DEFINE next == [ck EXCEPT !.group = @ + 1, !.condition = 1,
                                  !.locked = FALSE, !.failed = FALSE]
    <3>1. EndOfGroup(ck) = next
      BY <2>2 DEF EndOfGroup, conditions
    <3>2. /\ next \in CheckState /\ next.at = "condition" /\ next.checked = ck.checked
          /\ next.unchecked = ck.unchecked /\ next.request_ifs = ck.request_ifs
          /\ next.res_paths = ck.res_paths /\ next.overtaken = ck.overtaken
          /\ next.request_if = ck.request_if /\ next.group = ck.group + 1
          /\ next.condition = 1
      <4> DEFINE first  == [ck EXCEPT !.group = @ + 1]
                 second == [first EXCEPT !.condition = 1]
                 third  == [second EXCEPT !.locked = FALSE]
      <4>1. /\ first \in CheckState /\ first.group = ck.group + 1
            /\ first.request_if = ck.request_if /\ Same(ck, first)
        BY DEF CheckState, Same
      <4>2. /\ second \in CheckState /\ second.group = first.group
            /\ second.request_if = first.request_if
            /\ second.condition = 1 /\ Same(first, second)
        <5> HIDE DEF first
        <5>1. QED
          BY <4>1 DEF CheckState, Same
      <4>3. /\ third \in CheckState /\ third.group = second.group
            /\ third.request_if = second.request_if
            /\ third.condition = second.condition /\ Same(second, third)
        <5> HIDE DEF second
        <5>1. QED
          BY <4>2 DEF CheckState, Same
      <4>4. next = [third EXCEPT !.failed = FALSE]
        BY DEF CheckState
      <4> HIDE DEF first, second, third, next
      <4>5. QED
        BY <4>1, <4>2, <4>3, <4>4 DEF CheckState, Same
    <3> HIDE DEF next
    <3>3. ck.group + 1 \in DOMAIN conditions
      BY <1>0, <1>a, <2>2
    <3>4. Placed(next)
      BY <1>0, <1>a, <3>2, <3>3 DEF Placed, conditions
    <3>5. Accounted(ck, DOMAIN ck.res_paths, locks, time) =>
            Accounted(next, DOMAIN ck.res_paths, locks, time)
      BY <3>2 DEF Accounted, Named
    <3>6. QED
      BY <2>0, <3>1, <3>2, <3>4, <3>5 DEF GoesOn, Sound
  <2>3. CASE /\ ck.locked \/ ck.failed
             /\ ~(ck.group < Len(conditions))
    <3>1. EndOfGroup(ck) = Done(ck)
      BY <2>3 DEF EndOfGroup, conditions
    <3>2. /\ Done(ck) \in CheckState /\ Done(ck).at = "done" /\ Done(ck).checked = ck.checked
          /\ Done(ck).unchecked = ck.unchecked /\ Done(ck).request_ifs = ck.request_ifs
          /\ Done(ck).res_paths = ck.res_paths /\ Done(ck).overtaken = ck.overtaken
          /\ Done(ck).locked = ck.locked /\ Done(ck).failed = ck.failed
      BY DEF CheckState, Done, Position
    <3>3. Accounted(ck, DOMAIN ck.res_paths, locks, time) =>
            Accounted(Done(ck), DOMAIN ck.res_paths, locks, time)
      BY <3>2 DEF Accounted, Named
    <3>4. QED
      BY <2>0, <2>3, <3>1, <3>2, <3>3 DEF GoesOn, Sound
  <2>4. QED
    BY <2>1, <2>2, <2>3
<1>3. QED
  BY <1>1, <1>2
-----------------------------------------------------------------------------
(* The table *)

\* Nothing has to be accounted for again when locks leave the table or expire.
LEMMA AccountedStays ==
    ASSUME NEW ck, NEW paths, NEW locks, NEW newlocks, NEW time \in Int, NEW newtime \in Int,
           time <= newtime, DOMAIN newlocks \subseteq DOMAIN locks,
           \A t \in DOMAIN newlocks : newlocks[t] = locks[t] /\ locks[t].expire \in Int,
           Accounted(ck, paths, locks, time)
    PROVE  Accounted(ck, paths, newlocks, newtime)
<1>1. \A t : Named(ck, locks, t) => Named(ck, newlocks, t)
  BY DEF Named
<1>2. \A path : LiveOn(newlocks, newtime, path) \subseteq LiveOn(locks, time, path)
  BY DEF LiveOn
<1>3. QED
  BY <1>1, <1>2 DEF Accounted

\* What the keeper returns for a path are the live locks on it.
LEMMA ListIsLive ==
    ASSUME KeeperInv, NEW path \in Path
    PROVE  LockObjsFromPath(path) = LiveOn(token2lock_obj, now, path)
<1>1. LockObjsFromPath(path) = Covering(path) \ ExpiredFrom(path)
  BY ListIsComplete
<1>2. Covering(path) \subseteq EntriesFrom(path)
  BY CoveringIsReached
<1>3. \A t \in DOMAIN token2lock_obj : token2lock_obj[t].expire \in Int
  BY DEF KeeperInv, KeeperTypeOK, LockObj
<1>4. now \in Int
  BY DEF KeeperInv, KeeperTypeOK
<1>5. QED
  BY <1>1, <1>2, <1>3, <1>4 DEF Covering, IsLockingPath, ExpiredFrom, IsExpired, LiveOn

\* A lookup that purges a part of the table keeps Inv, and what is accounted for.
LEMMA LookUpKeeps ==
    ASSUME Inv, call = Idle, NEW T \in SUBSET DOMAIN token2lock_obj, Drop(T),
           UNCHANGED <<now, read_only, call, reply>>,
           NEW ck, NEW paths
    PROVE  /\ Inv'
           /\ Accounted(ck, paths, token2lock_obj, now) =>
                Accounted(ck, paths, token2lock_obj', now')
<1>1. KeeperInv
  BY DEF Inv
<1>2. KeeperInv' /\ Leave(T)
  BY <1>1, DropKeeps, DropEffect
<1>3. TypeOK' /\ WhatIsHeldStands'
  BY <1>2 DEF Inv, TypeOK, KeeperInv, WhatIsHeldStands, Idle
<1>4. \A t \in DOMAIN token2lock_obj : token2lock_obj[t].expire \in Int
  BY <1>1 DEF KeeperInv, KeeperTypeOK, LockObj
<1>5. now \in Int
  BY <1>1 DEF KeeperInv, KeeperTypeOK
<1>6. QED
  BY <1>2, <1>3, <1>4, <1>5, AccountedStays DEF Inv, Leave

-----------------------------------------------------------------------------
\* Before the first request the invariant holds.
LEMMA InitIfInv == InitCheck => IfInv
BY InitInv DEF InitCheck, IfInv, OthersRun, NoCheck

\* The steps of a check that call the keeper once and then go on in the loops.
LEMMA StepKeeps ==
    ASSUME IfInv, ~OthersRun, check.at \in {"collect", "condition"},
           NEW T \in SUBSET DOMAIN token2lock_obj, Drop(T) \/ UNCHANGED keeperVars,
           UNCHANGED <<now, read_only, call, reply, etag>>,
           NEW ck, ck.overtaken = check.overtaken,
           GoesOn(ck, check'), ck.res_paths = check.res_paths,
           ~check.overtaken => Accounted(check', DOMAIN ck.res_paths, token2lock_obj, now)
    PROVE  IfInv'
<1>1. Inv /\ call = Idle
  BY DEF IfInv
<1>2. CASE Drop(T)
  <2>1. /\ Inv'
        /\ Accounted(check', DOMAIN ck.res_paths, token2lock_obj, now) =>
             Accounted(check', DOMAIN ck.res_paths, token2lock_obj', now')
    BY <1>1, <1>2, LookUpKeeps
  <2>2. QED
    BY <1>1, <2>1 DEF IfInv, GoesOn, Collected
<1>3. CASE UNCHANGED keeperVars
  <2>1. Inv'
    BY <1>1, <1>3, NextInv DEF vars, keeperVars
  <2>2. QED
    BY <1>1, <1>3, <2>1 DEF IfInv, GoesOn, Collected, keeperVars
<1>4. QED
  BY <1>2, <1>3

\* Every step, of the check or of others, preserves the invariant.
LEMMA NextIfInv == IfInv /\ [NextCheck]_checkVars => IfInv'
<1> SUFFICES ASSUME IfInv, [NextCheck]_checkVars PROVE IfInv'
  OBVIOUS
<1>a. Inv /\ KeeperInv /\ (~OthersRun => call = Idle)
  BY DEF IfInv, Inv
<1>b. check # NoCheck => check \in CheckState /\ Sound(check)
  BY DEF IfInv, Sound
<1>c. check \in CheckState => check # NoCheck
  BY DEF CheckState, NoCheck, Position
<1>1. ASSUME NEW ifs \in RequestIfs, NEW res_paths \in ResPaths, Begin(ifs, res_paths)
      PROVE  IfInv'
  <2>1. /\ call = Idle /\ UNCHANGED <<vars, etag>>
        /\ check' = [at |-> "collect", request_ifs |-> ifs, res_paths |-> res_paths,
                     path |-> 1, unchecked |-> {}, checked |-> {}, request_if |-> 1,
                     group |-> 1, condition |-> 1, locked |-> FALSE, failed |-> FALSE,
                     etag |-> NoEtag, ticked |-> FALSE, overtaken |-> FALSE]
    BY <1>1 DEF Begin, NoneRunning
  <2>2. Inv' /\ call' = Idle
    BY <1>a, <2>1, NextInv DEF vars
  <2>3. 1 \in DOMAIN res_paths
    BY IfAssumption
  <2>4. check' \in CheckState
    BY <2>1 DEF CheckState, Position
  <2>5. Sound(check)'
    BY <2>1, <2>3, <2>4 DEF Sound
  <2>6. Accounted(check', Collected(check'), token2lock_obj', now')
    BY <2>1 DEF Accounted, Collected
  <2>7. QED
    BY <2>1, <2>2, <2>5, <2>6 DEF IfInv
<1>2. ASSUME Collect
      PROVE  IfInv'
  <2> DEFINE path == check.res_paths[check.path]
             ck   == [check EXCEPT !.unchecked = @ \union LockObjsFromPath(path)]
             all  == DOMAIN check.res_paths
  <2>1. /\ check.at = "collect" /\ check # NoCheck /\ ~OthersRun
        /\ Drop(ExpiredFrom(path)) /\ UNCHANGED <<now, read_only, call, reply, etag>>
        /\ check' = IF check.path < Len(check.res_paths)
                    THEN [ck EXCEPT !.path = @ + 1]
                    ELSE IF check.request_ifs # <<>>
                         THEN [ck EXCEPT !.at = "condition"]
                         ELSE PassedIf(ck)
    BY <1>2 DEF Collect, GetLockObjsFromPath, NoCheck, OthersRun, Suspended
  <2>2. /\ check \in CheckState /\ check.path \in all
        /\ check.request_if = 1 /\ check.group = 1 /\ check.condition = 1
    BY <1>b, <2>1 DEF Sound
  <2>3. check.res_paths \in Seq(Path) /\ check.request_ifs \in RequestIfs
    BY <2>2, IfAssumption DEF CheckState
  <2>4. path \in Path
    BY <2>2, <2>3
  <2>5. /\ LockObjsFromPath(path) \in SUBSET Token
        /\ ExpiredFrom(path) \in SUBSET DOMAIN token2lock_obj
    <3>1. DOMAIN token2lock_obj \subseteq Token
      BY <1>a DEF KeeperInv, KeeperTypeOK
    <3>2. QED
      BY <1>a, <2>4, <3>1, EntriesAreLocks
  <2>6. /\ ck \in CheckState
        /\ ck.unchecked = check.unchecked \union LockObjsFromPath(path)
        /\ ck.at = "collect" /\ ck.checked = check.checked
        /\ ck.request_ifs = check.request_ifs /\ ck.res_paths = check.res_paths
        /\ ck.overtaken = check.overtaken /\ ck.path = check.path
        /\ ck.request_if = 1 /\ ck.group = 1 /\ ck.condition = 1
    <3> HIDE DEF path
    <3>1. QED
      BY <2>1, <2>2, <2>5 DEF CheckState, Same
  <2>7. ~check.overtaken => Accounted(ck, 1 .. check.path, token2lock_obj, now)
    <3>1. SUFFICES ASSUME ~check.overtaken
                   PROVE  Accounted(ck, 1 .. check.path, token2lock_obj, now)
      OBVIOUS
    <3>2. Accounted(check, 1 .. check.path - 1, token2lock_obj, now)
      BY <2>1, <3>1 DEF IfInv, Collected
    <3>3. LockObjsFromPath(path) = LiveOn(token2lock_obj, now, path)
      BY <1>a, <2>4, ListIsLive
    <3>4. \A i \in 1 .. check.path : i \in 1 .. check.path - 1 \/ i = check.path
      BY <2>2, <2>3
    <3> HIDE DEF ck
    <3>5. QED
      BY <2>6, <3>2, <3>3, <3>4 DEF Accounted, Named
  <2> HIDE DEF ck
  <2>8. CASE check.path < Len(check.res_paths)
    <3>1. /\ check' \in CheckState /\ Same(ck, check') /\ check'.path = check.path + 1
          /\ check'.request_if = 1 /\ check'.group = 1 /\ check'.condition = 1
      BY <2>1, <2>6, <2>8 DEF CheckState, Same
    <3>2. check'.path \in DOMAIN check'.res_paths /\ 1 .. check'.path - 1 = 1 .. check.path
      BY <2>2, <2>3, <2>6, <2>8, <3>1 DEF Same
    <3>3. Sound(check)'
      BY <2>6, <3>1, <3>2 DEF Sound, Same
    <3>4. /\ Inv'
          /\ Accounted(ck, 1 .. check.path, token2lock_obj, now) =>
               Accounted(ck, 1 .. check.path, token2lock_obj', now')
      BY <1>a, <2>1, <2>5, LookUpKeeps
    <3>5. Accounted(ck, 1 .. check.path, token2lock_obj', now') =>
            Accounted(check', Collected(check'), token2lock_obj', now')
      BY <2>6, <3>1, <3>2 DEF Accounted, Named, Collected, Same
    <3>6. QED
      BY <1>a, <2>1, <2>6, <2>7, <3>1, <3>3, <3>4, <3>5 DEF IfInv, Same
  <2>9. ASSUME ~(check.path < Len(check.res_paths))
        PROVE  all = 1 .. check.path
    BY <2>2, <2>3, <2>9
  <2>10. CASE ~(check.path < Len(check.res_paths)) /\ check.request_ifs # <<>>
    <3>1. check' = [ck EXCEPT !.at = "condition"]
      BY <2>1, <2>10
    <3>2. /\ check' \in CheckState /\ check'.at = "condition"
          /\ check'.checked = ck.checked /\ check'.unchecked = ck.unchecked
          /\ check'.request_ifs = ck.request_ifs /\ check'.res_paths = ck.res_paths
          /\ check'.overtaken = ck.overtaken
          /\ check'.request_if = 1 /\ check'.group = 1 /\ check'.condition = 1
      BY <2>6, <3>1 DEF CheckState, Position
    <3>3. 1 \in DOMAIN check.request_ifs
      BY <2>3, <2>10, IfAssumption
    <3>4. Placed(check)'
      BY <2>3, <2>6, <3>2, <3>3, HeadersAreFull DEF Placed
    <3>5. GoesOn(ck, check')
      BY <3>2, <3>4 DEF GoesOn, Sound
    <3>6. Accounted(ck, all, token2lock_obj, now) =>
            Accounted(check', all, token2lock_obj, now)
      BY <3>2 DEF Accounted, Named
    <3>7. QED
      BY <2>1, <2>5, <2>6, <2>7, <2>9, <2>10, <3>5, <3>6, StepKeeps
  <2>11. CASE ~(check.path < Len(check.res_paths)) /\ check.request_ifs = <<>>
    <3>1. check' = PassedIf(ck)
      BY <2>1, <2>11
    <3>2. /\ GoesOn(ck, check')
          /\ Accounted(ck, all, token2lock_obj, now) =>
               Accounted(check', all, token2lock_obj, now)
      BY <2>6, <2>11, <3>1, PassedIfGoesOn, SMTT(30)
    <3>3. QED
      BY <2>1, <2>5, <2>6, <2>7, <2>9, <2>11, <3>2, StepKeeps
  <2>12. QED
    BY <2>8, <2>10, <2>11
\* A condition: what the handler takes from the keeper is `add` to the tokens checked.
<1>d. ASSUME check.at = "condition"
      PROVE  /\ check \in CheckState /\ Placed(check) /\ ~OthersRun
             /\ CurrentIf.res_path \in Path
             /\ ~check.overtaken =>
                  Accounted(check, DOMAIN check.res_paths, token2lock_obj, now)
  <2>1. check \in CheckState /\ Placed(check) /\ check # NoCheck
    BY <1>b, <1>d DEF Sound, NoCheck
  <2>2. ~OthersRun
    BY <1>d, <2>1 DEF OthersRun, Suspended
  <2>3. check.request_ifs \in RequestIfs /\ check.request_if \in DOMAIN check.request_ifs
    BY <2>1 DEF CheckState, Placed
  <2>4. CurrentIf.res_path \in Path
    BY <2>3, HeadersAreFull DEF CurrentIf
  <2>5. QED
    BY <1>d, <2>1, <2>2, <2>4 DEF IfInv, Collected
<1>e. ASSUME check.at = "condition", NEW T \in SUBSET DOMAIN token2lock_obj,
             Drop(T) \/ UNCHANGED keeperVars,
             UNCHANGED <<now, read_only, call, reply, etag>>,
             NEW ck \in CheckState, NEW stop \in BOOLEAN, check' = EndOfCondition(ck, stop),
             ck.at = "condition", ck.request_ifs = check.request_ifs,
             ck.res_paths = check.res_paths, ck.request_if = check.request_if,
             ck.group = check.group, ck.condition = check.condition,
             ck.unchecked = check.unchecked, ck.overtaken = check.overtaken,
             \A t \in ck.checked : t \in check.checked \/ Named(check, token2lock_obj, t)
      PROVE  IfInv'
  <2>1. Placed(ck)
    BY <1>d, <1>e DEF Placed
  <2>2. Accounted(check, DOMAIN check.res_paths, token2lock_obj, now) =>
          Accounted(ck, DOMAIN ck.res_paths, token2lock_obj, now)
    BY <1>e DEF Accounted, Named
  <2>3. /\ GoesOn(ck, check')
        /\ Accounted(ck, DOMAIN ck.res_paths, token2lock_obj, now) =>
             Accounted(check', DOMAIN ck.res_paths, token2lock_obj, now)
    BY <1>e, <2>1, EndOfConditionGoesOn
  <2>4. QED
    BY <1>d, <1>e, <2>2, <2>3, StepKeeps
<1>3. ASSUME CheckNoLock
      PROVE  IfInv'
  <2> DEFINE none == LockObjsFromPath(CurrentIf.res_path) = {}
  <2>1. check.at = "condition" /\ UNCHANGED <<now, read_only, call, reply, etag>>
    BY <1>3 DEF CheckNoLock
  <2>2. check \in CheckState /\ none \in BOOLEAN
    BY <1>d, <2>1
  <2>3. CASE CurrentCondition.is_not
    <3> DEFINE ck == [check EXCEPT !.locked = @ \/ none]
    <3>1. /\ Drop(ExpiredFrom(CurrentIf.res_path))
          /\ check' = EndOfCondition(ck, none)
      BY <1>3, <2>3 DEF CheckNoLock, GetLockObjsFromPath
    <3>2. ExpiredFrom(CurrentIf.res_path) \in SUBSET DOMAIN token2lock_obj
      BY <1>a, <1>d, <2>1, EntriesAreLocks
    <3> HIDE DEF none
    <3>3. /\ ck \in CheckState /\ ck.request_if = check.request_if
          /\ ck.group = check.group /\ ck.condition = check.condition /\ Same(check, ck)
      BY <2>2 DEF CheckState, Same
    <3> HIDE DEF ck
    <3>4. QED
      BY <1>e, <2>1, <2>2, <3>1, <3>2, <3>3 DEF Same
  <2>4. CASE ~CurrentCondition.is_not
    <3> DEFINE ck == [check EXCEPT !.failed = TRUE]
    <3>1. UNCHANGED keeperVars /\ check' = EndOfCondition(ck, TRUE)
      BY <1>3, <2>4 DEF CheckNoLock
    <3>2. /\ ck \in CheckState /\ ck.request_if = check.request_if
          /\ ck.group = check.group /\ ck.condition = check.condition /\ Same(check, ck)
      BY <2>2 DEF CheckState, Same
    <3> HIDE DEF ck
    <3>3. QED
      BY <1>e, <2>1, <3>1, <3>2 DEF Same
  <2>5. QED
    BY <2>3, <2>4
<1>4. ASSUME CheckNotToken
      PROVE  IfInv'
  <2>1. check.at = "condition" /\ UNCHANGED <<now, read_only, call, reply, etag>>
    BY <1>4 DEF CheckNotToken
  <2>2. check \in CheckState
    BY <1>d, <2>1
  <2>3. CASE CurrentCondition.data = BadToken
    <3> DEFINE ck == [check EXCEPT !.failed = TRUE]
    <3>1. UNCHANGED keeperVars /\ check' = EndOfCondition(ck, TRUE)
      BY <1>4, <2>3 DEF CheckNotToken
    <3>2. /\ ck \in CheckState /\ ck.request_if = check.request_if
          /\ ck.group = check.group /\ ck.condition = check.condition /\ Same(check, ck)
      BY <2>2 DEF CheckState, Same
    <3> HIDE DEF ck
    <3>3. QED
      BY <1>e, <2>1, <3>1, <3>2 DEF Same
  <2>4. CASE CurrentCondition.data # BadToken
    <3> DEFINE hit == CurrentCondition.data \in LockObjsFromPath(CurrentIf.res_path)
               ck  == [check EXCEPT !.locked = @ \/ hit]
    <3>1. /\ Drop(ExpiredFrom(CurrentIf.res_path))
          /\ check' = EndOfCondition(ck, FALSE)
      BY <1>4, <2>4 DEF CheckNotToken, GetLockObjsFromPath
    <3>2. ExpiredFrom(CurrentIf.res_path) \in SUBSET DOMAIN token2lock_obj
      BY <1>a, <1>d, <2>1, EntriesAreLocks
    <3>3. hit \in BOOLEAN
      OBVIOUS
    <3> HIDE DEF hit
    <3>4. /\ ck \in CheckState /\ ck.request_if = check.request_if
          /\ ck.group = check.group /\ ck.condition = check.condition /\ Same(check, ck)
      BY <2>2, <3>3 DEF CheckState, Same
    <3> HIDE DEF ck
    <3>5. QED
      BY <1>e, <2>1, <3>1, <3>2, <3>4 DEF Same
  <2>5. QED
    BY <2>3, <2>4
<1>5. ASSUME CheckToken
      PROVE  IfInv'
  <2> DEFINE token == CurrentCondition.data
             path  == CurrentIf.res_path
             gone  == {t \in {token} \intersect DOMAIN token2lock_obj :
                         IsLockingPath(t, path) /\ IsExpired(t)}
  <2>1. /\ check.at = "condition" /\ UNCHANGED <<now, read_only, call, reply, etag>>
        /\ CurrentCondition.type = "TOKEN" /\ ~CurrentCondition.is_not
    BY <1>5 DEF CheckToken
  <2>2. check \in CheckState
    BY <1>d, <2>1
  <2>3. CASE token = BadToken
    <3> DEFINE ck == [check EXCEPT !.failed = TRUE]
    <3>1. UNCHANGED keeperVars /\ check' = EndOfCondition(ck, TRUE)
      BY <1>5, <2>3 DEF CheckToken
    <3>2. /\ ck \in CheckState /\ ck.request_if = check.request_if
          /\ ck.group = check.group /\ ck.condition = check.condition /\ Same(check, ck)
      BY <2>2 DEF CheckState, Same
    <3> HIDE DEF ck
    <3>3. QED
      BY <1>e, <2>1, <3>1, <3>2 DEF Same
  <2>4. CASE token # BadToken /\ IsValidLockToken(token, path)
    <3> DEFINE ck == [check EXCEPT !.checked = @ \union {token}]
    <3>1. Drop(gone) /\ check' = EndOfCondition(ck, FALSE)
      BY <1>5, <2>4 DEF CheckToken, CheckLockToken
    <3>2. /\ token \in DOMAIN token2lock_obj
          /\ Covers(token2lock_obj[token], path)
      BY <2>4 DEF IsValidLockToken, Found, IsLockingPath
    <3>3. token \in Token
      BY <1>a, <3>2 DEF KeeperInv, KeeperTypeOK
    <3>4. token \in TokensOf(check.request_ifs[check.request_if].conditions[check.group])
      BY <1>d, <2>1 DEF TokensOf, Placed, CurrentCondition, CurrentIf
    <3>5. Named(check, token2lock_obj, token)
      BY <1>d, <2>1, <3>2, <3>4 DEF Named, Placed, CurrentIf
    <3>6. gone \in SUBSET DOMAIN token2lock_obj
      OBVIOUS
    <3> HIDE DEF token, gone
    <3>7. /\ ck \in CheckState /\ ck.request_if = check.request_if
          /\ ck.group = check.group /\ ck.condition = check.condition
          /\ ck.at = check.at /\ ck.request_ifs = check.request_ifs
          /\ ck.res_paths = check.res_paths /\ ck.unchecked = check.unchecked
          /\ ck.overtaken = check.overtaken
          /\ ck.checked = check.checked \union {token}
      BY <2>2, <3>3 DEF CheckState
    <3> HIDE DEF ck
    <3>8. \A t \in ck.checked : t \in check.checked \/ Named(check, token2lock_obj, t)
      BY <3>5, <3>7
    <3>9. QED
      BY <1>e, <2>1, <3>1, <3>6, <3>7, <3>8
  <2>5. CASE token # BadToken /\ ~IsValidLockToken(token, path)
    <3> DEFINE ck == [check EXCEPT !.locked = TRUE]
    <3>1. Drop(gone) /\ check' = EndOfCondition(ck, TRUE)
      BY <1>5, <2>5 DEF CheckToken, CheckLockToken
    <3>2. gone \in SUBSET DOMAIN token2lock_obj
      OBVIOUS
    <3>3. /\ ck \in CheckState /\ ck.request_if = check.request_if
          /\ ck.group = check.group /\ ck.condition = check.condition /\ Same(check, ck)
      BY <2>2 DEF CheckState, Same
    <3> HIDE DEF ck, gone
    <3>4. QED
      BY <1>e, <2>1, <3>1, <3>2, <3>3 DEF Same
  <2>6. QED
    BY <2>3, <2>4, <2>5
\* The steps that leave the table alone while the handler is in its check, or wait.
<1>f. ASSUME UNCHANGED vars, check # NoCheck, check.at # "collect", check'.at # "collect",
             check' \in CheckState, Same([check EXCEPT !.at = check'.at], check')
      PROVE  ~check'.overtaken =>
                 Accounted(check', Collected(check'), token2lock_obj', now')
  <2>1. check \in CheckState
    BY <1>b, <1>f
  <2>2. /\ check'.checked = check.checked /\ check'.unchecked = check.unchecked
        /\ check'.request_ifs = check.request_ifs /\ check'.res_paths = check.res_paths
        /\ check'.overtaken = check.overtaken
    BY <1>f, <2>1 DEF Same, CheckState
  <2>3. QED
    BY <1>f, <2>2 DEF IfInv, Accounted, Named, Collected, vars
<1>g. UNCHANGED vars => Inv'
  BY <1>a, NextInv
<1>6. ASSUME CheckEtag
      PROVE  IfInv'
  <2>1. /\ check.at = "condition" /\ UNCHANGED <<vars, etag>>
        /\ check' = [check EXCEPT !.at = "stat"]
    BY <1>6 DEF CheckEtag
  <2>2. check \in CheckState /\ Placed(check) /\ check # NoCheck
    BY <1>d, <1>c, <2>1
  <2>3. /\ check' \in CheckState /\ check'.at = "stat"
        /\ check'.request_if = check.request_if /\ check'.group = check.group
        /\ check'.condition = check.condition
        /\ Same([check EXCEPT !.at = check'.at], check')
    BY <2>1, <2>2 DEF CheckState, Position, Same
  <2>4. Sound(check)'
    BY <2>2, <2>3 DEF Sound, Placed, Same, CheckState
  <2>5. ~OthersRun' => call' = Idle
    BY <2>3 DEF OthersRun, Suspended
  <2>6. QED
    BY <1>f, <1>g, <2>1, <2>2, <2>3, <2>4, <2>5 DEF IfInv
<1>7. ASSUME StatEtag
      PROVE  IfInv'
  <2>1. /\ check.at = "stat" /\ UNCHANGED <<vars, etag>>
        /\ check' = [check EXCEPT !.at = "resume", !.etag = etag[CurrentIf.res_path]]
    BY <1>7 DEF StatEtag
  <2>2. check \in CheckState /\ Placed(check) /\ check # NoCheck
    BY <1>b, <2>1 DEF Sound, NoCheck
  <2>3. check.request_ifs \in RequestIfs /\ check.request_if \in DOMAIN check.request_ifs
    BY <2>2 DEF CheckState, Placed
  <2>4. etag[CurrentIf.res_path] \in Etag \union {NoEtag}
    BY <2>3, HeadersAreFull DEF CurrentIf, IfInv
  <2>5. /\ check' \in CheckState /\ check'.at = "resume"
        /\ check'.request_if = check.request_if /\ check'.group = check.group
        /\ check'.condition = check.condition
        /\ Same([check EXCEPT !.at = check'.at], check')
    BY <2>1, <2>2, <2>4 DEF CheckState, Position, Same
  <2>6. Sound(check)'
    BY <2>2, <2>5 DEF Sound, Placed, Same, CheckState
  <2>7. ~OthersRun' => call' = Idle
    BY <2>5 DEF OthersRun, Suspended
  <2>8. QED
    BY <1>f, <1>g, <2>1, <2>2, <2>5, <2>6, <2>7 DEF IfInv
<1>8. ASSUME ResumeEtag
      PROVE  IfInv'
  <2> DEFINE failed == (check.etag = CurrentCondition.data) = CurrentCondition.is_not
             ck     == [check EXCEPT !.at = "condition", !.etag = NoEtag, !.failed = failed]
  <2>1. /\ check.at = "resume" /\ UNCHANGED <<vars, etag>> /\ call = Idle
        /\ check' = IF check.etag = NoEtag
                    THEN [check EXCEPT !.at = "raised"]
                    ELSE EndOfCondition(ck, failed)
    BY <1>8 DEF ResumeEtag, NoneRunning
  <2>2. check \in CheckState /\ Placed(check) /\ check # NoCheck
    BY <1>b, <2>1 DEF Sound, NoCheck
  <2>3. call' = Idle
    BY <2>1 DEF vars
  <2>4. CASE check.etag = NoEtag
    <3>1. /\ check' \in CheckState /\ check'.at = "raised"
          /\ Same([check EXCEPT !.at = check'.at], check')
      BY <2>1, <2>2, <2>4 DEF CheckState, Position, Same
    <3>2. Sound(check)'
      BY <3>1 DEF Sound
    <3>3. QED
      BY <1>f, <1>g, <2>1, <2>2, <2>3, <3>1, <3>2 DEF IfInv
  <2>5. CASE check.etag # NoEtag
    <3>1. failed \in BOOLEAN
      OBVIOUS
    <3> HIDE DEF failed
    <3>2. /\ ck \in CheckState /\ ck.at = "condition" /\ ck.request_if = check.request_if
          /\ ck.group = check.group /\ ck.condition = check.condition
          /\ ck.checked = check.checked /\ ck.unchecked = check.unchecked
          /\ ck.request_ifs = check.request_ifs /\ ck.res_paths = check.res_paths
          /\ ck.overtaken = check.overtaken
      BY <2>2, <3>1 DEF CheckState, Position
    <3> HIDE DEF ck
    <3>3. Placed(ck)
      BY <2>2, <3>2 DEF Placed
    <3>4. /\ GoesOn(ck, check')
          /\ Accounted(ck, DOMAIN ck.res_paths, token2lock_obj, now) =>
               Accounted(check', DOMAIN ck.res_paths, token2lock_obj, now)
      BY <2>1, <2>5, <3>1, <3>2, <3>3, EndOfConditionGoesOn
    <3>5. ~check.overtaken => Accounted(check, DOMAIN check.res_paths, token2lock_obj, now)
      BY <2>1, <2>2 DEF IfInv, Collected
    <3>6. ~check.overtaken => Accounted(ck, DOMAIN ck.res_paths, token2lock_obj, now)
      BY <3>2, <3>5 DEF Accounted, Named
    <3>7. QED
      BY <1>g, <2>1, <2>3, <3>2, <3>4, <3>6 DEF IfInv, GoesOn, Collected, vars
  <2>6. QED
    BY <2>4, <2>5
<1>9. ASSUME Answer
      PROVE  IfInv'
  <2>1. /\ check' = NoCheck /\ UNCHANGED vars
        /\ UNCHANGED etag \/ \E e \in Etag : etag' = [etag EXCEPT ![check.res_paths[1]] = e]
    BY <1>9 DEF Answer
  <2>2. etag' \in [Path -> Etag \union {NoEtag}]
    BY <2>1 DEF IfInv
  <2>3. QED
    BY <1>g, <2>1, <2>2 DEF IfInv, OthersRun
<1>h. ASSUME Inv', Suspended, check' = [check EXCEPT !.overtaken = TRUE],
             etag' \in [Path -> Etag \union {NoEtag}]
      PROVE  IfInv'
  <2>1. check \in CheckState /\ Placed(check)
    BY <1>b, <1>h DEF Sound, Suspended, NoCheck
  <2>2. /\ check' \in CheckState /\ check'.at = check.at /\ check'.overtaken = TRUE
        /\ check'.request_ifs = check.request_ifs /\ check'.request_if = check.request_if
        /\ check'.group = check.group /\ check'.condition = check.condition
    BY <1>h, <2>1 DEF CheckState
  <2>3. Sound(check)' /\ OthersRun'
    BY <1>h, <2>1, <2>2 DEF Sound, Placed, OthersRun, Suspended
  <2>4. QED
    BY <1>h, <2>2, <2>3 DEF IfInv
<1>10. ASSUME OtherHandler
       PROVE  IfInv'
  <2>1. /\ OthersRun /\ UNCHANGED etag /\ Next
        /\ check' = IF Suspended THEN [check EXCEPT !.overtaken = TRUE] ELSE check
    BY <1>10 DEF OtherHandler, Next
  <2>2. Inv' /\ etag' \in [Path -> Etag \union {NoEtag}]
    BY <1>a, <2>1, NextInv DEF IfInv
  <2>3. CASE ~Suspended
    BY <2>1, <2>2, <2>3 DEF IfInv, OthersRun
  <2>4. QED
    BY <1>h, <2>1, <2>2, <2>3
<1>11. ASSUME OtherChange
       PROVE  IfInv'
  <2>1. /\ Suspended /\ UNCHANGED vars
        /\ check' = [check EXCEPT !.overtaken = TRUE]
        /\ \E path \in Path, e \in Etag \union {NoEtag} : etag' = [etag EXCEPT ![path] = e]
    BY <1>11 DEF OtherChange
  <2>2. etag' \in [Path -> Etag \union {NoEtag}]
    BY <2>1 DEF IfInv
  <2>3. QED
    BY <1>g, <1>h, <2>1, <2>2
<1>12. ASSUME TickCheck
       PROVE  IfInv'
  <2>1. /\ Tick /\ now' = now + 1 /\ UNCHANGED <<keeperVars, read_only, call, reply, etag>>
        /\ check' = IF check = NoCheck THEN check ELSE [check EXCEPT !.ticked = TRUE]
    BY <1>12 DEF TickCheck, Tick
  <2>2. Inv'
    BY <1>a, <2>1, NextInv DEF Next
  <2>3. CASE check = NoCheck
    BY <2>1, <2>2, <2>3 DEF IfInv, OthersRun
  <2>4. CASE check # NoCheck
    <3>1. check \in CheckState
      BY <1>b, <2>4
    <3>2. /\ check' \in CheckState /\ Same(check, check') /\ check'.path = check.path
          /\ check'.request_if = check.request_if /\ check'.group = check.group
          /\ check'.condition = check.condition /\ check'.locked = check.locked
          /\ check'.failed = check.failed
      BY <2>1, <2>4, <3>1 DEF CheckState, Same
    <3>3. Sound(check)'
      BY <1>b, <2>4, <3>2 DEF Sound, Placed, Same
    <3>4. /\ now \in Int /\ \A t \in DOMAIN token2lock_obj : token2lock_obj[t].expire \in Int
      BY <1>a DEF KeeperInv, KeeperTypeOK, LockObj
    <3>5. ~check.overtaken =>
            Accounted(check, Collected(check), token2lock_obj', now')
      BY <2>1, <2>4, <3>4, AccountedStays DEF IfInv, keeperVars
    <3>6. ~check'.overtaken =>
            Accounted(check', Collected(check'), token2lock_obj', now')
      BY <3>2, <3>5 DEF Accounted, Named, Collected, Same
    <3>7. ~OthersRun' => call' = Idle
      BY <1>a, <1>c, <2>1, <2>4, <3>2 DEF OthersRun, Suspended, Same
    <3>8. QED
      BY <2>1, <2>2, <3>3, <3>6, <3>7 DEF IfInv
  <2>5. QED
    BY <2>3, <2>4
<1>13. CASE UNCHANGED checkVars
  <2>1. Inv' /\ UNCHANGED <<vars, etag, check>>
    BY <1>g, <1>13 DEF checkVars
  <2>2. QED
    BY <2>1 DEF IfInv, OthersRun, Suspended, Sound, Placed, Accounted, Named, Collected, vars
<1>14. QED
  BY <1>1, <1>2, <1>3, <1>4, <1>5, <1>6, <1>7, <1>8, <1>9, <1>10, <1>11, <1>12, <1>13
     DEF NextCheck, CheckRequest

-----------------------------------------------------------------------------
\* The invariant of requests that check their If headers (check_locks and its
\* callees), from which what a passed check says follows.
THEOREM IfInvAlways == SpecCheck => []IfInv
BY InitIfInv, NextIfInv, PTL DEF SpecCheck

\* The lock table keeps its invariants while requests check their If headers.
THEOREM LockingKeptByChecks == SpecCheck => []Inv
<1>1. IfInv => Inv
  BY DEF IfInv
<1>2. QED
  BY <1>1, IfInvAlways, PTL

\* A request that passes its check without suspending names, in its If header, the
\* token of every live lock on the resources it goes on to change.
THEOREM PassedAlwaysHoldsAllLocks == SpecCheck => []PassedHoldsAllLocks
<1>1. IfInv => PassedHoldsAllLocks
  <2> SUFFICES ASSUME IfInv, Passed, ~check.overtaken,
                      NEW i \in DOMAIN check.res_paths,
                      NEW t \in LockObjsFromPath(check.res_paths[i])
               PROVE  t \in Submitted
    BY DEF PassedHoldsAllLocks, LocksOnResources
  <2>1. KeeperInv /\ check # NoCheck /\ check.at = "done"
    BY DEF IfInv, Inv, Passed, NoCheck
  <2>2. /\ check \in CheckState /\ check.unchecked = {}
        /\ Accounted(check, DOMAIN check.res_paths, token2lock_obj, now)
    BY <2>1 DEF IfInv, Sound, Collected, Passed
  <2>3. check.res_paths[i] \in Path
    BY <2>2, IfAssumption DEF CheckState
  <2>4. t \in LiveOn(token2lock_obj, now, check.res_paths[i])
    BY <2>1, <2>3, ListIsLive
  <2>5. Named(check, token2lock_obj, t) /\ t \in DOMAIN token2lock_obj
    BY <2>2, <2>4 DEF Accounted, LiveOn
  <2>6. PICK j \in DOMAIN check.request_ifs :
            /\ Covers(token2lock_obj[t], check.request_ifs[j].res_path)
            /\ \E g \in DOMAIN check.request_ifs[j].conditions :
                 t \in TokensOf(check.request_ifs[j].conditions[g])
    BY <2>5 DEF Named
  <2>7. check.request_ifs[j].res_path \in Path
    BY <2>2, HeadersAreFull DEF CheckState
  <2>8. t \in LockObjsFromPath(check.request_ifs[j].res_path)
    BY <2>1, <2>4, <2>6, <2>7, ListIsLive DEF LiveOn
  <2>9. t \in Token
    BY <2>1, <2>5 DEF KeeperInv, KeeperTypeOK
  <2>10. QED
    BY <2>6, <2>8, <2>9 DEF Submitted
<1>2. QED
  BY <1>1, IfInvAlways, PTL
-----------------------------------------------------------------------------
(* The verdict.  What a list has been found to be is in the loops' flags and   *)
(* in where the loops are.  F, H and M stand for what the header and the table *)
(* make of the request as long as nothing else happens: the conditions that do *)
(* not hold, those of them that are answered 412, and the locks on its         *)
(* resources.  A condition is named by its three indexes.                      *)

ListOK(ifs, F, i, g) == \A c \in DOMAIN ifs[i].conditions[g] : <<i, g, c>> \notin F

\* The list of a resource that lets it pass: the first that holds.
Chosen(ifs, F, i, g) == ListOK(ifs, F, i, g) /\ \A h \in 1 .. g - 1 : ~ListOK(ifs, F, i, h)

AllOK(ifs, F, resources) ==
    \A i \in resources : \E g \in DOMAIN ifs[i].conditions : ListOK(ifs, F, i, g)

\* None of the tokens is submitted by the list that lets a resource pass.
Withheld(ifs, F, resources, tokens) ==
    \A i \in resources : \A g \in DOMAIN ifs[i].conditions :
        Chosen(ifs, F, i, g) => TokensOf(ifs[i].conditions[g]) \intersect tokens = {}

\* The resources and lists behind the loops have been dealt with.
SoFar(ck, F, M) ==
    /\ ck.unchecked \subseteq M
    /\ AllOK(ck.request_ifs, F, 1 .. ck.request_if - 1)
    /\ Withheld(ck.request_ifs, F, 1 .. ck.request_if - 1, ck.unchecked)
    /\ \A h \in 1 .. ck.group - 1 : ~ListOK(ck.request_ifs, F, ck.request_if, h)

\* The first n conditions of the list hold, and their tokens are checked off.
Upto(ck, F, n) ==
    LET list == ck.request_ifs[ck.request_if].conditions[ck.group]
    IN  \A c \in 1 .. n : /\ <<ck.request_if, ck.group, c>> \notin F
                          /\ list[c].type = "TOKEN" /\ ~list[c].is_not => list[c].data \in ck.checked

HereOK(ck, F) == ListOK(ck.request_ifs, F, ck.request_if, ck.group)

\* Before a condition is looked at ...
Going(ck, F, M) ==
    /\ SoFar(ck, F, M)
    /\ ~ck.failed
    /\ ck.locked => ~HereOK(ck, F)
    /\ ~ck.locked => Upto(ck, F, ck.condition - 1)

\* ... and after it, with a break out of the list or without.
Judged(ck, stop, F, H, M) ==
    /\ SoFar(ck, F, M)
    /\ ck.locked \/ ck.failed => ~HereOK(ck, F)
    /\ ~ck.locked /\ ~ck.failed => ~stop /\ Upto(ck, F, ck.condition)
    /\ ck.failed => stop /\ <<ck.request_if, ck.group, ck.condition>> \in H

Ended(ck, F, H, M) ==
    /\ ~ck.locked /\ ~ck.failed => AllOK(ck.request_ifs, F, DOMAIN ck.request_ifs)
    /\ ck.locked \/ ck.failed =>
         \/ ~AllOK(ck.request_ifs, F, DOMAIN ck.request_ifs)
         \/ /\ ck.unchecked # {} /\ ck.unchecked \subseteq M
            /\ Withheld(ck.request_ifs, F, DOMAIN ck.request_ifs, ck.unchecked)
    /\ ck.failed =>
         \E i \in DOMAIN ck.request_ifs :
             \E c \in DOMAIN ck.request_ifs[i].conditions[Len(ck.request_ifs[i].conditions)] :
                 <<i, Len(ck.request_ifs[i].conditions), c>> \in H

Right(ck, F, H, M) ==
    /\ ck.at = "collect" =>
         ck.unchecked \subseteq M /\ ck.checked = {} /\ ~ck.locked /\ ~ck.failed
    /\ ck.at \in {"condition", "stat", "resume"} => Going(ck, F, M)
    /\ ck.at = "done" => Ended(ck, F, H, M)

\* A condition, given the locks on its resource and the ETag.
HoldsIn(c, live, tag) ==
    /\ c.type = "NO_LOCK" => c.is_not /\ live # {}
    /\ c.type = "TOKEN" => c.data # BadToken /\ (c.is_not <=> c.data \notin live)
    /\ c.type = "ETAG" => (c.is_not <=> c.data # tag)

Failing(ifs, live, tags) ==
    {x \in Nat \X Nat \X Nat :
        /\ x[1] \in DOMAIN ifs /\ x[2] \in DOMAIN ifs[x[1]].conditions
        /\ x[3] \in DOMAIN ifs[x[1]].conditions[x[2]]
        /\ ~HoldsIn(ifs[x[1]].conditions[x[2]][x[3]],
                    live[ifs[x[1]].res_path], tags[ifs[x[1]].res_path])}

\* Other than for a valid token.
Hard(ifs, live, tags) ==
    {x \in Failing(ifs, live, tags) :
        LET c == ifs[x[1]].conditions[x[2]][x[3]]
        IN  c.type = "TOKEN" => c.data = BadToken}

Marked(paths, live) == {t \in Token : \E i \in DOMAIN paths : t \in live[paths[i]]}

Live == [p \in Path |-> LiveOn(token2lock_obj, now, p)]

RightOf(ck, live, tags) ==
    Right(ck, Failing(ck.request_ifs, live, tags), Hard(ck.request_ifs, live, tags),
          Marked(ck.res_paths, live))

\* As long as neither another handler nor the clock has come in between.
VInv ==
    check # NoCheck /\ ~check.overtaken /\ ~check.ticked =>
        /\ RightOf(check, Live, etag)
        /\ check.at \in {"stat", "resume"} => CurrentCondition.type = "ETAG"
        /\ check.at = "resume" => check.etag = etag[CurrentIf.res_path]

-----------------------------------------------------------------------------
(* The loops and the verdict *)

\* What no move of the loops changes.
Rest(ck, next) ==
    /\ next.request_ifs = ck.request_ifs
    /\ next.res_paths = ck.res_paths
    /\ next.ticked = ck.ticked
    /\ next.overtaken = ck.overtaken

\* The loops change neither the header nor the history of the check.
LEMMA EndOfConditionKeepsRest ==
    ASSUME NEW ck \in CheckState, NEW stop \in BOOLEAN
    PROVE  Rest(ck, EndOfCondition(ck, stop))
<1>1. Rest(ck, PassedIf(ck)) /\ Rest(ck, Done(ck))
  BY DEF PassedIf, Done, CheckState, Rest
<1>2. Rest(ck, EndOfGroup(ck))
  BY <1>1 DEF EndOfGroup, CheckState, Rest
<1>3. QED
  BY <1>2 DEF EndOfCondition, CheckState, Rest

\* After a list that holds, every resource behind the loops has its chosen list: the
\* tokens that are left are those that none of these lists submits.
LEMMA PassedIfIsRight ==
    ASSUME NEW ck \in CheckState, NEW F, NEW H, NEW M, ck.at \in {"collect", "condition"},
           ck.at = "condition" => Placed(ck) /\ HereOK(ck, F) /\
               Upto(ck, F, Len(ck.request_ifs[ck.request_if].conditions[ck.group])),
           ck.at = "collect" => ck.request_ifs = <<>> /\ ck.request_if = 1,
           SoFar(ck, F, M), ~ck.locked, ~ck.failed
    PROVE  Right(PassedIf(ck), F, H, M)
<1> DEFINE ifs   == ck.request_ifs
           still == ck.unchecked \ ck.checked
           passed == IF ck.at = "collect" THEN {} ELSE 1 .. ck.request_if
<1>1. ifs \in RequestIfs /\ ifs \in Seq(RequestIf) /\ ck.request_if \in Nat /\ ck.group \in Nat
  BY IfAssumption DEF CheckState
<1>2. AllOK(ifs, F, passed) /\ Withheld(ifs, F, passed, still)
  <2>1. CASE ck.at = "condition"
    <3>1. ck.request_if \in DOMAIN ifs /\ ck.group \in DOMAIN ifs[ck.request_if].conditions
      BY <2>1 DEF Placed
    <3>a. ifs[ck.request_if].conditions \in Seq(Seq(Condition))
      <4>1. ifs[ck.request_if] \in RequestIf
        BY <1>1, <3>1
      <4>2. QED
        BY <4>1 DEF RequestIf
    <3>2. AllOK(ifs, F, 1 .. ck.request_if - 1) /\ Withheld(ifs, F, 1 .. ck.request_if - 1, ck.unchecked)
      BY DEF SoFar
    <3>3. \A i \in passed : i \in 1 .. ck.request_if - 1 \/ i = ck.request_if
      BY <1>1, <2>1
    <3>4. ListOK(ifs, F, ck.request_if, ck.group)
      BY <2>1 DEF HereOK
    <3>5. AllOK(ifs, F, passed)
      BY <3>1, <3>2, <3>3, <3>4 DEF AllOK
    <3>6. ASSUME NEW g \in DOMAIN ifs[ck.request_if].conditions, Chosen(ifs, F, ck.request_if, g)
          PROVE  g = ck.group
      <4>2. g \in Nat
        BY <3>a
      <4>3. ~(ck.group < g)
        BY <1>1, <3>1, <3>4, <3>6, <3>a, <4>2 DEF Chosen
      <4>4. ~(g < ck.group)
        BY <1>1, <3>6, <3>a, <4>2 DEF Chosen, SoFar
      <4>5. QED
        BY <1>1, <4>2, <4>3, <4>4
    <3>7. TokensOf(ifs[ck.request_if].conditions[ck.group]) \intersect still = {}
      <4>2. ifs[ck.request_if].conditions[ck.group] \in Seq(Condition)
        BY <3>1, <3>a
      <4>3. \A c \in DOMAIN ifs[ck.request_if].conditions[ck.group] :
               c \in 1 .. Len(ifs[ck.request_if].conditions[ck.group])
        BY <4>2
      <4>4. QED
        BY <2>1, <4>3 DEF TokensOf, Upto
    <3>8. Withheld(ifs, F, passed, still)
      BY <3>2, <3>3, <3>6, <3>7 DEF Withheld
    <3>9. QED
      BY <3>5, <3>8
  <2>2. CASE ck.at = "collect"
    BY <2>2 DEF AllOK, Withheld
  <2>3. QED
    BY <2>1, <2>2
<1>3. still \subseteq M
  BY DEF SoFar
<1>4. CASE ck.request_if < Len(ifs)
  <2> DEFINE next == PassedIf(ck)
  <2>1. next = [ck EXCEPT !.at = ck.at, !.unchecked = still, !.checked = {},
                          !.request_if = ck.request_if + 1, !.group = 1, !.condition = 1,
                          !.locked = ck.locked, !.failed = ck.failed]
    BY <1>4 DEF PassedIf, CheckState
  <2>2. /\ next.at = ck.at /\ next.unchecked = still /\ next.checked = {}
        /\ next.request_if = ck.request_if + 1 /\ next.group = 1 /\ next.condition = 1
        /\ next.locked = ck.locked /\ next.failed = ck.failed
        /\ Rest(ck, next)
    <3> HIDE DEF next, still
    <3>1. QED
      BY <2>1 DEF CheckState, Rest
  <2> HIDE DEF next
  <2>3. ck.at = "condition" /\ passed = 1 .. next.request_if - 1
    BY <1>1, <1>4, <2>2
  <2>4. SoFar(next, F, M)
    BY <1>1, <1>2, <1>3, <2>2, <2>3 DEF SoFar, Rest
  <2>5. Going(next, F, M)
    BY <2>2, <2>4 DEF Going, Upto
  <2>6. QED
    BY <2>2, <2>3, <2>5 DEF Right, next
<1>5. CASE ~(ck.request_if < Len(ifs))
  <2> DEFINE next == PassedIf(ck)
  <2>1. next = [ck EXCEPT !.at = "done", !.unchecked = still, !.checked = {},
                          !.request_if = ck.request_if, !.group = ck.group,
                          !.condition = ck.condition,
                          !.locked = (still # {}), !.failed = ck.failed]
    BY <1>5 DEF PassedIf, Done, CheckState
  <2>2. /\ next.at = "done" /\ next.unchecked = still
        /\ next.locked = (still # {}) /\ next.failed = ck.failed
        /\ Rest(ck, next)
    <3> HIDE DEF next
    <3>1. QED
      BY <2>1 DEF CheckState, Rest
  <2> HIDE DEF next
  <2>3. passed = DOMAIN ifs
    <3>1. CASE ck.at = "condition"
      BY <1>1, <1>5, <3>1 DEF Placed
    <3>2. CASE ck.at = "collect"
      BY <3>2
    <3>3. QED
      BY <3>1, <3>2
  <2>4. Ended(next, F, H, M)
    BY <1>2, <1>3, <2>2, <2>3 DEF Ended, Rest
  <2>5. QED
    BY <2>2, <2>4 DEF Right, next
<1>6. QED
  BY <1>4, <1>5

\* After a condition the loops are again where what they say is right.
LEMMA EndOfConditionIsRight ==
    ASSUME NEW ck \in CheckState, NEW stop \in BOOLEAN, NEW F, NEW H, NEW M,
           ck.at = "condition", Placed(ck), Judged(ck, stop, F, H, M)
    PROVE  Right(EndOfCondition(ck, stop), F, H, M)
<1> DEFINE conditions == ck.request_ifs[ck.request_if].conditions
           next == EndOfCondition(ck, stop)
<1>1. /\ ck.group \in Nat /\ ck.condition \in Nat /\ ck.request_if \in Nat
      /\ ck.request_if \in DOMAIN ck.request_ifs
      /\ ck.group \in DOMAIN conditions /\ ck.condition \in DOMAIN conditions[ck.group]
  BY DEF CheckState, Placed
<1>2. conditions \in Seq(Seq(Condition)) /\ conditions[ck.group] \in Seq(Condition)
  <2>1. ck.request_ifs[ck.request_if] \in RequestIf
    BY <1>1, IfAssumption DEF CheckState
  <2>2. conditions \in Seq(Seq(Condition))
    BY <2>1 DEF RequestIf
  <2>3. QED
    BY <1>1, <2>2
<1>3. CASE ~stop /\ ck.condition < Len(conditions[ck.group])
  <2>1. next = [ck EXCEPT !.condition = ck.condition + 1]
    BY <1>3 DEF EndOfCondition, CheckState
  <2>2. /\ next.at = ck.at /\ next.unchecked = ck.unchecked /\ next.checked = ck.checked
        /\ next.request_if = ck.request_if /\ next.group = ck.group
        /\ next.condition = ck.condition + 1
        /\ next.locked = ck.locked /\ next.failed = ck.failed
        /\ Rest(ck, next)
    <3> HIDE DEF next
    <3>1. QED
      BY <2>1 DEF CheckState, Rest
  <2> HIDE DEF next, conditions
  <2>3. SoFar(next, F, M)
    BY <2>2 DEF SoFar, Judged, Rest
  <2>4. ~ck.failed
    BY <1>3 DEF Judged
  <2>5. HereOK(next, F) <=> HereOK(ck, F)
    BY <2>2 DEF HereOK, Rest
  <2>6. Upto(ck, F, ck.condition) => Upto(next, F, next.condition - 1)
    <3>1. next.condition - 1 = ck.condition
      BY <1>1, <2>2
    <3>2. \A n : Upto(ck, F, n) => Upto(next, F, n)
      BY <2>2 DEF Upto, Rest
    <3>3. QED
      BY <3>1, <3>2
  <2>7. Going(next, F, M)
    BY <2>2, <2>3, <2>4, <2>5, <2>6 DEF Going, Judged
  <2>8. QED
    BY <2>2, <2>7 DEF Right, next
<1>4. CASE ~(~stop /\ ck.condition < Len(conditions[ck.group]))
  <2>1. next = EndOfGroup(ck)
    BY <1>4 DEF EndOfCondition
  <2>2. CASE ~ck.locked /\ ~ck.failed
    <3>1. next = PassedIf(ck)
      BY <2>1, <2>2 DEF EndOfGroup
    <3>2. Upto(ck, F, ck.condition) /\ ~stop /\ SoFar(ck, F, M)
      BY <2>2 DEF Judged
    <3>3. ck.condition = Len(conditions[ck.group])
      BY <1>1, <1>2, <1>4, <3>2
    <3>4. HereOK(ck, F)
      <4>1. DOMAIN conditions[ck.group] = 1 .. ck.condition
        BY <1>2, <3>3
      <4>2. \A c \in 1 .. ck.condition : << ck.request_if, ck.group, c >> \notin F
        BY <3>2 DEF Upto
      <4>3. QED
        BY <4>1, <4>2 DEF HereOK, ListOK
    <3>5. Upto(ck, F, Len(ck.request_ifs[ck.request_if].conditions[ck.group]))
      BY <3>2, <3>3
    <3> HIDE DEF next, conditions
    <3>6. Right(PassedIf(ck), F, H, M)
      BY <2>2, <3>2, <3>4, <3>5, PassedIfIsRight
    <3>7. QED
      BY <3>1, <3>6 DEF next
  <2>3. CASE ck.locked \/ ck.failed
    <3>1. ~HereOK(ck, F) /\ SoFar(ck, F, M)
      BY <2>3 DEF Judged
    <3>2. CASE ck.group < Len(conditions)
      <4>1. next = [ck EXCEPT !.group = ck.group + 1, !.condition = 1,
                              !.locked = FALSE, !.failed = FALSE]
        BY <2>1, <2>3, <3>2 DEF EndOfGroup, CheckState
      <4>2. /\ next.at = ck.at /\ next.unchecked = ck.unchecked /\ next.checked = ck.checked
            /\ next.request_if = ck.request_if /\ next.group = ck.group + 1
            /\ next.condition = 1 /\ next.locked = FALSE /\ next.failed = FALSE
            /\ Rest(ck, next)
        <5> HIDE DEF next
        <5>1. QED
          BY <4>1 DEF CheckState, Rest
      <4> HIDE DEF next, conditions
      <4>3. \A h \in 1 .. next.group - 1 : h \in 1 .. ck.group - 1 \/ h = ck.group
        BY <1>1, <4>2
      <4>4. SoFar(next, F, M)
        BY <3>1, <4>2, <4>3 DEF SoFar, Rest, HereOK
      <4>5. Going(next, F, M)
        BY <4>2, <4>4 DEF Going, Upto
      <4>6. QED
        BY <4>2, <4>5 DEF Right, next
    <3>3. CASE ~(ck.group < Len(conditions))
      <4>1. next = [ck EXCEPT !.at = "done"]
        BY <2>1, <2>3, <3>3 DEF EndOfGroup, Done
      <4>2. /\ next.at = "done" /\ next.unchecked = ck.unchecked
            /\ next.locked = ck.locked /\ next.failed = ck.failed
            /\ Rest(ck, next)
        <5> HIDE DEF next
        <5>1. QED
          BY <4>1 DEF CheckState, Rest
      <4> HIDE DEF next
      <4>3. ck.group = Len(conditions)
        BY <1>1, <1>2, <3>3
      <4>4. \A g \in DOMAIN conditions : g \in 1 .. ck.group - 1 \/ g = ck.group
        BY <1>1, <1>2, <4>3
      <4>5. ~AllOK(ck.request_ifs, F, DOMAIN ck.request_ifs)
        BY <1>1, <3>1, <4>4 DEF AllOK, SoFar, HereOK
      <4>6. ck.failed => <<ck.request_if, ck.group, ck.condition>> \in H
        BY DEF Judged
      <4>7. Ended(next, F, H, M)
        BY <1>1, <2>3, <4>2, <4>3, <4>5, <4>6 DEF Ended, Rest
      <4>8. QED
        BY <4>2, <4>7 DEF Right, next
    <3>4. QED
      BY <3>2, <3>3
  <2>4. QED
    BY <2>2, <2>3
<1>5. QED
  BY <1>3, <1>4

\* What one look at a condition leaves: it holds, and its token is checked off; or a
\* lock is missing; or it does not hold for another reason, which ends the list.
Looks(old, ck) ==
    /\ ck.request_ifs = old.request_ifs /\ ck.request_if = old.request_if
    /\ ck.group = old.group /\ ck.condition = old.condition
    /\ ck.unchecked = old.unchecked /\ old.checked \subseteq ck.checked

FoundToHold(old, ck, stop, F) ==
    LET c == old.request_ifs[old.request_if].conditions[old.group][old.condition]
    IN  /\ <<old.request_if, old.group, old.condition>> \notin F
        /\ c.type = "TOKEN" /\ ~c.is_not => c.data \in ck.checked
        /\ ~stop /\ ~ck.failed /\ (ck.locked <=> old.locked)

FoundLocked(old, ck, F) ==
    /\ <<old.request_if, old.group, old.condition>> \in F
    /\ ck.locked /\ ~ck.failed

FoundToFail(old, ck, stop, F, H) ==
    /\ <<old.request_if, old.group, old.condition>> \in F
    /\ <<old.request_if, old.group, old.condition>> \in H
    /\ stop /\ ck.failed

\* The flags after a look say what there is to say of the list.
LEMMA LookIsJudged ==
    ASSUME NEW old \in CheckState, NEW ck, NEW stop \in BOOLEAN, NEW F, NEW H, NEW M, Placed(old),
           Going(old, F, M), Looks(old, ck),
           FoundToHold(old, ck, stop, F) \/ FoundLocked(old, ck, F) \/ FoundToFail(old, ck, stop, F, H)
    PROVE  Judged(ck, stop, F, H, M)
<1>1. SoFar(ck, F, M)
  BY DEF SoFar, Going, Looks
<1>2. HereOK(ck, F) <=> HereOK(old, F)
  BY DEF HereOK, Looks
<1>3. <<old.request_if, old.group, old.condition>> \in F => ~HereOK(old, F)
  BY DEF HereOK, ListOK, Placed
<1>4. CASE FoundToHold(old, ck, stop, F)
  <2>1. ~ck.failed /\ ~stop /\ (ck.locked <=> old.locked)
    BY <1>4 DEF FoundToHold
  <2>2. ck.locked => ~HereOK(ck, F)
    BY <1>2, <2>1 DEF Going
  <2>3. ASSUME ~ck.locked
        PROVE  Upto(ck, F, ck.condition)
    <3>1. Upto(old, F, old.condition - 1)
      BY <2>1, <2>3 DEF Going
    <3>2. old.condition \in Nat
      BY DEF CheckState
    <3>3. \A c \in 1 .. old.condition : c \in 1 .. old.condition - 1 \/ c = old.condition
      BY <3>2
    <3>4. QED
      BY <1>4, <3>1, <3>3 DEF Upto, FoundToHold, Looks
  <2>4. QED
    BY <1>1, <2>1, <2>2, <2>3 DEF Judged
<1>5. CASE FoundLocked(old, ck, F)
  BY <1>1, <1>2, <1>3, <1>5 DEF FoundLocked, Judged
<1>6. CASE FoundToFail(old, ck, stop, F, H)
  <2>1. ck.request_if = old.request_if /\ ck.group = old.group /\ ck.condition = old.condition
    BY DEF Looks
  <2>2. QED
    BY <1>1, <1>2, <1>3, <1>6, <2>1 DEF FoundToFail, Judged
<1>7. QED
  BY <1>4, <1>5, <1>6

-----------------------------------------------------------------------------
(* The table and the verdict *)

\* Expired locks may leave the table: the live ones stay.
LEMMA LiveStays ==
    ASSUME KeeperInv, NEW T \in SUBSET DOMAIN token2lock_obj, now' = now,
           (Drop(T) /\ \A t \in T : IsExpired(t)) \/ UNCHANGED keeperVars
    PROVE  Live' = Live
<1>1. CASE Drop(T) /\ \A t \in T : IsExpired(t)
  <2>1. Leave(T)
    BY <1>1, DropEffect
  <2>2. now \in Int /\ \A t \in DOMAIN token2lock_obj : token2lock_obj[t].expire \in Int
    BY DEF KeeperInv, KeeperTypeOK, LockObj
  <2>3. ASSUME NEW p \in Path
        PROVE  LiveOn(token2lock_obj', now', p) = LiveOn(token2lock_obj, now, p)
    BY <1>1, <2>1, <2>2 DEF LiveOn, IsExpired, Leave
  <2>4. QED
    BY <2>3 DEF Live
<1>2. CASE UNCHANGED keeperVars
  BY <1>2 DEF Live, keeperVars
<1>3. QED
  BY <1>1, <1>2

\* What the handler is told of a path are the live locks on it.
LEMMA ToldOfLive ==
    ASSUME KeeperInv, NEW path \in Path, NEW t
    PROVE  /\ LockObjsFromPath(path) = Live[path]
           /\ IsValidLockToken(t, path) <=> t \in Live[path]
<1>1. Live[path] = LiveOn(token2lock_obj, now, path)
  BY DEF Live
<1>2. now \in Int /\ \A u \in DOMAIN token2lock_obj : token2lock_obj[u].expire \in Int
  BY DEF KeeperInv, KeeperTypeOK, LockObj
<1>3. IsValidLockToken(t, path) <=> t \in Live[path]
  BY <1>1, <1>2 DEF LiveOn, IsValidLockToken, Found, IsExpired, IsLockingPath
<1>4. QED
  BY <1>1, <1>3, ListIsLive

\* The meaning of a condition is read off the live locks.
LEMMA HoldsByLive ==
    ASSUME KeeperInv, NEW path \in Path, NEW c \in Condition
    PROVE  Holds(c, path) <=> HoldsIn(c, Live[path], etag[path])
<1>1. LockObjsFromPath(path) = Live[path]
  BY ToldOfLive
<1>2. c.is_not \in BOOLEAN /\ c.type \in {"TOKEN", "ETAG", "NO_LOCK"}
  BY DEF Condition, ConditionType
<1>3. CASE c.type = "NO_LOCK"
  BY <1>1, <1>3 DEF Holds, HoldsIn
<1>4. CASE c.type = "TOKEN"
  <2>1. (c.is_not = (c.data \notin Live[path])) <=> (c.is_not <=> c.data \notin Live[path])
    BY <1>2, Zenon
  <2>2. Holds(c, path) <=> c.data # BadToken /\ c.is_not = (c.data \notin LockObjsFromPath(path))
    BY <1>4 DEF Holds
  <2>3. QED
    BY <1>1, <1>4, <2>1, <2>2 DEF HoldsIn
<1>5. CASE c.type = "ETAG"
  <2>1. (c.is_not = (c.data # etag[path])) <=> (c.is_not <=> c.data # etag[path])
    BY <1>2, Zenon
  <2>2. Holds(c, path) <=> (c.is_not = (c.data # etag[path]))
    BY <1>5 DEF Holds
  <2>3. QED
    BY <1>5, <2>1, <2>2 DEF HoldsIn
<1>6. QED
  BY <1>2, <1>3, <1>4, <1>5

\* A condition of the header by its three indexes.
LEMMA FailingHere ==
    ASSUME NEW ifs \in RequestIfs, NEW live, NEW tags, NEW i \in DOMAIN ifs,
           NEW g \in DOMAIN ifs[i].conditions, NEW c \in DOMAIN ifs[i].conditions[g]
    PROVE  LET cond == ifs[i].conditions[g][c]
               here == HoldsIn(cond, live[ifs[i].res_path], tags[ifs[i].res_path])
           IN  /\ cond \in Condition
               /\ <<i, g, c>> \in Failing(ifs, live, tags) <=> ~here
               /\ <<i, g, c>> \in Hard(ifs, live, tags)
                    <=> ~here /\ (cond.type = "TOKEN" => cond.data = BadToken)
<1>1. ifs \in Seq(RequestIf)
  BY IfAssumption
<1>2. ifs[i] \in RequestIf
  BY <1>1
<1>3. ifs[i].conditions \in Seq(Seq(Condition))
  BY <1>2 DEF RequestIf
<1>4. ifs[i].conditions[g] \in Seq(Condition)
  BY <1>3
<1>5. ifs[i].conditions[g][c] \in Condition
  BY <1>4
<1>6. <<i, g, c>> \in Nat \X Nat \X Nat
  BY <1>1, <1>3, <1>4
<1>7. <<i, g, c>>[1] = i /\ <<i, g, c>>[2] = g /\ <<i, g, c>>[3] = c
  OBVIOUS
<1>8. <<i, g, c>> \in Failing(ifs, live, tags) <=>
        ~HoldsIn(ifs[i].conditions[g][c], live[ifs[i].res_path], tags[ifs[i].res_path])
  BY <1>6, <1>7 DEF Failing
<1>9. <<i, g, c>> \in Hard(ifs, live, tags) <=>
        /\ <<i, g, c>> \in Failing(ifs, live, tags)
        /\ ifs[i].conditions[g][c].type = "TOKEN" => ifs[i].conditions[g][c].data = BadToken
  BY <1>7 DEF Hard
<1>10. QED
  BY <1>5, <1>8, <1>9

FailingNow == Failing(check.request_ifs, Live, etag)
HardNow == Hard(check.request_ifs, Live, etag)

\* What a condition of the list says now, by the handler's own lookups.
LEMMA ConditionNow ==
    ASSUME IfInv, check \in CheckState, Placed(check)
    PROVE  LET here == <<check.request_if, check.group, check.condition>>
           IN  /\ CurrentCondition \in Condition
               /\ CurrentIf.res_path \in Path
               /\ here \in FailingNow
                    <=> ~HoldsIn(CurrentCondition, Live[CurrentIf.res_path], etag[CurrentIf.res_path])
               /\ here \in HardNow
                    <=> /\ ~HoldsIn(CurrentCondition, Live[CurrentIf.res_path], etag[CurrentIf.res_path])
                        /\ CurrentCondition.type = "TOKEN" => CurrentCondition.data = BadToken
<1>1. /\ check.request_ifs \in RequestIfs
      /\ check.request_if \in DOMAIN check.request_ifs
      /\ check.group \in DOMAIN check.request_ifs[check.request_if].conditions
      /\ check.condition \in DOMAIN check.request_ifs[check.request_if].conditions[check.group]
  BY DEF CheckState, Placed
<1>2. CurrentIf.res_path \in Path
  BY <1>1, HeadersAreFull DEF CurrentIf
<1>3. \A ifs \in RequestIfs : \A i \in DOMAIN ifs : \A g \in DOMAIN ifs[i].conditions :
        \A c \in DOMAIN ifs[i].conditions[g] :
          /\ ifs[i].conditions[g][c] \in Condition
          /\ <<i, g, c>> \in Failing(ifs, Live, etag) <=>
               ~HoldsIn(ifs[i].conditions[g][c], Live[ifs[i].res_path], etag[ifs[i].res_path])
          /\ <<i, g, c>> \in Hard(ifs, Live, etag) <=>
               /\ ~HoldsIn(ifs[i].conditions[g][c], Live[ifs[i].res_path], etag[ifs[i].res_path])
               /\ ifs[i].conditions[g][c].type = "TOKEN" => ifs[i].conditions[g][c].data = BadToken
  BY FailingHere
<1>4. QED
  BY <1>1, <1>2, <1>3 DEF CurrentIf, CurrentCondition, FailingNow, HardNow

\* A look at a condition, and what the loops make of it.
LEMMA ConditionIsRight ==
    ASSUME IfInv, VInv, check.at \in {"condition", "resume"}, check \in CheckState, Placed(check),
           NEW T \in SUBSET DOMAIN token2lock_obj, now' = now, etag' = etag,
           (Drop(T) /\ \A t \in T : IsExpired(t)) \/ UNCHANGED keeperVars,
           NEW ck \in CheckState, NEW stop \in BOOLEAN, check' = EndOfCondition(ck, stop),
           ck.at = "condition", Looks(check, ck), Rest(check, ck),
           ~check.overtaken /\ ~check.ticked =>
               \/ FoundToHold(check, ck, stop, FailingNow)
               \/ FoundLocked(check, ck, FailingNow)
               \/ FoundToFail(check, ck, stop, FailingNow, HardNow)
    PROVE  VInv'
<1>1. Placed(ck)
  BY DEF Placed, Looks
<1>2. GoesOn(ck, check')
  BY <1>1, EndOfConditionGoesOn
<1>3. Rest(ck, check')
  BY EndOfConditionKeepsRest
<1>4. KeeperInv
  BY DEF IfInv, Inv
<1>5. Live' = Live
  BY <1>4, LiveStays
<1>6. ASSUME ~check'.overtaken, ~check'.ticked
      PROVE  RightOf(check', Live, etag)
  <2> DEFINE M == Marked(check.res_paths, Live)
  <2>1. RightOf(check, Live, etag)
    BY <1>3, <1>6 DEF VInv, Rest, CheckState, NoCheck, Position
  <2>2. Going(check, FailingNow, M)
    BY <2>1 DEF RightOf, Right, FailingNow, HardNow
  <2> HIDE DEF M
  <2>3. Judged(ck, stop, FailingNow, HardNow, M)
    BY <1>3, <1>6, <2>2, LookIsJudged DEF Rest
  <2>4. Right(check', FailingNow, HardNow, M)
    BY <1>1, <2>3, EndOfConditionIsRight
  <2>5. check'.request_ifs = check.request_ifs /\ check'.res_paths = check.res_paths
    BY <1>3 DEF Rest
  <2>6. QED
    BY <2>4, <2>5 DEF RightOf, FailingNow, HardNow, M
<1>7. check'.at \notin {"stat", "resume"}
  BY <1>2 DEF GoesOn
<1>8. QED
  BY <1>5, <1>6, <1>7 DEF VInv, RightOf

\* Before the first request there is no verdict to be right.
LEMMA InitVInv == InitCheck => VInv
BY DEF InitCheck, VInv

\* The clock and other handlers end what the invariant is about; every step of the
\* check keeps it.
LEMMA NextVInv == IfInv /\ IfInv' /\ VInv /\ [NextCheck]_checkVars => VInv'
<1> SUFFICES ASSUME IfInv, IfInv', VInv, [NextCheck]_checkVars PROVE VInv'
  OBVIOUS
<1>a. KeeperInv /\ (check # NoCheck => check \in CheckState /\ Sound(check))
  BY DEF IfInv, Inv, Sound
<1>b. check.at # "none" => check # NoCheck
  BY DEF NoCheck
<1>1. ASSUME NEW ifs \in RequestIfs, NEW res_paths \in ResPaths, Begin(ifs, res_paths)
      PROVE  VInv'
  <2>1. /\ check'.at = "collect" /\ check'.unchecked = {} /\ check'.checked = {}
        /\ check'.locked = FALSE /\ check'.failed = FALSE
    BY <1>1 DEF Begin
  <2>2. QED
    BY <2>1 DEF VInv, RightOf, Right
<1>2. ASSUME Collect
      PROVE  VInv'
  <2> DEFINE path == check.res_paths[check.path]
             ck   == [check EXCEPT !.unchecked = @ \union LockObjsFromPath(path)]
             M    == Marked(check.res_paths, Live)
  <2>1. /\ check.at = "collect" /\ Drop(ExpiredFrom(path))
        /\ UNCHANGED <<now, read_only, call, reply, etag>>
        /\ check' = IF check.path < Len(check.res_paths)
                    THEN [ck EXCEPT !.path = @ + 1]
                    ELSE IF check.request_ifs # <<>>
                         THEN [ck EXCEPT !.at = "condition"]
                         ELSE PassedIf(ck)
    BY <1>2 DEF Collect, GetLockObjsFromPath
  <2>2. /\ check \in CheckState /\ check.path \in DOMAIN check.res_paths
        /\ check.request_if = 1 /\ check.group = 1 /\ check.condition = 1
    BY <1>a, <1>b, <2>1 DEF Sound
  <2>3. path \in Path
    BY <2>2, IfAssumption DEF CheckState
  <2>4. /\ LockObjsFromPath(path) = Live[path]
        /\ ExpiredFrom(path) \in SUBSET DOMAIN token2lock_obj
        /\ Live[path] \subseteq Token
    <3>1. LockObjsFromPath(path) = Live[path]
      BY <1>a, <2>3, ToldOfLive
    <3>2. ExpiredFrom(path) \in SUBSET DOMAIN token2lock_obj
      BY <1>a, <2>3, EntriesAreLocks
    <3>3. DOMAIN token2lock_obj \subseteq Token
      BY <1>a DEF KeeperInv, KeeperTypeOK
    <3>4. Live[path] \subseteq DOMAIN token2lock_obj
      BY <2>3 DEF Live, LiveOn
    <3>5. QED
      BY <3>1, <3>2, <3>3, <3>4
  <2>5. Live' = Live
    <3>1. \A t \in ExpiredFrom(path) : IsExpired(t)
      BY DEF ExpiredFrom
    <3>2. QED
      BY <1>a, <2>1, <2>4, <3>1, LiveStays
  <2>6. /\ ck \in CheckState /\ ck.at = "collect" /\ ck.checked = check.checked
        /\ ck.unchecked = check.unchecked \union Live[path]
        /\ ck.locked = check.locked /\ ck.failed = check.failed /\ ck.path = check.path
        /\ ck.request_if = 1 /\ ck.group = 1 /\ ck.condition = 1
        /\ Rest(check, ck)
    <3>1. LockObjsFromPath(path) \in SUBSET Token
      BY <2>4
    <3> HIDE DEF path
    <3>2. QED
      BY <2>1, <2>2, <2>4, <3>1 DEF CheckState, Rest
  <2> HIDE DEF ck
  <2>7. check'.at \notin {"stat", "resume"} /\ Rest(ck, check')
    <3>1. CASE check.path < Len(check.res_paths)
      BY <2>1, <2>6, <3>1 DEF CheckState, Rest
    <3>2. CASE ~(check.path < Len(check.res_paths)) /\ check.request_ifs # <<>>
      BY <2>1, <2>6, <3>2 DEF CheckState, Rest
    <3>3. CASE ~(check.path < Len(check.res_paths)) /\ check.request_ifs = <<>>
      BY <2>1, <2>6, <3>3 DEF CheckState, Rest, PassedIf, Done
    <3>4. QED
      BY <3>1, <3>2, <3>3
  <2>8. ASSUME ~check'.overtaken, ~check'.ticked
        PROVE  RightOf(check', Live, etag)
    <3>1. RightOf(check, Live, etag)
      BY <1>b, <2>1, <2>6, <2>7, <2>8 DEF VInv, Rest
    <3>2. check.unchecked \subseteq M /\ check.checked = {} /\ ~check.locked /\ ~check.failed
      BY <2>1, <3>1 DEF RightOf, Right
    <3>3. Live[path] \subseteq M
      BY <2>2, <2>4 DEF Marked
    <3>4. ck.unchecked \subseteq M /\ ck.checked = {} /\ ~ck.locked /\ ~ck.failed
      BY <2>6, <3>2, <3>3
    <3>5. check'.request_ifs = check.request_ifs /\ check'.res_paths = check.res_paths
      BY <2>6, <2>7 DEF Rest
    <3> HIDE DEF M, path
    <3>6. SoFar(ck, FailingNow, M)
      BY <2>6, <3>4 DEF SoFar, AllOK, Withheld
    <3>7. CASE check.path < Len(check.res_paths)
      <4>1. /\ check'.at = "collect" /\ check'.unchecked = ck.unchecked
            /\ check'.checked = ck.checked /\ check'.locked = ck.locked
            /\ check'.failed = ck.failed
        BY <2>1, <2>6, <3>7 DEF CheckState
      <4>2. QED
        BY <3>4, <3>5, <4>1 DEF RightOf, Right, M
    <3>8. CASE ~(check.path < Len(check.res_paths)) /\ check.request_ifs # <<>>
      <4>1. /\ check'.at = "condition" /\ check'.unchecked = ck.unchecked
            /\ check'.checked = ck.checked /\ check'.locked = ck.locked
            /\ check'.failed = ck.failed /\ check'.request_if = 1 /\ check'.group = 1
            /\ check'.condition = 1
        BY <2>1, <2>6, <3>8 DEF CheckState
      <4>2. SoFar(check', FailingNow, M)
        BY <3>4, <4>1 DEF SoFar, AllOK, Withheld
      <4>3. Going(check', FailingNow, M)
        BY <3>4, <4>1, <4>2 DEF Going, Upto
      <4>4. QED
        BY <3>5, <4>1, <4>3 DEF RightOf, Right, M, FailingNow
    <3>9. CASE ~(check.path < Len(check.res_paths)) /\ check.request_ifs = <<>>
      <4>1. check' = PassedIf(ck)
        BY <2>1, <3>9
      <4>2. ck.request_ifs = <<>>
        BY <2>6, <3>9 DEF Rest
      <4>3. Right(check', FailingNow, HardNow, M)
        BY <2>6, <3>4, <3>6, <4>1, <4>2, PassedIfIsRight
      <4>4. QED
        BY <3>5, <4>3 DEF RightOf, M, FailingNow, HardNow
    <3>10. QED
      BY <3>7, <3>8, <3>9
  <2>9. etag' = etag
    BY <2>1
  <2> HIDE DEF path, M
  <2>10. QED
    BY <2>5, <2>7, <2>8, <2>9 DEF VInv, RightOf
<1>c. ASSUME check.at = "condition"
      PROVE  /\ check \in CheckState /\ Placed(check) /\ CurrentIf.res_path \in Path
             /\ ~check.overtaken /\ ~check.ticked => ~check.failed
             /\ LockObjsFromPath(CurrentIf.res_path) = Live[CurrentIf.res_path]
             /\ ExpiredFrom(CurrentIf.res_path) \in SUBSET DOMAIN token2lock_obj
  <2>1. check \in CheckState /\ Placed(check)
    BY <1>a, <1>b, <1>c DEF Sound
  <2>2. CurrentIf.res_path \in Path
    BY <2>1, ConditionNow
  <2>3. ~check.overtaken /\ ~check.ticked => ~check.failed
    BY <1>b, <1>c DEF VInv, RightOf, Right, Going
  <2>4. QED
    BY <1>a, <2>1, <2>2, <2>3, ToldOfLive, EntriesAreLocks
<1>d. \A t \in ExpiredFrom(CurrentIf.res_path) : IsExpired(t)
  BY DEF ExpiredFrom
\* The condition that is looked at, and the locks that are live on its resource.
<1> DEFINE live == Live[CurrentIf.res_path]
           cond == CurrentCondition
           here == <<check.request_if, check.group, check.condition>>
<1>3. ASSUME CheckNoLock
      PROVE  VInv'
  <2>1. /\ check.at = "condition" /\ now' = now /\ etag' = etag /\ cond.type = "NO_LOCK"
    BY <1>3 DEF CheckNoLock
  <2>2. /\ here \in FailingNow <=> ~(cond.is_not /\ live # {})
        /\ here \in HardNow <=> here \in FailingNow
    BY <1>c, <2>1, ConditionNow DEF HoldsIn
  <2>3. CASE cond.is_not
    <3> DEFINE none == live = {}
               ck   == [check EXCEPT !.locked = @ \/ none]
    <3>1. /\ Drop(ExpiredFrom(CurrentIf.res_path))
          /\ check' = EndOfCondition(ck, none)
      BY <1>3, <1>c, <2>1, <2>3 DEF CheckNoLock, GetLockObjsFromPath
    <3>2. none \in BOOLEAN /\ (none <=> here \in FailingNow)
      BY <2>2, <2>3
    <3> HIDE DEF none
    <3>3. /\ ck \in CheckState /\ ck.at = "condition" /\ Looks(check, ck) /\ Rest(check, ck)
          /\ ck.failed = check.failed
      BY <1>c, <2>1, <3>2 DEF CheckState, Looks, Rest
    <3>4. ck.locked <=> check.locked \/ none
      BY <1>c, <2>1 DEF CheckState
    <3> HIDE DEF ck
    <3>5. ~check.overtaken /\ ~check.ticked =>
            FoundToHold(check, ck, none, FailingNow) \/ FoundLocked(check, ck, FailingNow)
      BY <1>c, <2>1, <3>2, <3>3, <3>4 DEF FoundToHold, FoundLocked, CurrentCondition, CurrentIf
    <3>6. QED
      BY <1>c, <1>d, <2>1, <3>1, <3>2, <3>3, <3>5, ConditionIsRight
  <2>4. CASE ~cond.is_not
    <3> DEFINE ck == [check EXCEPT !.failed = TRUE]
    <3>1. UNCHANGED keeperVars /\ check' = EndOfCondition(ck, TRUE)
      BY <1>3, <2>4 DEF CheckNoLock
    <3>2. /\ ck \in CheckState /\ ck.at = "condition" /\ Looks(check, ck) /\ Rest(check, ck)
          /\ ck.failed = TRUE
      BY <1>c, <2>1 DEF CheckState, Looks, Rest
    <3> HIDE DEF ck
    <3>3. FoundToFail(check, ck, TRUE, FailingNow, HardNow)
      BY <2>2, <2>4, <3>2 DEF FoundToFail
    <3>4. {} \in SUBSET DOMAIN token2lock_obj
      OBVIOUS
    <3>5. QED
      BY <1>c, <2>1, <3>1, <3>2, <3>3, <3>4, ConditionIsRight
  <2>5. QED
    BY <2>3, <2>4
<1>4. ASSUME CheckNotToken
      PROVE  VInv'
  <2>1. /\ check.at = "condition" /\ now' = now /\ etag' = etag
        /\ cond.type = "TOKEN" /\ cond.is_not
    BY <1>4 DEF CheckNotToken
  <2>2. /\ here \in FailingNow <=> ~(cond.data # BadToken /\ cond.data \notin live)
        /\ here \in HardNow <=> here \in FailingNow /\ cond.data = BadToken
    BY <1>c, <2>1, ConditionNow DEF HoldsIn
  <2>3. CASE cond.data = BadToken
    <3> DEFINE ck == [check EXCEPT !.failed = TRUE]
    <3>1. UNCHANGED keeperVars /\ check' = EndOfCondition(ck, TRUE)
      BY <1>4, <2>3 DEF CheckNotToken
    <3>2. /\ ck \in CheckState /\ ck.at = "condition" /\ Looks(check, ck) /\ Rest(check, ck)
          /\ ck.failed = TRUE
      BY <1>c, <2>1 DEF CheckState, Looks, Rest
    <3> HIDE DEF ck
    <3>3. FoundToFail(check, ck, TRUE, FailingNow, HardNow)
      BY <2>2, <2>3, <3>2 DEF FoundToFail
    <3>4. {} \in SUBSET DOMAIN token2lock_obj
      OBVIOUS
    <3>5. QED
      BY <1>c, <2>1, <3>1, <3>2, <3>3, <3>4, ConditionIsRight
  <2>4. CASE cond.data # BadToken
    <3> DEFINE hit == cond.data \in live
               ck  == [check EXCEPT !.locked = @ \/ hit]
    <3>1. /\ Drop(ExpiredFrom(CurrentIf.res_path))
          /\ check' = EndOfCondition(ck, FALSE)
      BY <1>4, <1>c, <2>1, <2>4 DEF CheckNotToken, GetLockObjsFromPath
    <3>2. hit \in BOOLEAN /\ (hit <=> here \in FailingNow)
      BY <2>2, <2>4
    <3> HIDE DEF hit
    <3>3. /\ ck \in CheckState /\ ck.at = "condition" /\ Looks(check, ck) /\ Rest(check, ck)
          /\ ck.failed = check.failed
      BY <1>c, <2>1, <3>2 DEF CheckState, Looks, Rest
    <3>4. ck.locked <=> check.locked \/ hit
      BY <1>c, <2>1 DEF CheckState
    <3> HIDE DEF ck
    <3>5. ~check.overtaken /\ ~check.ticked =>
            FoundToHold(check, ck, FALSE, FailingNow) \/ FoundLocked(check, ck, FailingNow)
      BY <1>c, <2>1, <3>2, <3>3, <3>4 DEF FoundToHold, FoundLocked, CurrentCondition, CurrentIf
    <3>6. QED
      BY <1>c, <1>d, <2>1, <3>1, <3>3, <3>5, ConditionIsRight
  <2>5. QED
    BY <2>3, <2>4
<1>5. ASSUME CheckToken
      PROVE  VInv'
  <2> DEFINE gone == {t \in {cond.data} \intersect DOMAIN token2lock_obj :
                         IsLockingPath(t, CurrentIf.res_path) /\ IsExpired(t)}
  <2>1. /\ check.at = "condition" /\ now' = now /\ etag' = etag
        /\ cond.type = "TOKEN" /\ ~cond.is_not
    BY <1>5 DEF CheckToken
  <2>2. /\ here \in FailingNow <=> ~(cond.data # BadToken /\ cond.data \in live)
        /\ here \in HardNow <=> here \in FailingNow /\ cond.data = BadToken
    BY <1>c, <2>1, ConditionNow DEF HoldsIn
  <2>3. IsValidLockToken(cond.data, CurrentIf.res_path) <=> cond.data \in live
    BY <1>a, <1>c, <2>1, ToldOfLive
  <2>4. gone \in SUBSET DOMAIN token2lock_obj /\ \A t \in gone : IsExpired(t)
    OBVIOUS
  <2>5. CASE cond.data = BadToken
    <3> DEFINE ck == [check EXCEPT !.failed = TRUE]
    <3>1. UNCHANGED keeperVars /\ check' = EndOfCondition(ck, TRUE)
      BY <1>5, <2>5 DEF CheckToken
    <3>2. /\ ck \in CheckState /\ ck.at = "condition" /\ Looks(check, ck) /\ Rest(check, ck)
          /\ ck.failed = TRUE
      BY <1>c, <2>1 DEF CheckState, Looks, Rest
    <3> HIDE DEF ck
    <3>3. FoundToFail(check, ck, TRUE, FailingNow, HardNow)
      BY <2>2, <2>5, <3>2 DEF FoundToFail
    <3>4. {} \in SUBSET DOMAIN token2lock_obj
      OBVIOUS
    <3>5. QED
      BY <1>c, <2>1, <3>1, <3>2, <3>3, <3>4, ConditionIsRight
  <2>6. CASE cond.data # BadToken /\ cond.data \in live
    <3> DEFINE ck == [check EXCEPT !.checked = @ \union {cond.data}]
    <3>1. Drop(gone) /\ check' = EndOfCondition(ck, FALSE)
      BY <1>5, <2>3, <2>6 DEF CheckToken, CheckLockToken
    <3>2. cond.data \in Token
      BY <1>a, <1>c, <2>1, <2>6 DEF Live, LiveOn, KeeperInv, KeeperTypeOK
    <3> HIDE DEF gone, cond
    <3>3. /\ ck \in CheckState /\ ck.at = "condition" /\ Looks(check, ck) /\ Rest(check, ck)
          /\ ck.failed = check.failed /\ ck.locked = check.locked /\ cond.data \in ck.checked
      BY <1>c, <2>1, <3>2 DEF CheckState, Looks, Rest
    <3> HIDE DEF ck
    <3>4. ~check.overtaken /\ ~check.ticked => FoundToHold(check, ck, FALSE, FailingNow)
      BY <1>c, <2>1, <2>2, <2>6, <3>3 DEF FoundToHold, CurrentCondition, CurrentIf, cond
    <3>5. QED
      BY <1>c, <2>1, <2>4, <3>1, <3>3, <3>4, ConditionIsRight
  <2>7. CASE cond.data # BadToken /\ cond.data \notin live
    <3> DEFINE ck == [check EXCEPT !.locked = TRUE]
    <3>1. Drop(gone) /\ check' = EndOfCondition(ck, TRUE)
      BY <1>5, <2>3, <2>7 DEF CheckToken, CheckLockToken
    <3> HIDE DEF gone
    <3>2. /\ ck \in CheckState /\ ck.at = "condition" /\ Looks(check, ck) /\ Rest(check, ck)
          /\ ck.failed = check.failed /\ ck.locked = TRUE
      BY <1>c, <2>1 DEF CheckState, Looks, Rest
    <3> HIDE DEF ck
    <3>3. ~check.overtaken /\ ~check.ticked => FoundLocked(check, ck, FailingNow)
      BY <1>c, <2>1, <2>2, <2>7, <3>2 DEF FoundLocked
    <3>4. QED
      BY <1>c, <2>1, <2>4, <3>1, <3>2, <3>3, ConditionIsRight
  <2>8. QED
    BY <2>5, <2>6, <2>7
\* The handler waits for the ETag: the table does not change meanwhile.
<1>e. UNCHANGED vars => Live' = Live
  BY DEF vars, Live
<1>6. ASSUME CheckEtag
      PROVE  VInv'
  <2>1. /\ check.at = "condition" /\ UNCHANGED <<vars, etag>>
        /\ check' = [check EXCEPT !.at = "stat"]
    BY <1>6 DEF CheckEtag
  <2>2. check \in CheckState
    BY <1>c, <2>1
  <2>3. /\ check'.at = "stat" /\ Rest(check, check')
        /\ check'.request_if = check.request_if /\ check'.group = check.group
        /\ check'.condition = check.condition /\ check'.unchecked = check.unchecked
        /\ check'.checked = check.checked /\ check'.locked = check.locked
        /\ check'.failed = check.failed
    BY <2>1, <2>2 DEF CheckState, Rest
  <2>4. ASSUME ~check'.overtaken, ~check'.ticked
        PROVE  RightOf(check', Live, etag)
    BY <1>b, <2>1, <2>3, <2>4
       DEF VInv, RightOf, Right, Rest, Going, SoFar, HereOK, Upto
  <2>5. CurrentCondition' = CurrentCondition /\ CurrentCondition.type = "ETAG"
    BY <1>6, <2>3 DEF CheckEtag, CurrentCondition, CurrentIf, Rest
  <2>6. QED
    BY <1>e, <2>1, <2>3, <2>4, <2>5 DEF VInv, RightOf
<1>7. ASSUME StatEtag
      PROVE  VInv'
  <2>1. /\ check.at = "stat" /\ UNCHANGED <<vars, etag>>
        /\ check' = [check EXCEPT !.at = "resume", !.etag = etag[CurrentIf.res_path]]
    BY <1>7 DEF StatEtag
  <2>2. check \in CheckState
    BY <1>a, <1>b, <2>1
  <2>3. /\ check'.at = "resume" /\ Rest(check, check')
        /\ check'.request_if = check.request_if /\ check'.group = check.group
        /\ check'.condition = check.condition /\ check'.unchecked = check.unchecked
        /\ check'.checked = check.checked /\ check'.locked = check.locked
        /\ check'.failed = check.failed /\ check'.etag = etag[CurrentIf.res_path]
    BY <2>1, <2>2 DEF CheckState, Rest
  <2>4. ASSUME ~check'.overtaken, ~check'.ticked
        PROVE  RightOf(check', Live, etag)
    BY <1>b, <2>1, <2>3, <2>4
       DEF VInv, RightOf, Right, Rest, Going, SoFar, HereOK, Upto
  <2>5. CurrentIf' = CurrentIf /\ CurrentCondition' = CurrentCondition
    BY <2>3 DEF CurrentIf, CurrentCondition, Rest
  <2>6. ~check'.overtaken /\ ~check'.ticked => CurrentCondition.type = "ETAG"
    BY <1>b, <2>1, <2>3 DEF VInv, Rest
  <2>7. QED
    BY <2>6, <1>e, <2>1, <2>3, <2>4, <2>5 DEF VInv, RightOf
<1>8. ASSUME ResumeEtag
      PROVE  VInv'
  <2> DEFINE failed == (check.etag = CurrentCondition.data) = CurrentCondition.is_not
             ck     == [check EXCEPT !.at = "condition", !.etag = NoEtag, !.failed = failed]
  <2>1. /\ check.at = "resume" /\ UNCHANGED <<vars, etag>>
        /\ check' = IF check.etag = NoEtag
                    THEN [check EXCEPT !.at = "raised"]
                    ELSE EndOfCondition(ck, failed)
    BY <1>8 DEF ResumeEtag
  <2>2. check \in CheckState /\ Placed(check)
    BY <1>a, <1>b, <2>1 DEF Sound
  <2>3. CASE check.etag = NoEtag
    <3>1. check'.at = "raised"
      BY <2>1, <2>2, <2>3 DEF CheckState
    <3>2. QED
      BY <3>1 DEF VInv, RightOf, Right
  <2>4. CASE check.etag # NoEtag
    <3>1. failed \in BOOLEAN /\ check' = EndOfCondition(ck, failed)
      BY <2>1, <2>4
    <3>2. cond \in Condition /\ cond.is_not \in BOOLEAN
      BY <2>2, ConditionNow DEF Condition
    <3>3. failed <=> (check.etag = cond.data <=> cond.is_not)
      BY <3>2, Zenon
    <3> HIDE DEF failed
    <3>4. /\ ck \in CheckState /\ ck.at = "condition" /\ Looks(check, ck) /\ Rest(check, ck)
          /\ ck.locked = check.locked
      BY <2>2, <3>1 DEF CheckState, Position, Looks, Rest
    <3>5. ck.failed <=> failed
      BY <2>2 DEF CheckState
    <3> HIDE DEF ck
    <3>6. ASSUME ~check.overtaken, ~check.ticked
          PROVE  \/ FoundToHold(check, ck, failed, FailingNow)
                 \/ FoundToFail(check, ck, failed, FailingNow, HardNow)
      <4>1. check.etag = etag[CurrentIf.res_path]
        BY <1>b, <2>1, <3>6 DEF VInv
      <4>2. cond.type = "ETAG"
        BY <1>b, <2>1, <3>6 DEF VInv
      <4>3. /\ here \in FailingNow <=> ~(cond.is_not <=> cond.data # check.etag)
            /\ here \in HardNow <=> here \in FailingNow
        BY <2>2, <4>1, <4>2, ConditionNow DEF HoldsIn
      <4>4. (check.etag = cond.data <=> cond.is_not) <=> ~(cond.is_not <=> cond.data # check.etag)
        OBVIOUS
      <4>5. here \in FailingNow <=> failed
        BY <3>3, <4>3, <4>4
      <4>6. CASE failed
        BY <3>4, <3>5, <4>3, <4>5, <4>6 DEF FoundToFail, Looks
      <4>7. CASE ~failed
        BY <3>4, <3>5, <4>2, <4>5, <4>7 DEF FoundToHold, CurrentCondition, CurrentIf
      <4>8. QED
        BY <4>6, <4>7
    <3>7. {} \in SUBSET DOMAIN token2lock_obj /\ UNCHANGED keeperVars /\ now' = now /\ etag' = etag
      BY <2>1 DEF vars, keeperVars
    <3>8. QED
      BY <2>1, <2>2, <3>1, <3>4, <3>6, <3>7, ConditionIsRight
  <2>5. QED
    BY <2>3, <2>4
<1>9. ASSUME Answer
      PROVE  VInv'
  BY <1>9 DEF Answer, VInv
<1>10. ASSUME OtherHandler
       PROVE  VInv'
  <2>1. check' = IF Suspended THEN [check EXCEPT !.overtaken = TRUE] ELSE check
    BY <1>10 DEF OtherHandler
  <2>2. CASE Suspended
    <3>1. check \in CheckState
      BY <1>a, <2>2 DEF Suspended, NoCheck
    <3>2. check'.overtaken = TRUE
      BY <2>1, <2>2, <3>1 DEF CheckState
    <3>3. QED
      BY <3>2 DEF VInv
  <2>3. CASE ~Suspended
    BY <1>10, <2>1, <2>3 DEF OtherHandler, OthersRun, VInv
  <2>4. QED
    BY <2>2, <2>3
<1>11. ASSUME OtherChange
       PROVE  VInv'
  <2>1. Suspended /\ check' = [check EXCEPT !.overtaken = TRUE]
    BY <1>11 DEF OtherChange
  <2>2. check \in CheckState
    BY <1>a, <2>1 DEF Suspended, NoCheck
  <2>3. check'.overtaken = TRUE
    BY <2>1, <2>2 DEF CheckState
  <2>4. QED
    BY <2>3 DEF VInv
<1>12. ASSUME TickCheck
       PROVE  VInv'
  <2>1. check' = IF check = NoCheck THEN check ELSE [check EXCEPT !.ticked = TRUE]
    BY <1>12 DEF TickCheck
  <2>2. CASE check = NoCheck
    BY <2>1, <2>2 DEF VInv
  <2>3. CASE check # NoCheck
    <3>1. check'.ticked = TRUE
      BY <1>a, <2>1, <2>3 DEF CheckState
    <3>2. QED
      BY <3>1 DEF VInv
  <2>4. QED
    BY <2>2, <2>3
<1>13. CASE UNCHANGED checkVars
  <2>1. UNCHANGED <<vars, etag, check>>
    BY <1>13 DEF checkVars
  <2>2. CurrentIf' = CurrentIf /\ CurrentCondition' = CurrentCondition
    BY <2>1 DEF CurrentIf, CurrentCondition
  <2>3. QED
    BY <1>e, <2>1, <2>2 DEF VInv, RightOf
<1>14. QED
  BY <1>1, <1>2, <1>3, <1>4, <1>5, <1>6, <1>7, <1>8, <1>9, <1>10, <1>11, <1>12, <1>13
     DEF NextCheck, CheckRequest

-----------------------------------------------------------------------------
\* What the record keeps of the loops stands, request by request, for what the header
\* and the table say (_check_request_ifs_with_res_paths).
LEMMA VInvAlways == SpecCheck => [](IfInv /\ VInv)
<1>1. InitCheck => IfInv /\ VInv
  BY InitIfInv, InitVInv
<1>2. IfInv /\ VInv /\ [NextCheck]_checkVars => (IfInv /\ VInv)'
  BY NextIfInv, NextVInv
<1>3. QED
  BY <1>1, <1>2, PTL DEF SpecCheck

\* Whatever the header and the locks: when nothing comes in between, a request passes
\* its check only if one list of every resource holds; it passes if moreover these
\* lists submit the tokens of all locks; and a 412 has a condition to blame.
THEOREM VerdictAlwaysWhatHeaderSays == SpecCheck => []VerdictIsWhatHeaderSays
<1>1. IfInv /\ VInv => VerdictIsWhatHeaderSays
  <2> SUFFICES ASSUME IfInv, VInv, check.at = "done", ~check.overtaken, ~check.ticked
               PROVE  /\ Passed => HeaderHolds
                      /\ HeaderHolds /\ LocksOnResources \subseteq TokensOfHeader => Passed
                      /\ check.failed =>
                           \E i \in DOMAIN check.request_ifs :
                               LET request_if == check.request_ifs[i]
                                   last       == request_if.conditions[Len(request_if.conditions)]
                               IN  \E c \in DOMAIN last :
                                       /\ ~Holds(last[c], request_if.res_path)
                                       /\ last[c].type = "TOKEN" => last[c].data = BadToken
    BY DEF VerdictIsWhatHeaderSays
  <2> DEFINE ifs == check.request_ifs
             M   == Marked(check.res_paths, Live)
  <2>1. check # NoCheck /\ KeeperInv
    BY DEF NoCheck, IfInv, Inv
  <2>2. check \in CheckState
    BY <2>1 DEF IfInv, Sound
  <2>3. Ended(check, FailingNow, HardNow, M)
    BY <2>1 DEF VInv, RightOf, Right, FailingNow, HardNow
  <2>4. ifs \in RequestIfs
    BY <2>2 DEF CheckState
  <2>5. ASSUME NEW i \in DOMAIN ifs, NEW g \in DOMAIN ifs[i].conditions,
               NEW c \in DOMAIN ifs[i].conditions[g]
        PROVE  /\ <<i, g, c>> \in FailingNow <=> ~Holds(ifs[i].conditions[g][c], ifs[i].res_path)
               /\ <<i, g, c>> \in HardNow =>
                    /\ ~Holds(ifs[i].conditions[g][c], ifs[i].res_path)
                    /\ ifs[i].conditions[g][c].type = "TOKEN"
                         => ifs[i].conditions[g][c].data = BadToken
    <3>1. ifs[i].res_path \in Path
      BY <2>4, HeadersAreFull
    <3>2. ifs[i].conditions[g][c] \in Condition
      BY <2>4, FailingHere
    <3>3. Holds(ifs[i].conditions[g][c], ifs[i].res_path) <=>
            HoldsIn(ifs[i].conditions[g][c], Live[ifs[i].res_path], etag[ifs[i].res_path])
      BY <2>1, <3>1, <3>2, HoldsByLive
    <3>4. ASSUME NEW live, NEW tags
          PROVE  /\ <<i, g, c>> \in Failing(ifs, live, tags) <=>
                      ~HoldsIn(ifs[i].conditions[g][c], live[ifs[i].res_path], tags[ifs[i].res_path])
                 /\ <<i, g, c>> \in Hard(ifs, live, tags) <=>
                      /\ ~HoldsIn(ifs[i].conditions[g][c], live[ifs[i].res_path], tags[ifs[i].res_path])
                      /\ ifs[i].conditions[g][c].type = "TOKEN"
                           => ifs[i].conditions[g][c].data = BadToken
      <4> HIDE DEF ifs
      <4>1. QED
        BY <2>4, FailingHere
    <3>5. QED
      BY <3>3, <3>4 DEF FailingNow, HardNow
  <2>6. ASSUME NEW i \in DOMAIN ifs, NEW g \in DOMAIN ifs[i].conditions
        PROVE  ListOK(ifs, FailingNow, i, g) <=> ListHolds(ifs[i].conditions[g], ifs[i].res_path)
    BY <2>5 DEF ListOK, ListHolds
  <2>7. HeaderHolds <=> AllOK(ifs, FailingNow, DOMAIN ifs)
    BY <2>6 DEF HeaderHolds, AllOK
  <2>8. Passed => HeaderHolds
    BY <2>3, <2>7 DEF Passed, Ended
  <2>9. ASSUME HeaderHolds, LocksOnResources \subseteq TokensOfHeader, ~Passed
        PROVE  FALSE
    <3>1. /\ check.unchecked # {} /\ check.unchecked \subseteq M
          /\ Withheld(ifs, FailingNow, DOMAIN ifs, check.unchecked)
      BY <2>3, <2>7, <2>9 DEF Passed, Ended
    <3>2. PICK t \in check.unchecked : TRUE
      BY <3>1
    <3>3. PICK j \in DOMAIN check.res_paths : t \in Live[check.res_paths[j]]
      BY <3>1, <3>2 DEF Marked
    <3>4. check.res_paths[j] \in Path
      BY <2>2, IfAssumption DEF CheckState
    <3>5. t \in LocksOnResources
      BY <2>1, <3>3, <3>4, ToldOfLive DEF LocksOnResources
    <3>6. PICK i \in DOMAIN ifs : t \in TokensOf(ifs[i].conditions[FirstList(ifs[i])])
      BY <2>9, <3>5 DEF TokensOfHeader
    <3> DEFINE g == FirstList(ifs[i])
    <3>7. g \in DOMAIN ifs[i].conditions /\ Chosen(ifs, FailingNow, i, g)
      <4>1. ifs[i] \in RequestIf
        BY <2>4, <3>6, HeadersAreFull
      <4>2. ifs[i].conditions \in Seq(Seq(Condition))
        BY <4>1 DEF RequestIf
      <4> DEFINE S == {h \in DOMAIN ifs[i].conditions :
                         ListHolds(ifs[i].conditions[h], ifs[i].res_path)}
      <4>3. S \in SUBSET Nat /\ S # {}
        BY <2>9, <4>2 DEF HeaderHolds
      <4>4. PICK h \in S : \A k \in S : h <= k
        <5> HIDE DEF S
        <5>1. QED
          BY <4>3, Smallest
      <4>5. \A k \in 1 .. h - 1 : k \in DOMAIN ifs[i].conditions /\ k \notin S
        BY <4>2, <4>4
      <4>6. \A k \in 1 .. h - 1 : ~ListHolds(ifs[i].conditions[k], ifs[i].res_path)
        BY <4>5
      <4>7. /\ g \in DOMAIN ifs[i].conditions
            /\ ListHolds(ifs[i].conditions[g], ifs[i].res_path)
            /\ \A k \in 1 .. g - 1 : ~ListHolds(ifs[i].conditions[k], ifs[i].res_path)
        BY <4>4, <4>6 DEF FirstList
      <4> HIDE DEF g, S
      <4>8. \A k \in 1 .. g - 1 : k \in DOMAIN ifs[i].conditions
        BY <4>2, <4>7
      <4>9. QED
        BY <2>6, <4>7, <4>8 DEF Chosen
    <3> HIDE DEF g
    <3>8. TokensOf(ifs[i].conditions[g]) \intersect check.unchecked = {}
      BY <3>1, <3>7 DEF Withheld
    <3>9. QED
      BY <3>2, <3>6, <3>8 DEF g
  <2>10. ASSUME check.failed
         PROVE  \E i \in DOMAIN ifs :
                   LET last == ifs[i].conditions[Len(ifs[i].conditions)]
                   IN  \E c \in DOMAIN last :
                           /\ ~Holds(last[c], ifs[i].res_path)
                           /\ last[c].type = "TOKEN" => last[c].data = BadToken
    <3>1. PICK i \in DOMAIN ifs :
            \E c \in DOMAIN ifs[i].conditions[Len(ifs[i].conditions)] :
                <<i, Len(ifs[i].conditions), c>> \in HardNow
      BY <2>3, <2>10 DEF Ended
    <3>2. ifs[i] \in RequestIf /\ ifs[i].conditions # <<>>
      BY <2>4, IfAssumption
    <3>3. ifs[i].conditions \in Seq(Seq(Condition))
      BY <3>2 DEF RequestIf
    <3>4. Len(ifs[i].conditions) \in DOMAIN ifs[i].conditions
      BY <3>2, <3>3
    <3>5. QED
      BY <2>5, <3>1, <3>4
  <2>11. QED
    BY <2>8, <2>9, <2>10
<1>2. QED
  BY <1>1, VInvAlways, PTL
=============================================================================
