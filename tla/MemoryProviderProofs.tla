------------------------ MODULE MemoryProviderProofs ------------------------
(***************************************************************************)
(* What fs_lock does for the memory provider: for any requests, tasks,     *)
(* paths and contents, a PUT finds the tree at the end of its body as it   *)
(* was at the beginning, and the provider does what it would do if it      *)
(* served one request after the other.                                     *)
(*                                                                         *)
(* The argument is the ownership of fs_lock.  A task that receives a body  *)
(* has it, so there is one such task at most, and no other task changes    *)
(* the tree meanwhile.  That nobody else enters rests on the queue: a      *)
(* waiter stands in it once, and leaves it when it is woken.               *)
(*                                                                         *)
(* Of the lock table, that a lock granted before a request was checked     *)
(* never stands against it later: the check missed none, what it purged is *)
(* gone, and no token comes back.                                          *)
(***************************************************************************)
EXTENDS MemoryProvider, DAVLockingProofs

TaskState ==
    {IdleTask}
    \union [at : {"waiting"}, request : Requests, granted : SUBSET Token]
    \union [at : {"receiving"}, request : Requests, parts : 0 .. MaxParts - 1,
            existed : BOOLEAN, granted : SUBSET Token]

Receives(t) == task[t].at = "receiving"

Queued(waiters, t) == \E i \in DOMAIN waiters : waiters[i] = t

ProviderInv ==
    /\ task \in [Task -> TaskState]
    /\ fs_lock \in [locked : BOOLEAN, waiters : Seq(Task)]
    /\ \A i, j \in DOMAIN fs_lock.waiters : fs_lock.waiters[i] = fs_lock.waiters[j] => i = j
    /\ \A t \in Task : task[t].at = "waiting" <=> Queued(fs_lock.waiters, t)
    /\ \A t \in Task : Receives(t) => fs_lock.locked /\ task[t].request.method = "PUT"
    /\ \A t, u \in Task : Receives(t) /\ Receives(u) => t = u
    /\ PutStillStands

-----------------------------------------------------------------------------
\* The head of a queue without repetitions leaves it, and the others stay.
LEMMA TailLeaves ==
    ASSUME NEW S, NEW w \in Seq(S), w # <<>>, \A i, j \in DOMAIN w : w[i] = w[j] => i = j
    PROVE  /\ Tail(w) \in Seq(S)
           /\ \A i, j \in DOMAIN Tail(w) : Tail(w)[i] = Tail(w)[j] => i = j
           /\ \A t : Queued(Tail(w), t) <=> Queued(w, t) /\ t # Head(w)
<1>1. /\ Tail(w) \in Seq(S) /\ Len(Tail(w)) = Len(w) - 1 /\ Len(w) \in Nat \ {0}
      /\ \A i \in 1 .. Len(w) - 1 : Tail(w)[i] = w[i + 1]
      /\ Head(w) = w[1] /\ DOMAIN w = 1 .. Len(w) /\ DOMAIN Tail(w) = 1 .. Len(w) - 1
  OBVIOUS
<1>2. \A i, j \in DOMAIN Tail(w) : Tail(w)[i] = Tail(w)[j] => i = j
  <2>1. SUFFICES ASSUME NEW i \in DOMAIN Tail(w), NEW j \in DOMAIN Tail(w),
                        Tail(w)[i] = Tail(w)[j]
                 PROVE  i = j
    OBVIOUS
  <2>2. i \in Nat /\ j \in Nat /\ i + 1 \in DOMAIN w /\ j + 1 \in DOMAIN w
    BY <1>1
  <2>3. i + 1 = j + 1
    BY <1>1, <2>1, <2>2
  <2>4. QED
    BY <2>2, <2>3
<1>3. ASSUME NEW t
      PROVE  Queued(Tail(w), t) <=> Queued(w, t) /\ t # Head(w)
  <2>1. ASSUME NEW i \in DOMAIN Tail(w), Tail(w)[i] = t
        PROVE  Queued(w, t) /\ t # Head(w)
    <3>1. i \in Nat \ {0} /\ i + 1 \in DOMAIN w /\ w[i + 1] = t /\ 1 \in DOMAIN w
      BY <1>1, <2>1
    <3>2. i + 1 # 1
      BY <3>1
    <3>3. QED
      BY <1>1, <3>1, <3>2 DEF Queued
  <2>2. ASSUME NEW i \in DOMAIN w, w[i] = t, t # Head(w)
        PROVE  Queued(Tail(w), t)
    <3>1. i \in Nat /\ i # 1 /\ i - 1 \in DOMAIN Tail(w) /\ Tail(w)[i - 1] = t
      BY <1>1, <2>2
    <3>2. QED
      BY <3>1 DEF Queued
  <2>3. QED
    BY <2>1, <2>2 DEF Queued
<1>4. QED
  BY <1>1, <1>2, <1>3

\* A task that joins the queue is queued once, and the others stay queued.
LEMMA AppendJoins ==
    ASSUME NEW S, NEW w \in Seq(S), NEW u \in S, ~Queued(w, u),
           \A i, j \in DOMAIN w : w[i] = w[j] => i = j
    PROVE  /\ Append(w, u) \in Seq(S)
           /\ \A i, j \in DOMAIN Append(w, u) : Append(w, u)[i] = Append(w, u)[j] => i = j
           /\ \A t : Queued(Append(w, u), t) <=> Queued(w, t) \/ t = u
<1> DEFINE a == Append(w, u)
<1>1. /\ a \in Seq(S) /\ Len(a) = Len(w) + 1 /\ Len(w) \in Nat
      /\ \A i \in 1 .. Len(w) : a[i] = w[i]
      /\ a[Len(w) + 1] = u /\ DOMAIN w = 1 .. Len(w) /\ DOMAIN a = 1 .. Len(w) + 1
  OBVIOUS
<1> HIDE DEF a
<1>2. \A i \in DOMAIN a : i \in DOMAIN w \/ i = Len(w) + 1
  BY <1>1
<1>3. \A i \in DOMAIN w : i \in DOMAIN a /\ a[i] = w[i] /\ a[i] # u
  BY <1>1 DEF Queued
<1>4. Len(w) + 1 \in DOMAIN a
  BY <1>1
<1>5. \A i, j \in DOMAIN a : a[i] = a[j] => i = j
  BY <1>1, <1>2, <1>3
<1>6. \A t : Queued(a, t) <=> Queued(w, t) \/ t = u
  BY <1>1, <1>2, <1>3, <1>4 DEF Queued
<1>7. QED
  BY <1>1, <1>5, <1>6 DEF a

-----------------------------------------------------------------------------
\* At first nobody has fs_lock and nobody waits.
LEMMA InitProviderInv == InitProvider => ProviderInv
<1> SUFFICES ASSUME InitProvider PROVE ProviderInv
  OBVIOUS
<1>1. /\ task = [t \in Task |-> IdleTask]
      /\ fs_lock = [locked |-> FALSE, waiters |-> <<>>]
  BY DEF InitProvider
<1>2. \A t \in Task : task[t].at = "idle"
  BY <1>1 DEF IdleTask
<1>3. task \in [Task -> TaskState] /\ fs_lock \in [locked : BOOLEAN, waiters : Seq(Task)]
  BY <1>1 DEF TaskState
<1>4. DOMAIN fs_lock.waiters = {}
  BY <1>1
<1>5. QED
  BY <1>2, <1>3, <1>4 DEF ProviderInv, PutStillStands, Receives, Queued

\* The task that takes fs_lock, at once or as the first waiter.
LEMMA EnterKeeps ==
    ASSUME ProviderInv, NEW t \in Task, NEW r \in Requests,
           NEW granted \in SUBSET Token, NEW suspended \in BOOLEAN,
           ~fs_lock.locked, Enter(t, r, granted, suspended),
           IF suspended THEN fs_lock.waiters # <<>> /\ t = Head(fs_lock.waiters)
                        ELSE task[t] = IdleTask
    PROVE  ProviderInv'
<1> DEFINE w    == fs_lock.waiters
           left == WaitersLeft(suspended)
<1>1. \A u \in Task : ~Receives(u)
  BY DEF ProviderInv
<1>2. w \in Seq(Task) /\ \A i, j \in DOMAIN w : w[i] = w[j] => i = j
  BY DEF ProviderInv
<1>3. /\ left \in Seq(Task) /\ \A i, j \in DOMAIN left : left[i] = left[j] => i = j
      /\ \A u \in Task : Queued(left, u) <=> Queued(w, u) /\ u # t
  <2>1. CASE suspended
    BY <1>2, <2>1, TailLeaves DEF WaitersLeft
  <2>2. CASE ~suspended
    <3>1. ~Queued(w, t)
      BY <2>2 DEF ProviderInv, IdleTask
    <3>2. QED
      BY <1>2, <2>2, <3>1 DEF WaitersLeft
  <2>3. QED
    BY <2>1, <2>2
<1>4. task \in [Task -> TaskState] /\ \A u \in Task : task[u].at = "waiting" <=> Queued(w, u)
  BY DEF ProviderInv
<1> HIDE DEF left, w
<1>5. CASE /\ AsksPut(r)
           /\ task' = [task EXCEPT ![t] = [at |-> "receiving", request |-> r, parts |-> 0,
                                           existed |-> HasNode(fs, r.path), granted |-> granted]]
           /\ fs_lock' = [locked |-> TRUE, waiters |-> left]
           /\ UNCHANGED <<fs, last, served>>
  <2> DEFINE new == [at |-> "receiving", request |-> r, parts |-> 0,
                     existed |-> HasNode(fs, r.path), granted |-> granted]
  <2>1. new \in TaskState
    <3>1. 0 \in 0 .. MaxParts - 1 /\ HasNode(fs, r.path) \in BOOLEAN
      BY RequestAssumption DEF HasNode
    <3>2. QED
      BY <3>1 DEF TaskState
  <2>2. /\ new.at = "receiving" /\ new.request = r /\ new.existed = HasNode(fs, r.path)
    OBVIOUS
  <2> HIDE DEF new
  <2>3. task' = [task EXCEPT ![t] = new]
    BY <1>5 DEF new
  <2>4. /\ task' \in [Task -> TaskState] /\ task'[t] = new
        /\ \A u \in Task : u # t => task'[u] = task[u]
    BY <1>4, <2>1, <2>3
  <2>5. fs_lock' \in [locked : BOOLEAN, waiters : Seq(Task)]
        /\ fs_lock'.waiters = left /\ fs_lock'.locked = TRUE
    BY <1>3, <1>5
  <2>6. \A u \in Task : task'[u].at = "waiting" <=> Queued(left, u)
    BY <1>3, <1>4, <2>2, <2>4
  <2>7. \A u \in Task : task'[u].at = "receiving" => u = t
    BY <1>1, <2>4 DEF Receives
  <2>8. r.method = "PUT" /\ PutRefusal(fs, r.path) = 0 /\ fs' = fs
    BY <1>5 DEF AsksPut
  <2>9. PutStillStands'
    BY <2>2, <2>4, <2>7, <2>8 DEF PutStillStands
  <2>10. QED
    BY <1>3, <2>2, <2>4, <2>5, <2>6, <2>7, <2>8, <2>9 DEF ProviderInv, Receives
<1>6. CASE /\ task' = [task EXCEPT ![t] = IdleTask]
           /\ fs_lock' = [locked |-> FALSE, waiters |-> left]
  <2>1. /\ task' \in [Task -> TaskState] /\ task'[t] = IdleTask
        /\ \A u \in Task : u # t => task'[u] = task[u]
    BY <1>4, <1>6 DEF TaskState
  <2>2. IdleTask.at = "idle"
    BY DEF IdleTask
  <2>3. fs_lock' \in [locked : BOOLEAN, waiters : Seq(Task)]
        /\ fs_lock'.waiters = left /\ fs_lock'.locked = FALSE
    BY <1>3, <1>6
  <2>4. \A u \in Task : task'[u].at = "waiting" <=> Queued(left, u)
    BY <1>3, <1>4, <2>1, <2>2
  <2>5. \A u \in Task : task'[u].at # "receiving"
    BY <1>1, <2>1, <2>2 DEF Receives
  <2>6. QED
    BY <1>3, <2>1, <2>3, <2>4, <2>5 DEF ProviderInv, PutStillStands, Receives
<1>7. QED
  BY <1>5, <1>6 DEF Enter, left

\* MKCOL and DELETE of the root, which take no lock, leave the tree alone.
LEMMA UnlockedChangesNothing ==
    ASSUME NEW r, ~NeedsFSLock(r), Perform(r)
    PROVE  fs' = fs
<1>1. r.path = Root /\ (DoMkcol(Root) \/ DoDelete(Root))
  BY DEF NeedsFSLock, Perform
<1>2. Mkcol(fs, Root) = Result(fs, 201) /\ Delete(fs, Root) = Result(fs, 201)
  BY DEF Mkcol, Delete
<1>3. QED
  BY <1>1, <1>2 DEF DoMkcol, DoDelete, Serve, Result

\* The invariant does not depend on what is left alone here.
LEMMA SameTasks ==
    ASSUME ProviderInv, UNCHANGED <<fs, task, fs_lock>>
    PROVE  ProviderInv'
BY DEF ProviderInv, Receives, Queued, PutStillStands, PutRefusal, IsFolder, HasNode

-----------------------------------------------------------------------------
(* The lock table under the provider's requests *)

\* A check purges expired locks; the rest is as DAVLocking has it.
LEMMA CheckKeepsTable ==
    ASSUME Inv, NEW t, NEW r, Arrive(t, r)
    PROVE  Inv' /\ Leave(UNION {ExpiredFrom(p) : p \in LockedResources(r)}) /\ issued' = issued
<1> DEFINE T == UNION {ExpiredFrom(p) : p \in LockedResources(r)}
<1>1. KeeperInv
  BY DEF Inv
<1>2. T \in SUBSET DOMAIN token2lock_obj
  BY <1>1, EntriesAreLocks
<1>3. Drop(T) /\ call = Idle /\ UNCHANGED <<now, read_only, call, reply>>
  BY DEF Arrive, NoneRunning
<1> HIDE DEF T
<1>4. KeeperInv' /\ Leave(T) /\ issued' = issued
  BY <1>1, <1>2, <1>3, DropKeeps, DropEffect DEF Drop
<1>5. TypeOK' /\ WhatIsHeldStands'
  BY <1>3, <1>4 DEF Inv, TypeOK, KeeperInv, WhatIsHeldStands, Idle
<1>6. QED
  BY <1>4, <1>5 DEF Inv, T

\* Every step of the provider keeps the invariant of the lock table.
LEMMA NextTableSound == Inv /\ [NextProvider]_provVars => Inv'
<1> SUFFICES ASSUME Inv, [NextProvider]_provVars PROVE Inv'
  OBVIOUS
<1>1. ASSUME NEW t \in Task, NEW r \in Requests, Arrive(t, r)
      PROVE  Inv'
  BY <1>1, CheckKeepsTable
<1>2. ASSUME NEW t \in Task, WakeUp(t) \/ Body(t)
      PROVE  UNCHANGED vars
  BY <1>2 DEF WakeUp, Body, ReceivePart, ReceiveLast, Disconnect, Finish
<1>3. LockTable \/ TickProvider => Next
  BY DEF LockTable, TickProvider, Next
<1>4. UNCHANGED provVars => UNCHANGED vars
  BY DEF provVars
<1>5. QED
  BY <1>1, <1>2, <1>3, <1>4, NextInv DEF NextProvider

\* The lock table is as sound under the requests of the provider as it is alone.
LEMMA TableSoundAlways == SpecProvider => []Inv
<1>1. InitProvider => Inv
  BY InitInv DEF InitProvider
<1>2. QED
  BY <1>1, NextTableSound, PTL DEF SpecProvider

\* Every step of the provider preserves the invariant.
LEMMA NextProviderInv == ProviderInv /\ Inv /\ [NextProvider]_provVars => ProviderInv'
<1> SUFFICES ASSUME ProviderInv, Inv, [NextProvider]_provVars PROVE ProviderInv'
  OBVIOUS
<1>b. issued \in SUBSET Token
  BY DEF Inv, KeeperInv, KeeperTypeOK
<1>a. /\ task \in [Task -> TaskState] /\ fs_lock \in [locked : BOOLEAN, waiters : Seq(Task)]
      /\ \A u \in Task : task[u].at = "waiting" <=> Queued(fs_lock.waiters, u)
  BY DEF ProviderInv
<1>1. ASSUME NEW t \in Task, NEW r \in Requests, Arrive(t, r)
      PROVE  ProviderInv'
  <2>1. task[t] = IdleTask
    BY <1>1 DEF Arrive
  <2>2. CASE IsLockedFor(r)
    BY <1>1, <2>2, SameTasks DEF Arrive
  <2>3. CASE ~IsLockedFor(r) /\ ~NeedsFSLock(r)
    <3>1. Perform(r) /\ UNCHANGED <<task, fs_lock>>
      BY <1>1, <2>3 DEF Arrive
    <3>2. QED
      BY <2>3, <3>1, UnlockedChangesNothing, SameTasks
  <2>4. CASE ~IsLockedFor(r) /\ NeedsFSLock(r) /\ IsFree(t, r)
    <3>1. Enter(t, r, issued, FALSE) /\ ~fs_lock.locked
      BY <1>1, <2>4 DEF Arrive, IsFree
    <3>2. QED
      BY <1>b, <2>1, <3>1, EnterKeeps
  <2>5. CASE ~IsLockedFor(r) /\ NeedsFSLock(r) /\ ~IsFree(t, r)
    <3> DEFINE new == [at |-> "waiting", request |-> r, granted |-> issued]
    <3>1. /\ task' = [task EXCEPT ![t] = new]
          /\ fs_lock' = [fs_lock EXCEPT !.waiters = Append(@, t)]
          /\ fs' = fs
      BY <1>1, <2>5 DEF Arrive
    <3>2. new \in TaskState /\ new.at = "waiting"
      BY <1>b DEF TaskState
    <3> HIDE DEF new
    <3>3. /\ task' \in [Task -> TaskState] /\ task'[t] = new
          /\ \A u \in Task : u # t => task'[u] = task[u]
      BY <1>a, <3>1, <3>2
    <3>4. ~Queued(fs_lock.waiters, t) /\ ~Receives(t)
      BY <1>a, <2>1 DEF IdleTask, Receives
    <3>5. /\ fs_lock' \in [locked : BOOLEAN, waiters : Seq(Task)]
          /\ fs_lock'.locked = fs_lock.locked
          /\ fs_lock'.waiters = Append(fs_lock.waiters, t)
      BY <1>a, <3>1
    <3>6. \A i, j \in DOMAIN fs_lock.waiters : fs_lock.waiters[i] = fs_lock.waiters[j] => i = j
      BY DEF ProviderInv
    <3>7. /\ \A i, j \in DOMAIN fs_lock'.waiters :
               fs_lock'.waiters[i] = fs_lock'.waiters[j] => i = j
          /\ \A u : Queued(fs_lock'.waiters, u) <=> Queued(fs_lock.waiters, u) \/ u = t
      BY <1>a, <3>4, <3>5, <3>6, AppendJoins
    <3>8. \A u \in Task : task'[u].at = "waiting" <=> Queued(fs_lock'.waiters, u)
      BY <1>a, <3>2, <3>3, <3>7
    <3>9. \A u \in Task : task'[u].at = "receiving" => Receives(u) /\ task'[u] = task[u]
      BY <3>2, <3>3 DEF Receives
    <3>10. /\ \A u \in Task : task'[u].at = "receiving" =>
                 fs_lock'.locked /\ task'[u].request.method = "PUT"
           /\ \A u, v \in Task : task'[u].at = "receiving" /\ task'[v].at = "receiving" => u = v
      BY <3>5, <3>9 DEF ProviderInv
    <3>11. PutStillStands'
      BY <3>1, <3>9 DEF ProviderInv, PutStillStands, Receives
    <3>12. QED
      BY <3>3, <3>5, <3>7, <3>8, <3>10, <3>11 DEF ProviderInv, Receives
  <2>6. QED
    BY <2>2, <2>3, <2>4, <2>5
<1>2. ASSUME NEW t \in Task, WakeUp(t)
      PROVE  ProviderInv'
  <2>1. /\ ~fs_lock.locked /\ fs_lock.waiters # <<>> /\ t = Head(fs_lock.waiters)
        /\ Enter(t, task[t].request, task[t].granted, TRUE)
    BY <1>2 DEF WakeUp
  <2>2. Queued(fs_lock.waiters, t)
    <3>1. 1 \in DOMAIN fs_lock.waiters /\ fs_lock.waiters[1] = t
      BY <1>a, <2>1
    <3>2. QED
      BY <3>1 DEF Queued
  <2>3. task[t].at = "waiting" /\ task[t] \in TaskState
    BY <1>a, <2>2
  <2>4. task[t].request \in Requests /\ task[t].granted \in SUBSET Token
    BY <2>3 DEF TaskState, IdleTask
  <2>5. QED
    BY <2>1, <2>4, EnterKeeps
<1>3. ASSUME NEW t \in Task, ReceivePart(t)
      PROVE  ProviderInv'
  <2> DEFINE new == [task[t] EXCEPT !.parts = @ + 1]
  <2>1. /\ Receives(t) /\ task[t].parts + 1 < MaxParts
        /\ task' = [task EXCEPT ![t] = new]
        /\ UNCHANGED <<fs, fs_lock>>
    BY <1>3 DEF ReceivePart, Receives
  <2>2. task[t] \in [at : {"receiving"}, request : Requests, parts : 0 .. MaxParts - 1,
                     existed : BOOLEAN, granted : SUBSET Token]
    <3>1. task[t] \in TaskState /\ task[t].at = "receiving"
      BY <1>a, <2>1 DEF Receives
    <3>2. QED
      BY <3>1 DEF TaskState, IdleTask
  <2>3. /\ new \in [at : {"receiving"}, request : Requests, parts : 0 .. MaxParts - 1,
                    existed : BOOLEAN, granted : SUBSET Token]
        /\ new.at = task[t].at /\ new.request = task[t].request
        /\ new.existed = task[t].existed
    <3>1. task[t].parts + 1 \in 0 .. MaxParts - 1
      BY <2>1, <2>2, RequestAssumption
    <3>2. QED
      BY <2>2, <3>1
  <2> HIDE DEF new
  <2>4. task' \in [Task -> TaskState]
    BY <1>a, <2>1, <2>3 DEF TaskState
  <2>5. \A u \in Task : /\ task'[u].at = task[u].at
                        /\ Receives(u) => /\ task'[u].request = task[u].request
                                          /\ task'[u].existed = task[u].existed
    BY <1>a, <2>1, <2>3
  <2>6. PutStillStands'
    BY <2>1, <2>5 DEF ProviderInv, PutStillStands, Receives
  <2>7. QED
    BY <2>1, <2>4, <2>5, <2>6 DEF ProviderInv, Receives
<1>4. ASSUME NEW t \in Task, NEW parts, Finish(t, parts)
      PROVE  ProviderInv'
  <2>1. /\ Receives(t) /\ task' = [task EXCEPT ![t] = IdleTask]
        /\ fs_lock' = [fs_lock EXCEPT !.locked = FALSE]
    BY <1>4 DEF Finish, Receives
  <2>2. /\ task' \in [Task -> TaskState] /\ task'[t] = IdleTask
        /\ \A u \in Task : u # t => task'[u] = task[u]
    BY <1>a, <2>1 DEF TaskState
  <2>3. IdleTask.at = "idle"
    BY DEF IdleTask
  <2>4. fs_lock' \in [locked : BOOLEAN, waiters : Seq(Task)]
        /\ fs_lock'.waiters = fs_lock.waiters
    BY <1>a, <2>1
  <2>5. \A u \in Task : task'[u].at # "receiving"
    BY <2>1, <2>2, <2>3 DEF ProviderInv, Receives
  <2>6. \A u \in Task : task'[u].at = "waiting" <=> Queued(fs_lock'.waiters, u)
    BY <1>a, <2>1, <2>2, <2>3, <2>4 DEF Receives
  <2>7. QED
    BY <2>2, <2>4, <2>5, <2>6 DEF ProviderInv, PutStillStands, Receives
<1>5. ASSUME NEW t \in Task, Body(t)
      PROVE  ProviderInv'
  BY <1>3, <1>4, <1>5 DEF Body, ReceiveLast, Disconnect
<1>6. CASE LockTable \/ TickProvider
  BY <1>6, SameTasks DEF LockTable, TickProvider
<1>7. CASE UNCHANGED provVars
  BY <1>7, SameTasks DEF provVars
<1>8. QED
  BY <1>1, <1>2, <1>5, <1>6, <1>7 DEF NextProvider

\* The invariant of the concurrent provider: who has fs_lock, who waits for it, and
\* what a PUT in progress relies on (class MemoryProvider).
THEOREM ProviderInvAlways == SpecProvider => []ProviderInv
BY InitProviderInv, NextProviderInv, TableSoundAlways, PTL DEF SpecProvider

\* The queue of fs_lock holds the waiting tasks, and a PUT that receives has the lock.
THEOREM ProviderTypeCorrect == SpecProvider => []ProviderTypeOK
<1>1. ProviderInv => ProviderTypeOK
  BY DEF ProviderInv, ProviderTypeOK, Queued, Receives
<1>2. QED
  BY <1>1, ProviderInvAlways, PTL

\* What a PUT found of its file and the parent stands until its body has ended.
THEOREM PutAlwaysStands == SpecProvider => []PutStillStands
<1>1. ProviderInv => PutStillStands
  BY DEF ProviderInv
<1>2. QED
  BY <1>1, ProviderInvAlways, PTL

-----------------------------------------------------------------------------
\* With the tree as a PUT found it, taking its content at the end of the body is
\* the PUT of the sequential provider.
LEMMA CommitIsPut ==
    ASSUME ~Orderly, NEW r, NEW existed, NEW content \in Content,
           PutRefusal(fs, r.path) = 0, existed = HasNode(fs, r.path),
           Commit(r, existed, content)
    PROVE  DoPut(r.path, content)
<1>1. Put(fs, r.path, content) = Result(PutContent(fs, r.path, content), 201)
  BY DEF Put
<1>2. ~(existed /\ ~HasNode(fs, r.path))
  OBVIOUS
<1>3. Serve(Put(fs, r.path, content), Request("PUT", r.path))
  BY <1>1, <1>2 DEF Commit
<1>4. QED
  BY <1>3 DEF DoPut, MayCreate

\* A request that has the tree to itself is one request of the sequential provider.
LEMMA EnterInSequence ==
    ASSUME ~Orderly, NEW t, NEW r \in Requests, NEW granted, NEW suspended, Enter(t, r, granted, suspended)
    PROVE  InSequence \/ UNCHANGED <<fs, last>>
<1>1. SUFFICES ASSUME /\ IF AsksPut(r)
                         THEN Commit(r, HasNode(fs, r.path), Received(r.body, MaxParts))
                         ELSE Perform(r)
                      /\ served' = [request |-> r, granted |-> granted]
               PROVE  InSequence
  BY DEF Enter
<1>2. served'.request = r
  BY <1>1
<1>3. CASE AsksPut(r)
  <2>1. r.method = "PUT" /\ PutRefusal(fs, r.path) = 0
    BY <1>3 DEF AsksPut
  <2>2. Received(r.body, MaxParts) \in Content
    BY <2>1, RequestAssumption
  <2>3. DoPut(r.path, Received(r.body, MaxParts))
    BY <1>1, <1>3, <2>1, <2>2, CommitIsPut
  <2>4. QED
    BY <1>2, <2>1, <2>2, <2>3 DEF InSequence
<1>4. CASE ~AsksPut(r) /\ r.method = "PUT"
  <2>1. DoPut(r.path, Empty) /\ Empty \in Content
    BY <1>1, <1>4, FSAssumption DEF Perform
  <2>2. QED
    BY <1>2, <1>4, <2>1 DEF InSequence
<1>5. CASE r.method # "PUT"
  BY <1>1, <1>2, <1>5 DEF InSequence, AsksPut
<1>6. QED
  BY <1>3, <1>4, <1>5

\* The concurrent provider does what the sequential one does, one request after the
\* other.  (Orderly, the bound on clients of the sequential runs, is off.)
THEOREM ProviderActsInSequence ==
    ASSUME ~Orderly
    PROVE  SpecProvider => ActsInSequence
<1>1. InitProvider => InitTree
  BY DEF InitProvider
<1>2. ProviderInv /\ [NextProvider]_provVars => [InSequence]_<<fs, last>>
  <2> SUFFICES ASSUME ProviderInv, [NextProvider]_provVars
               PROVE  InSequence \/ UNCHANGED <<fs, last>>
    OBVIOUS
  <2>1. ASSUME NEW t \in Task, NEW r \in Requests, Arrive(t, r)
        PROVE  InSequence \/ UNCHANGED <<fs, last>>
    <3>1. CASE ~IsLockedFor(r) /\ ~NeedsFSLock(r)
      <4>1. Perform(r) /\ served' = [request |-> r, granted |-> issued]
        BY <2>1, <3>1 DEF Arrive
      <4>2. r.method # "PUT"
        BY <3>1 DEF NeedsFSLock
      <4>3. served'.request = r
        BY <4>1
      <4>4. QED
        BY <4>1, <4>2, <4>3 DEF InSequence
    <3>2. CASE ~IsLockedFor(r) /\ NeedsFSLock(r) /\ IsFree(t, r)
      BY <2>1, <3>2, EnterInSequence DEF Arrive
    <3>3. QED
      BY <2>1, <3>1, <3>2 DEF Arrive
  <2>2. ASSUME NEW t \in Task, WakeUp(t)
        PROVE  InSequence \/ UNCHANGED <<fs, last>>
    <3>1. Enter(t, task[t].request, task[t].granted, TRUE) /\ t = Head(fs_lock.waiters) /\ fs_lock.waiters # <<>>
      BY <2>2 DEF WakeUp
    <3>2. 1 \in DOMAIN fs_lock.waiters /\ fs_lock.waiters[1] = t
      BY <3>1 DEF ProviderInv
    <3>3. task[t].at = "waiting" /\ task[t] \in TaskState
      BY <3>2 DEF ProviderInv, Queued
    <3>4. task[t].request \in Requests
      BY <3>3 DEF TaskState, IdleTask
    <3>5. QED
      BY <3>1, <3>4, EnterInSequence
  <2>3. ASSUME NEW t \in Task, NEW parts \in 0 .. MaxParts, Finish(t, parts)
        PROVE  InSequence \/ UNCHANGED <<fs, last>>
    <3> DEFINE r == task[t].request
    <3>1. /\ Receives(t) /\ served'.request = r
          /\ Commit(r, task[t].existed, Received(r.body, parts))
      BY <2>3 DEF Finish, Receives
    <3>2. /\ r.method = "PUT" /\ PutRefusal(fs, r.path) = 0
          /\ task[t].existed = HasNode(fs, r.path) /\ task[t] \in TaskState
      BY <3>1 DEF ProviderInv, PutStillStands, Receives
    <3>3. r \in Requests
      BY <3>1, <3>2 DEF TaskState, IdleTask, Receives
    <3>4. Received(r.body, parts) \in Content
      BY <2>3, <3>2, <3>3, RequestAssumption
    <3>5. DoPut(r.path, Received(r.body, parts))
      BY <3>1, <3>2, <3>4, CommitIsPut
    <3>6. QED
      BY <3>1, <3>2, <3>4, <3>5 DEF InSequence
  <2>4. ASSUME NEW t \in Task, Body(t)
        PROVE  InSequence \/ UNCHANGED <<fs, last>>
    <3>1. CASE ReceivePart(t)
      BY <3>1 DEF ReceivePart
    <3>2. CASE ReceiveLast(t)
      <4>1. MaxParts \in 0 .. MaxParts
        BY RequestAssumption
      <4>2. QED
        BY <2>3, <3>2, <4>1 DEF ReceiveLast
    <3>3. CASE Disconnect(t)
      <4>1. task[t].at = "receiving" /\ task[t] \in TaskState
        BY <3>3 DEF Disconnect, ProviderInv
      <4>2. task[t].parts \in 0 .. MaxParts
        BY <4>1, RequestAssumption DEF TaskState, IdleTask
      <4>3. QED
        BY <2>3, <3>3, <4>2 DEF Disconnect
    <3>4. QED
      BY <2>4, <3>1, <3>2, <3>3 DEF Body
  <2>5. QED
    BY <2>1, <2>2, <2>4 DEF NextProvider, LockTable, TickProvider, provVars
<1>3. QED
  BY <1>1, <1>2, ProviderInvAlways, PTL DEF SpecProvider, ActsInSequence

-----------------------------------------------------------------------------
(* What a check of the lock table is worth later *)

\* Of these locks, none that is left is against the request.
Past(granted, r) ==
    /\ granted \subseteq issued
    /\ \A k \in granted \intersect DOMAIN token2lock_obj : ~IsAgainst(k, r)

\* Every request in progress has its check behind it.
ChecksStand ==
    \A t \in Task : task[t].at # "idle" => Past(task[t].granted, task[t].request)

\* What the table does to a lock that was granted: it leaves for good, or covers what it
\* covered.
Ages ==
    /\ issued \subseteq issued'
    /\ \A k \in DOMAIN token2lock_obj' : k \in issued =>
         /\ k \in DOMAIN token2lock_obj
         /\ token2lock_obj'[k].path = token2lock_obj[k].path
         /\ token2lock_obj'[k].depth = token2lock_obj[k].depth

LEMMA DropAges == ASSUME NEW T, Drop(T) PROVE Ages
BY DEF Drop, WithoutTokens, Restrict, Ages

\* Granting a lock draws a new token.
LEMMA NewAges ==
    ASSUME NEW token, NEW path, NEW depth, NEW scope, NEW timeout, NEW covering, NEW purged,
           New(token, path, depth, scope, timeout, covering, purged)
    PROVE  Ages
<1>1. CASE CanLock(path, depth, scope, covering)
  <2> DEFINE lock == NewLockObj(path, depth, scope, timeout)
             objs == WithoutTokens(token2lock_obj, purged)
  <2>1. token \notin issued /\ issued' = issued \union {token}
        /\ token2lock_obj' = SetItem(objs, token, lock)
    BY <1>1 DEF New
  <2>2. \A k \in DOMAIN objs : k \in DOMAIN token2lock_obj /\ objs[k] = token2lock_obj[k]
    BY DEF WithoutTokens, Restrict
  <2> HIDE DEF lock, objs
  <2>3. \A k \in DOMAIN token2lock_obj' : k \in issued => k \in DOMAIN objs /\ token2lock_obj'[k] = objs[k]
    BY <2>1 DEF SetItem
  <2>4. QED
    BY <2>1, <2>2, <2>3 DEF Ages
<1>2. QED
  BY <1>1, DropAges DEF New

\* No step changes what a granted lock covers or brings one back.
LEMMA TableAges == ASSUME Inv, NextProvider PROVE Ages
<1>a. KeeperInv /\ call \in Call /\ WhatIsHeldStands
  BY DEF Inv, TypeOK
<1>1. CASE UNCHANGED keeperVars
  BY <1>1 DEF keeperVars, Ages
<1>2. CASE LockRequest
  <2>1. ASSUME NEW token, NEW body, NEW depth, DoLockRefused(token, body, depth)
        PROVE  Ages
    BY <1>1, <2>1 DEF DoLockRefused
  <2>2. ASSUME NEW path, NEW depth, NEW scope, NEW header, DoLock(path, depth, scope, header)
        PROVE  Ages
    BY <2>2, DropAges DEF DoLock, GetLockObjsFromPath
  <2>3. ASSUME NEW token, DoLockNew(token)
        PROVE  Ages
    BY <2>3, NewAges DEF DoLockNew
  <2>4. ASSUME NEW token, NEW path, NEW header, DoLockRefresh(token, path, header)
        PROVE  Ages
    BY <2>4, DropAges DEF DoLockRefresh, Get
  <2>5. CASE DoLockRefreshed
    <3>1. call.at = "refresh" /\ Refresh(call.token, call.timeout) /\ now' = now
      BY <2>5 DEF DoLockRefreshed
    <3>2. call.token \in DOMAIN token2lock_obj
      BY <1>a, <3>1 DEF WhatIsHeldStands
    <3>3. call.timeout \in Int
      BY <1>a, <3>1 DEF Call, Idle
    <3>4. issued' = issued
      BY <3>1 DEF Refresh
    <3>5. QED
      BY <1>a, <3>1, <3>2, <3>3, <3>4, RefreshEffect DEF Ages
  <2>6. QED
    BY <1>2, <2>1, <2>2, <2>3, <2>4, <2>5 DEF LockRequest
<1>3. CASE UnlockRequest
  <2>1. ASSUME NEW token, DoUnlockRefused(token)
        PROVE  Ages
    BY <1>1, <2>1 DEF DoUnlockRefused
  <2>2. ASSUME NEW token, NEW path, DoUnlock(token, path)
        PROVE  Ages
    BY <2>2, DropAges DEF DoUnlock, Get
  <2>3. CASE DoUnlockRelease
    BY <2>3, DropAges DEF DoUnlockRelease, Release
  <2>4. QED
    BY <1>3, <2>1, <2>2, <2>3 DEF UnlockRequest
<1>4. ASSUME NEW t \in Task, NEW r \in Requests, Arrive(t, r)
      PROVE  Ages
  BY <1>4, DropAges DEF Arrive
<1>5. ASSUME NEW t \in Task, WakeUp(t) \/ Body(t)
      PROVE  UNCHANGED vars
  BY <1>5 DEF WakeUp, Body, ReceivePart, ReceiveLast, Disconnect, Finish
<1>6. TickProvider => UNCHANGED keeperVars
  BY DEF TickProvider, Tick
<1>7. UNCHANGED vars => UNCHANGED keeperVars
  BY DEF vars, keeperVars
<1>8. QED
  BY <1>1, <1>2, <1>3, <1>4, <1>5, <1>6, <1>7 DEF NextProvider, LockTable

\* So what a check is worth it stays worth.
LEMMA PastStays ==
    ASSUME Ages, NEW granted, NEW r, Past(granted, r)
    PROVE  Past(granted, r)'
<1>1. granted \subseteq issued'
  BY DEF Past, Ages
<1>2. ASSUME NEW k \in granted, k \in DOMAIN token2lock_obj', IsAgainst(k, r)'
      PROVE  FALSE
  <2>1. /\ k \in DOMAIN token2lock_obj
        /\ token2lock_obj'[k].path = token2lock_obj[k].path
        /\ token2lock_obj'[k].depth = token2lock_obj[k].depth
    BY <1>2 DEF Past, Ages
  <2>2. \A p : IsLockingPath(k, p)' => IsLockingPath(k, p)
    BY <2>1 DEF IsLockingPath, Covers
  <2>3. IsAgainst(k, r)
    BY <1>2, <2>2 DEF IsAgainst
  <2>4. QED
    BY <1>2, <2>1, <2>3 DEF Past
<1>3. QED
  BY <1>1, <1>2 DEF Past

LEMMA NamedAreLooked == ASSUME NEW r PROVE Named(r) \subseteq LockedResources(r)
BY DEF Named, LockedResources

\* A check that lets a request pass has seen every lock against it, and purged the
\* expired ones.
LEMMA CheckIsPast ==
    ASSUME Inv, NEW t, NEW r, Arrive(t, r), ~IsLockedFor(r),
           NEW granted, granted = issued
    PROVE  /\ Past(granted, r)'
           /\ LocksAgainst(r) = {}
<1> DEFINE T == UNION {ExpiredFrom(p) : p \in LockedResources(r)}
<1>1. Inv' /\ Leave(T) /\ issued' = issued
  BY CheckKeepsTable
<1>2. KeeperInv
  BY DEF Inv
<1>3. ASSUME NEW k \in DOMAIN token2lock_obj, IsAgainst(k, r)
      PROVE  IsExpired(k) /\ k \in T
  <2>1. PICK p \in Named(r) : IsLockingPath(k, p)
    BY <1>3 DEF IsAgainst
  <2>2. p \in LockedResources(r) /\ k \in EntriesFrom(p)
    BY <1>2, <2>1, NamedAreLooked, CoveringIsReached DEF Covering
  <2>3. k \notin LockObjsFromPath(p)
    BY <1>3, <2>2 DEF IsLockedFor, IsAgainst
  <2>4. IsExpired(k)
    BY <2>1, <2>2, <2>3 DEF LockObjsFromPath
  <2>5. QED
    BY <2>2, <2>4 DEF ExpiredFrom
<1> HIDE DEF T
<1>4. LocksAgainst(r) = {}
  BY <1>3 DEF LocksAgainst
<1>5. ASSUME NEW k \in DOMAIN token2lock_obj', IsAgainst(k, r)'
      PROVE  FALSE
  <2>1. k \in DOMAIN token2lock_obj \ T /\ token2lock_obj'[k] = token2lock_obj[k]
    BY <1>1 DEF Leave
  <2>2. \A p : IsLockingPath(k, p)' => IsLockingPath(k, p)
    BY <2>1 DEF IsLockingPath
  <2>3. IsAgainst(k, r)
    BY <1>5, <2>2 DEF IsAgainst
  <2>4. QED
    BY <1>3, <2>1, <2>3
<1>6. QED
  BY <1>1, <1>4, <1>5 DEF Past

\* The task that is woken was waiting.
LEMMA WokenWaited ==
    ASSUME ProviderInv, NEW t \in Task, WakeUp(t)
    PROVE  task[t].at = "waiting"
<1>1. fs_lock.waiters # <<>> /\ t = Head(fs_lock.waiters) /\ fs_lock.waiters \in Seq(Task)
  BY DEF WakeUp, ProviderInv
<1>2. 1 \in DOMAIN fs_lock.waiters /\ fs_lock.waiters[1] = t
  BY <1>1
<1>3. QED
  BY <1>2 DEF ProviderInv, Queued

\* What a request that enters carries along.
LEMMA EnterCarries ==
    ASSUME NEW t \in Task, NEW r, NEW granted, NEW suspended, Enter(t, r, granted, suspended),
           task \in [Task -> TaskState]
    PROVE  /\ task'[t].at # "idle" => task'[t].granted = granted /\ task'[t].request = r
           /\ \A u \in Task : u # t => task'[u] = task[u]
           /\ fs' # fs => served'.request = r /\ served'.granted = granted
BY DEF Enter, IdleTask

\* Where the check of a task in progress comes from: from before, or from its arrival.
CheckFrom(u) ==
    \/ /\ task[u].at # "idle"
       /\ task'[u].granted = task[u].granted /\ task'[u].request = task[u].request
    \/ \E r \in Requests : /\ Arrive(u, r) /\ ~IsLockedFor(r)
                           /\ task'[u].granted = issued /\ task'[u].request = r

LEMMA ChecksComeFrom ==
    ASSUME ProviderInv, [NextProvider]_provVars, NEW u \in Task, task'[u].at # "idle"
    PROVE  CheckFrom(u)
<1>a. task \in [Task -> TaskState]
  BY DEF ProviderInv
<1>b. CASE task'[u] = task[u]
  BY <1>b DEF CheckFrom
<1>1. ASSUME NEW t \in Task, NEW r \in Requests, Arrive(t, r), task'[u] # task[u]
      PROVE  CheckFrom(u)
  <2>1. ~IsLockedFor(r) /\ NeedsFSLock(r)
    BY <1>1 DEF Arrive
  <2>2. CASE IsFree(t, r)
    <3>1. Enter(t, r, issued, FALSE)
      BY <1>1, <2>1, <2>2 DEF Arrive
    <3>2. QED
      BY <1>a, <1>1, <2>1, <3>1, EnterCarries DEF CheckFrom
  <2>3. CASE ~IsFree(t, r)
    <3>1. task' = [task EXCEPT ![t] = [at |-> "waiting", request |-> r, granted |-> issued]]
      BY <1>1, <2>1, <2>3 DEF Arrive
    <3>2. u = t /\ task'[u].granted = issued /\ task'[u].request = r
      BY <1>a, <1>1, <3>1
    <3>3. QED
      BY <1>1, <2>1, <3>2 DEF CheckFrom
  <2>4. QED
    BY <2>2, <2>3
<1>2. ASSUME NEW t \in Task, WakeUp(t), task'[u] # task[u]
      PROVE  CheckFrom(u)
  <2>1. Enter(t, task[t].request, task[t].granted, TRUE) /\ task[t].at # "idle"
    BY <1>2, WokenWaited DEF WakeUp
  <2>2. QED
    BY <1>a, <1>2, <2>1, EnterCarries DEF CheckFrom
<1>3. ASSUME NEW t \in Task, Body(t), task'[u] # task[u]
      PROVE  CheckFrom(u)
  <2>1. task[t].at = "receiving"
    BY <1>3 DEF Body, ReceivePart, ReceiveLast, Disconnect
  <2>2. ReceivePart(t)
    <3>1. ASSUME NEW parts, Finish(t, parts)
          PROVE  FALSE
      BY <1>a, <1>3, <3>1 DEF Finish, IdleTask
    <3>2. QED
      BY <1>3, <3>1 DEF Body, ReceiveLast, Disconnect
  <2>3. task' = [task EXCEPT ![t].parts = @ + 1]
    BY <2>2 DEF ReceivePart
  <2>4. task[t] \in [at : {"receiving"}, request : Requests, parts : 0 .. MaxParts - 1,
                     existed : BOOLEAN, granted : SUBSET Token]
    BY <1>a, <2>1 DEF TaskState, IdleTask
  <2>5. u = t /\ task'[u].granted = task[u].granted /\ task'[u].request = task[u].request
    BY <1>a, <1>3, <2>3, <2>4
  <2>6. QED
    BY <2>1, <2>5 DEF CheckFrom
<1>4. QED
  BY <1>b, <1>1, <1>2, <1>3 DEF NextProvider, LockTable, TickProvider, provVars

\* The checks of all requests in progress keep their worth.
LEMMA NextChecksStand == ProviderInv /\ Inv /\ ChecksStand /\ [NextProvider]_provVars => ChecksStand'
<1> SUFFICES ASSUME ProviderInv, Inv, ChecksStand, [NextProvider]_provVars,
                    NEW u \in Task, task'[u].at # "idle",
                    NEW granted, granted = task'[u].granted, NEW r, r = task'[u].request
             PROVE  Past(granted, r)'
  BY DEF ChecksStand
<1>1. Ages
  <2>1. UNCHANGED provVars => Ages
    BY DEF provVars, vars, keeperVars, Ages
  <2>2. QED
    BY <2>1, TableAges
<1>2. CASE /\ task[u].at # "idle"
           /\ task'[u].granted = task[u].granted /\ task'[u].request = task[u].request
  <2>1. Past(granted, r)
    BY <1>2 DEF ChecksStand
  <2>2. QED
    BY <1>1, <2>1, PastStays
<1>3. CASE \E q \in Requests : /\ Arrive(u, q) /\ ~IsLockedFor(q)
                               /\ task'[u].granted = issued /\ task'[u].request = q
  BY <1>3, CheckIsPast
<1>4. QED
  BY <1>2, <1>3, ChecksComeFrom DEF CheckFrom

LEMMA ChecksAlwaysStand == SpecProvider => []ChecksStand
<1>1. InitProvider => ChecksStand
  BY DEF InitProvider, ChecksStand, IdleTask
<1>2. QED
  BY <1>1, NextChecksStand, ProviderInvAlways, TableSoundAlways, PTL DEF SpecProvider

\* Of the locks that stand against a request when it changes the tree, none was granted
\* before it was checked, however long it waited and whatever became of the lock table
\* meanwhile (do_put, do_delete, do_move, ... and class MemoryProvider).
THEOREM OnlyLaterLocksAlwaysIgnored == SpecProvider => OnlyLaterLocksIgnored
<1> DEFINE Respects ==
        fs' # fs => LocksAgainst(served'.request) \intersect served'.granted = {}
<1>1. ProviderInv /\ Inv /\ ChecksStand /\ [NextProvider]_provVars => [Respects]_provVars
  <2> SUFFICES ASSUME ProviderInv, Inv, ChecksStand, NextProvider, fs' # fs
               PROVE  LocksAgainst(served'.request) \intersect served'.granted = {}
    BY DEF provVars
  <2>a. task \in [Task -> TaskState]
    BY DEF ProviderInv
  <2>b. ASSUME NEW t \in Task, task[t].at # "idle",
               served'.request = task[t].request, served'.granted = task[t].granted
        PROVE  LocksAgainst(served'.request) \intersect served'.granted = {}
    BY <2>b DEF ChecksStand, Past, LocksAgainst
  <2>1. ASSUME NEW t \in Task, NEW r \in Requests, Arrive(t, r)
        PROVE  LocksAgainst(served'.request) \intersect served'.granted = {}
    <3>1. ~IsLockedFor(r)
      BY <2>1 DEF Arrive
    <3>2. Enter(t, r, issued, FALSE)
      BY <2>1, <3>1, UnlockedChangesNothing DEF Arrive
    <3>3. served'.request = r
      BY <2>a, <3>2, EnterCarries
    <3>4. QED
      BY <2>1, <3>1, <3>3, CheckIsPast
  <2>2. ASSUME NEW t \in Task, WakeUp(t)
        PROVE  LocksAgainst(served'.request) \intersect served'.granted = {}
    <3>1. Enter(t, task[t].request, task[t].granted, TRUE) /\ task[t].at # "idle"
      BY <2>2, WokenWaited DEF WakeUp
    <3>2. QED
      BY <2>a, <2>b, <3>1, EnterCarries
  <2>3. ASSUME NEW t \in Task, Body(t)
        PROVE  LocksAgainst(served'.request) \intersect served'.granted = {}
    <3>1. ~ReceivePart(t)
      BY DEF ReceivePart
    <3>2. /\ task[t].at = "receiving"
          /\ served' = [request |-> task[t].request, granted |-> task[t].granted]
      BY <2>3, <3>1 DEF Body, ReceiveLast, Disconnect, Finish
    <3>3. QED
      BY <2>b, <3>2
  <2>4. QED
    BY <2>1, <2>2, <2>3 DEF NextProvider, LockTable, TickProvider
<1>2. QED
  BY <1>1, ProviderInvAlways, TableSoundAlways, ChecksAlwaysStand, PTL
     DEF SpecProvider, OnlyLaterLocksIgnored
=============================================================================
