---------------------------- MODULE MemoryProvider ----------------------------
(***************************************************************************)
(* The memory provider under concurrent requests: the tree of MemoryTree,  *)
(* the lock table of DAVLocking, and between them the asyncio lock fs_lock *)
(* that every request takes after its check of the lock table and before   *)
(* it looks at the tree.                                                   *)
(*                                                                         *)
(* A task serves one request after the other.  It suspends while it waits  *)
(* for fs_lock, and in a PUT, with fs_lock held, for the next part of the  *)
(* body.  fs_lock is first come, first served: a released lock wakes the   *)
(* first waiter, and whoever arrives before that one runs waits behind it. *)
(***************************************************************************)
EXTENDS MemoryTree, DAVLocking

CONSTANTS
    Task,       \* the requests that may be in progress at a time
    Requests,   \* the requests clients make: [method, path, tokens, ...]
    MaxParts    \* the parts a request body comes in


VARIABLES
    task,    \* what each task is doing
    fs_lock, \* [locked, waiters]
    served   \* history: the request that was served last, and the tokens of the locks
             \* granted before it was checked

provVars == <<fs, last, vars, task, fs_lock, served>>

IdleTask == [at |-> "idle"]

\* A body of MaxParts parts, as far as it was received: nothing is b"".
Received(body, parts) == IF parts = 0 THEN Empty ELSE [body |-> body, parts |-> parts]

ASSUME RequestAssumption ==
    /\ MaxParts \in Nat \ {0}
    /\ \A r \in Requests : r.method = "PUT" =>
         \A parts \in 0 .. MaxParts : Received(r.body, parts) \in Content

-----------------------------------------------------------------------------
(* The check of the lock table *)

\* The resources whose locks a request needs the tokens of.  MKCOL asks for none.
LockedResources(r) ==
    CASE r.method \in {"PUT", "PROPPATCH", "DELETE"} -> {r.path}
      [] r.method = "COPY" -> {r.dst}
      [] r.method = "MOVE" -> {r.path, r.dst}
      [] OTHER -> {}

\* Mutant: the first resource only.
SourceOnly(r) == \E t \in LockObjsFromPath(r.path) : r.method = "DELETE" \/ t \notin r.tokens

\* DELETE does not look at the tokens; the others do (DAVIfHeader).
IsLockedFor(r) ==
    \E p \in LockedResources(r) : \E t \in LockObjsFromPath(p) :
        r.method = "DELETE" \/ t \notin r.tokens

\* No lock is taken for a request that does nothing.
NeedsFSLock(r) == ~(r.method \in {"MKCOL", "DELETE"} /\ r.path = Root)

-----------------------------------------------------------------------------
(* What a request does once it has fs_lock *)

\* Mutant: a new node is made whether or not one is there.
CommitAnew(r, existed, content) ==
    Serve(Result(AddNode(fs, r.path, TRUE, content), 201), Request("PUT", r.path))

\* A PUT with its whole body: on the node found before the body was taken.
Commit(r, existed, content) ==
    Serve(Result(IF existed /\ ~HasNode(fs, r.path) THEN fs ELSE PutContent(fs, r.path, content), 201),
          Request("PUT", r.path))

AsksPut(r) == r.method = "PUT" /\ PutRefusal(fs, r.path) = 0

\* Every request but a PUT that goes on to take its body.
Perform(r) ==
    CASE r.method = "MKCOL" -> DoMkcol(r.path)
      [] r.method = "DELETE" -> DoDelete(r.path)
      [] r.method = "PROPPATCH" -> DoProppatch(r.path, r.extra)
      [] r.method = "COPY" -> DoCopy(r.path, r.dst, r.depth, r.overwrite)
      [] r.method = "MOVE" -> DoMove(r.path, r.dst, r.overwrite)
      [] r.method = "PUT" -> DoPut(r.path, Empty)
      [] OTHER -> UNCHANGED <<fs, last>>      \* GET, HEAD, PROPFIND

\* The waiters once a task has fs_lock: one that was woken leaves the queue.
WaitersLeft(suspended) == IF suspended THEN Tail(fs_lock.waiters) ELSE fs_lock.waiters

\* Mutant: fs_lock is not released when a PUT is refused.
EnterKeepsLock(t, r, granted, suspended) ==
    \/ /\ AsksPut(r)
       /\ task' = [task EXCEPT ![t] = [at |-> "receiving", request |-> r, parts |-> 0,
                                       existed |-> HasNode(fs, r.path), granted |-> granted]]
       /\ fs_lock' = [locked |-> TRUE, waiters |-> WaitersLeft(suspended)]
       /\ UNCHANGED <<fs, last, served>>
    \/ /\ IF AsksPut(r) THEN Commit(r, HasNode(fs, r.path), Received(r.body, MaxParts))
                        ELSE Perform(r)
       /\ task' = [task EXCEPT ![t] = IdleTask]
       /\ fs_lock' = [locked |-> r.method = "PUT" /\ ~AsksPut(r),
                      waiters |-> WaitersLeft(suspended)]
       /\ served' = [request |-> r, granted |-> granted]

\* The task has fs_lock: it serves its request, or waits for the body of a PUT; a
\* body that is there already does not make it wait.
Enter(t, r, granted, suspended) ==
    \/ /\ AsksPut(r)
       /\ task' = [task EXCEPT ![t] = [at |-> "receiving", request |-> r, parts |-> 0,
                                       existed |-> HasNode(fs, r.path), granted |-> granted]]
       /\ fs_lock' = [locked |-> TRUE, waiters |-> WaitersLeft(suspended)]
       /\ UNCHANGED <<fs, last, served>>
    \/ /\ IF AsksPut(r) THEN Commit(r, HasNode(fs, r.path), Received(r.body, MaxParts))
                        ELSE Perform(r)
       /\ task' = [task EXCEPT ![t] = IdleTask]
       /\ fs_lock' = [locked |-> FALSE, waiters |-> WaitersLeft(suspended)]
       /\ served' = [request |-> r, granted |-> granted]

-----------------------------------------------------------------------------
InitProvider ==
    /\ Init /\ InitTree
    /\ read_only = FALSE
    /\ task = [t \in Task |-> IdleTask]
    /\ fs_lock = [locked |-> FALSE, waiters |-> <<>>]
    /\ served = [request |-> [method |-> "OPTIONS"], granted |-> {}]

\* Mutant: whoever finds fs_lock free takes it, and a PUT in progress is no obstacle.
FreeForAll(t, r) == TRUE

\* fs_lock can be taken at once.
IsFree(t, r) == ~fs_lock.locked /\ fs_lock.waiters = <<>>

\* A request comes in: check of the lock table, then fs_lock, without suspending in
\* between when it is free.
Arrive(t, r) ==
    /\ NoneRunning
    /\ task[t] = IdleTask
    /\ Drop(UNION {ExpiredFrom(p) : p \in LockedResources(r)})
    /\ UNCHANGED <<now, read_only, call, reply>>
    /\ IF IsLockedFor(r)
       THEN UNCHANGED <<fs, last, task, fs_lock, served>>
       ELSE IF ~NeedsFSLock(r)
       THEN /\ Perform(r)
            /\ served' = [request |-> r, granted |-> issued]
            /\ UNCHANGED <<task, fs_lock>>
       ELSE IF IsFree(t, r)
       THEN Enter(t, r, issued, FALSE)
       ELSE /\ task' = [task EXCEPT ![t] = [at |-> "waiting", request |-> r, granted |-> issued]]
            /\ fs_lock' = [fs_lock EXCEPT !.waiters = Append(@, t)]
            /\ UNCHANGED <<fs, last, served>>

\* The first waiter goes on with fs_lock.
WakeUp(t) ==
    /\ NoneRunning
    /\ ~fs_lock.locked
    /\ fs_lock.waiters # <<>> /\ t = Head(fs_lock.waiters)
    /\ Enter(t, task[t].request, task[t].granted, TRUE)
    /\ UNCHANGED vars

\* request.receive() returns a part of the body, with more to come.
ReceivePart(t) ==
    /\ NoneRunning
    /\ task[t].at = "receiving"
    /\ task[t].parts + 1 < MaxParts
    /\ task' = [task EXCEPT ![t].parts = @ + 1]
    /\ UNCHANGED <<fs, last, fs_lock, served, vars>>

\* ... the last one, or the news that the client has gone, which has no more_body
\* either: what was received is the new content.
Finish(t, parts) ==
    /\ NoneRunning
    /\ task[t].at = "receiving"
    /\ Commit(task[t].request, task[t].existed, Received(task[t].request.body, parts))
    /\ task' = [task EXCEPT ![t] = IdleTask]
    /\ fs_lock' = [fs_lock EXCEPT !.locked = FALSE]
    /\ served' = [request |-> task[t].request, granted |-> task[t].granted]
    /\ UNCHANGED vars

ReceiveLast(t) ==
    /\ task[t].at = "receiving" /\ task[t].parts + 1 = MaxParts
    /\ Finish(t, MaxParts)

Disconnect(t) == task[t].at = "receiving" /\ Finish(t, task[t].parts)

Body(t) == ReceivePart(t) \/ ReceiveLast(t) \/ Disconnect(t)

\* LOCK and UNLOCK: they do not look at the tree, and take no fs_lock.
LockTable ==
    /\ LockRequest \/ UnlockRequest
    /\ UNCHANGED <<fs, last, task, fs_lock, served>>

TickProvider == Tick /\ UNCHANGED <<fs, last, task, fs_lock, served>>

NextProvider ==
    \/ \E t \in Task, r \in Requests : Arrive(t, r)
    \/ \E t \in Task : WakeUp(t) \/ Body(t)
    \/ LockTable
    \/ TickProvider

SpecProvider == InitProvider /\ [][NextProvider]_provVars

\* A woken task runs in the next round of the event loop, whoever else runs in it;
\* a client sends its body or disconnects; a lock handler does not suspend.
Fairness ==
    /\ \A t \in Task : SF_provVars(WakeUp(t)) /\ WF_provVars(Body(t))
    /\ WF_provVars(call # Idle /\ LockTable)

FairSpecProvider == SpecProvider /\ Fairness
-----------------------------------------------------------------------------
ProviderTypeOK ==
    /\ fs_lock.waiters \in Seq(Task)
    /\ \A t \in Task :
         /\ task[t].at = "waiting" <=> \E i \in DOMAIN fs_lock.waiters : fs_lock.waiters[i] = t
         /\ task[t].at = "receiving" => fs_lock.locked

InSequence ==
    LET r == served'.request
    IN  IF r.method = "PUT" THEN \E content \in Content : DoPut(r.path, content) ELSE Perform(r)

\* The concurrent provider does what the sequential one does, one request after the
\* other: a PUT, whose look at the tree and whose change of it are far apart, takes
\* effect as if it did both when its body ends.
ActsInSequence == InitTree /\ [][InSequence]_<<fs, last>>

\* While a PUT receives its body, what it found still holds: the parent is there,
\* and the file is (or is not) there as it was.
PutStillStands ==
    \A t \in Task : task[t].at = "receiving" =>
        /\ PutRefusal(fs, task[t].request.path) = 0
        /\ task[t].existed = HasNode(fs, task[t].request.path)

\* The resources a request names as what it changes, but for MKCOL and for what is
\* below a collection: of these the code asks for no lock.
Named(r) ==
    {p \in Target : \/ r.method \in {"PUT", "PROPPATCH", "DELETE", "MOVE"} /\ p = r.path
                    \/ r.method \in {"COPY", "MOVE"} /\ p = r.dst}

\* A lock covers one of them, and the request cannot go on with its token.
IsAgainst(token, r) ==
    /\ \E p \in Named(r) : IsLockingPath(token, p)
    /\ r.method = "DELETE" \/ token \notin r.tokens

LocksAgainst(r) == {t \in DOMAIN token2lock_obj : ~IsExpired(t) /\ IsAgainst(t, r)}

\* However long a request waits for fs_lock and for its body, and whatever is locked,
\* refreshed, unlocked and purged meanwhile: of the locks that stand against it when it
\* changes the tree, none was granted before it was checked.  (Later ones it ignores:
\* TransferRespectsLocks in MemoryProviderClaims.)
OnlyLaterLocksIgnored ==
    [][fs' # fs => LocksAgainst(served'.request) \intersect served'.granted = {}]_provVars

\* Every request is answered: no task waits for fs_lock for ever.
EveryRequestIsAnswered == \A t \in Task : task[t] # IdleTask ~> task[t] = IdleTask
=============================================================================
