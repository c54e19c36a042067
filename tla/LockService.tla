----------------------------- MODULE LockService -----------------------------
(***************************************************************************)
(* What the users of a provider's locks are promised, without indexes,     *)
(* depths or lookups.  A lock is the set of paths it covers, its scope and *)
(* the time it lasts until.  It is granted only next to locks that share   *)
(* no path with it or are shared like it, lasts until its holder gives it  *)
(* up or it expires, and its token never names another lock.               *)
(***************************************************************************)
EXTENDS Integers

CONSTANTS
    Path,
    Token

VARIABLES
    now,      \* the clock
    held,     \* the locks in force: token -> [extent, scope, expire]
    granted   \* every token ever granted

vars == <<now, held, granted>>

Lock == [extent : SUBSET Path, scope : {"EXCLUSIVE", "SHARED"}, expire : Int]

Compatible(lock, other) ==
    \/ lock.extent \intersect other.extent = {}
    \/ lock.scope = "SHARED" /\ other.scope = "SHARED"

Expired == {t \in DOMAIN held : held[t].expire <= now}

Init == now = 0 /\ DOMAIN held = {} /\ granted = {}

\* Locks past their expiry may go, at any time, when the service looks at them.
Keep(tokens) ==
    /\ DOMAIN held \ Expired \subseteq tokens
    /\ tokens \subseteq DOMAIN held
    /\ \A t \in tokens : held'[t] = held[t]

Reclaim ==
    /\ DOMAIN held' \subseteq DOMAIN held
    /\ Keep(DOMAIN held')
    /\ UNCHANGED <<now, granted>>

\* A fresh token for a lock compatible with every lock in force.
Grant(token) ==
    /\ token \notin granted
    /\ granted' = granted \union {token}
    /\ token \in DOMAIN held'
    /\ held'[token] \in Lock
    /\ Keep(DOMAIN held' \ {token})
    /\ \A t \in DOMAIN held' \ {token} : Compatible(held'[token], held[t])
    /\ UNCHANGED now

\* A new expiry for one lock; what it covers, and how, stays.
Refresh(token) ==
    /\ token \in DOMAIN held
    /\ DOMAIN held' = DOMAIN held
    /\ held'[token].extent = held[token].extent
    /\ held'[token].scope = held[token].scope
    /\ held'[token].expire > now
    /\ \A t \in DOMAIN held \ {token} : held'[t] = held[t]
    /\ UNCHANGED <<now, granted>>

\* The holder gives a lock up.
Release(token) ==
    /\ token \in DOMAIN held
    /\ DOMAIN held' = DOMAIN held \ {token}
    /\ \A t \in DOMAIN held' : held'[t] = held[t]
    /\ UNCHANGED <<now, granted>>

Tick ==
    /\ now' = now + 1
    /\ UNCHANGED <<held, granted>>

Next ==
    \/ Reclaim
    \/ \E token \in Token : Grant(token) \/ Refresh(token) \/ Release(token)
    \/ Tick

Spec == Init /\ [][Next]_vars
=============================================================================
