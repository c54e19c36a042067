----------------------------- MODULE DAVAppProofs -----------------------------
(***************************************************************************)
(* That whoever is let in has shown a credential that was right lately,    *)
(* and that a request is its user's throughout, for every set of users,    *)
(* configurations and requests: first of pick_out_user alone, then of the  *)
(* application, whose requests are DAVAuth's and are distributed and       *)
(* served as well.  Last, what the requests do to HDFS in their calls:     *)
(* what changes is their user's, a success has done what was asked, an     *)
(* error has done nothing or cleared the destination of a MOVE, and what   *)
(* is moved is whole at one of its two places, whatever other requests do  *)
(* in between and whichever calls are refused or lost.                     *)
(***************************************************************************)
EXTENDS DAVApp, DAVPathsProofs

\* A user object carries the name of its account, or of the login it was copied for.
Names ==
    \A user \in User :
        \/ username[user] = user[1]
        \/ user[2] # NoCredential /\ username[user] = user[2].name

\* The user is that of the credential, and carries its name.
IsUserOf(user, c) ==
    /\ user = UserFor(c) /\ user # NoUser
    /\ username[user] = c.name

\* What is cached has been right, not long before it was stored.
CacheIsRight ==
    \A c \in DOMAIN cache :
        /\ config.cache_type # "BYPASS"
        /\ IsUserOf(cache[c].user, c)
        /\ LastRight(c) # Never
        /\ cache[c].time <= now
        /\ config.cache_type = "EXPIRING" => cache[c].time - LastRight(c) <= CheckTime

\* A check that waits is that of the header, and has not begun long ago; the answer
\* of the server has been true since it began.
CheckIsOwn(t) ==
    login[t].at \in {"binding", "bound"} =>
        LET c == login[t].header.credential
        IN  /\ login[t].header.type = "Basic"
            /\ IsUserOf(login[t].user, c)
            /\ login[t].dn = BindName(login[t].user, c.name)
            /\ login[t].dn # NoName
            /\ login[t].begun <= now /\ now - login[t].begun <= CheckTime
            /\ login[t].at = "bound" /\ login[t].verdict => login[t].begun <= LastRight(c)

\* A request that is accepted has its header's user.
AcceptedIsOwn(t) ==
    At(t, "accepted") =>
        CASE login[t].header.type = "Basic" -> IsUserOf(login[t].user, login[t].header.credential)
          [] login[t].header.type = "Digest" ->
               /\ login[t].user = UserOf(login[t].header.name)
               /\ login[t].header.name \in DOMAIN config.accounts
          [] OTHER -> login[t].user = UserOf(config.anonymous)

LastRightIsPast == \A c \in Credential : last_right[c] <= now

AuthInv ==
    /\ AuthTypeOK
    /\ Names
    /\ CacheIsRight
    /\ \A t \in Task : CheckIsOwn(t) /\ AcceptedIsOwn(t)
    /\ LastRightIsPast

-----------------------------------------------------------------------------
(* Users.                                                                  *)

\* The user of a credential is one of those there are, if there is one.
LEMMA UserForType ==
    ASSUME config \in Configs, NEW c \in Credential
    PROVE  /\ UserFor(c) # NoUser => UserFor(c) \in User
           /\ UserFor(c) # NoUser => UserFor(c)[1] \in DOMAIN config.accounts
<1>1. DOMAIN config.accounts \subseteq UserName
  BY AuthAssumption
<1> QED
  BY <1>1 DEF UserFor, UserOf, User, NoUser, Credential

\* No user is nobody.
LEMMA NoUserIsNoUser == NoUser \notin User
  BY AuthAssumption DEF NoUser, User

\* A copy of the fallback is that of one credential alone.
LEMMA CopyIsOfOne ==
    ASSUME NEW c \in Credential, NEW d \in Credential,
           c.name \notin DOMAIN config.accounts, UserFor(c) # NoUser, UserFor(d) = UserFor(c)
    PROVE  d = c
<1>1. UserFor(c) = << Fallback, c >>
  BY DEF UserFor
<1>2. c # NoCredential
  BY AuthAssumption DEF Credential, NoCredential
<1>3. UserFor(d) # UserOf(d.name)
  BY <1>1, <1>2 DEF UserOf
<1>4. UserFor(d) = << Fallback, d >>
  BY <1>3 DEF UserFor
<1> QED
  BY <1>1, <1>4

\* Whom LDAP is asked about is one of the names.
LEMMA BindNameType ==
    ASSUME config \in Configs, NEW user, user[1] \in DOMAIN config.accounts, NEW name \in UserName
    PROVE  BindName(user, name) \in UserName \union {NoName}
<1>1. LET p == PasswordOf(user) IN p.type = "LDAP" /\ p.version = 1 => p.name \in UserName
  BY AuthAssumption DEF PasswordOf
<1> QED
  BY <1>1 DEF BindName

\* What follows from the configuration alone stays.
LEMMA ConfigStays ==
    ASSUME config' = config
    PROVE  /\ \A c : UserFor(c)' = UserFor(c)
           /\ \A user, name : BindName(user, name)' = BindName(user, name)
           /\ \A user, name, password :
                CheckPassword(user, name, password)' = CheckPassword(user, name, password)
  BY DEF UserFor, BindName, CheckPassword, PasswordOf, HashlibMatches, DigestMatches

\* What a check would say changes with the passwords alone.
LEMMA IsRightStays ==
    ASSUME config' = config, directory' = directory
    PROVE  \A c : IsRight(c)' <=> IsRight(c)
  BY ConfigStays DEF IsRight, Binds

-----------------------------------------------------------------------------
(* When a credential was right last.                                       *)

\* A credential was right at a moment of the past, or never.
LEMMA LastRightType ==
    ASSUME AuthTypeOK, LastRightIsPast, NEW c \in Credential
    PROVE  LastRight(c) \in Nat \union {Never} /\ LastRight(c) <= now
  BY DEF AuthTypeOK, LastRightIsPast, LastRight, Never

\* It is never forgotten.
LEMMA LastRightGrows ==
    ASSUME AuthTypeOK, LastRightIsPast,
           \/ UNCHANGED environment
           \/ Tick
           \/ \E name \in Entry, password \in config.passwords : ChangePassword(name, password)
    PROVE  \A c \in Credential : LastRight(c) <= LastRight(c)'
<1> SUFFICES ASSUME NEW c \in Credential PROVE LastRight(c) <= LastRight(c)'
  OBVIOUS
<1>1. /\ now \in Nat /\ last_right[c] \in Nat \union {Never} /\ last_right[c] <= now
      /\ LastRight(c) \in Nat \union {Never} /\ LastRight(c) <= now
  BY LastRightType DEF AuthTypeOK, LastRightIsPast
<1>2. CASE UNCHANGED environment
  BY <1>1, <1>2, IsRightStays DEF environment, LastRight, Never
<1>3. CASE Tick
  BY <1>1, <1>3, IsRightStays DEF Tick, LastRight, Never
<1>4. CASE \E name \in Entry, password \in config.passwords : ChangePassword(name, password)
  <2>1. last_right'[c] = LastRight(c) /\ now' = now
    BY <1>4 DEF ChangePassword
  <2> QED
    BY <2>1, <1>1 DEF LastRight, Never
<1> QED
  BY <1>2, <1>3, <1>4

-----------------------------------------------------------------------------
(* What no step takes away.                                                *)

Persists ==
    /\ config' = config
    /\ now' \in Nat /\ now <= now'
    /\ \A t \in Task : login[t].at \in {"binding", "bound"} =>
                         now' - login[t].begun <= CheckTime
    /\ \A c \in Credential : LastRight(c) \in Int /\ LastRight(c)' \in Int
                             /\ LastRight(c) <= LastRight(c)'
    /\ \A c \in Credential : \A user : IsUserOf(user, c) => IsUserOf(user, c)'

\* Giving a user its name takes no other's away.
LEMMA NamedPersists ==
    ASSUME AuthInv, config' = config, NEW d \in Credential, UserFor(d) # NoUser,
           username' = Named(d)
    PROVE  /\ username' \in [User -> UserName]
           /\ Names'
           /\ \A c \in Credential : \A user : IsUserOf(user, c) => IsUserOf(user, c)'
           /\ IsUserOf(UserFor(d), d)'
<1>1. /\ username \in [User -> UserName] /\ config \in Configs
      /\ UserFor(d) \in User /\ d.name \in UserName
  BY UserForType DEF AuthInv, AuthTypeOK, Credential
<1>2. CASE d.name \in DOMAIN config.accounts
  <2>1. username' = username
    BY <1>2 DEF Named
  <2>2. UserFor(d) = UserOf(d.name)
    BY <1>2 DEF UserFor
  <2>3. username[UserFor(d)] = d.name
    BY <1>1, <2>2 DEF AuthInv, Names, UserOf
  <2> QED
    BY <1>1, <2>1, <2>3, ConfigStays DEF AuthInv, Names, IsUserOf
<1>3. CASE d.name \notin DOMAIN config.accounts
  <2>1. username' = [username EXCEPT ![UserFor(d)] = d.name]
    BY <1>3 DEF Named
  <2>2. UserFor(d) = << Fallback, d >> /\ d # NoCredential
    BY <1>3, AuthAssumption DEF UserFor, Credential, NoCredential
  <2>3. Names'
    BY <1>1, <2>1, <2>2 DEF AuthInv, Names
  <2>4. ASSUME NEW c \in Credential, NEW user, IsUserOf(user, c) PROVE IsUserOf(user, c)'
    <3>1. user = UserFor(c) /\ user \in User /\ username[user] = c.name
      BY <2>4, <1>1, UserForType DEF IsUserOf
    <3>2. CASE user = UserFor(d)
      BY <3>1, <3>2, <2>1, <1>1, <1>3, <2>4, CopyIsOfOne, ConfigStays DEF IsUserOf
    <3>3. CASE user # UserFor(d)
      BY <3>1, <3>3, <2>1, <1>1, <2>4, ConfigStays DEF IsUserOf
    <3> QED
      BY <3>2, <3>3
  <2> QED
    BY <1>1, <2>1, <2>3, <2>4, ConfigStays DEF IsUserOf
<1> QED
  BY <1>2, <1>3

\* What stays in the cache has been right.
LEMMA CachePersists ==
    ASSUME AuthInv, Persists, DOMAIN cache' \subseteq DOMAIN cache,
           \A c \in DOMAIN cache' : cache'[c] = cache[c]
    PROVE  /\ CacheIsRight'
           /\ DOMAIN cache' \subseteq Credential
           /\ \A c \in DOMAIN cache' : cache'[c] \in [user : User, time : Nat]
<1> SUFFICES ASSUME NEW c \in DOMAIN cache'
             PROVE  /\ c \in Credential
                    /\ cache'[c] \in [user : User, time : Nat]
                    /\ config'.cache_type # "BYPASS"
                    /\ IsUserOf(cache[c].user, c)'
                    /\ LastRight(c)' # Never
                    /\ cache[c].time <= now'
                    /\ config'.cache_type = "EXPIRING" => cache[c].time - LastRight(c)' <= CheckTime
  BY DEF CacheIsRight
<1>1. /\ c \in Credential /\ cache'[c] = cache[c] /\ cache[c] \in [user : User, time : Nat]
      /\ now \in Nat
  BY DEF AuthInv, AuthTypeOK
<1>2. /\ config.cache_type # "BYPASS"
      /\ IsUserOf(cache[c].user, c)
      /\ LastRight(c) # Never
      /\ cache[c].time <= now
      /\ config.cache_type = "EXPIRING" => cache[c].time - LastRight(c) <= CheckTime
  BY DEF AuthInv, CacheIsRight
<1>3. LastRight(c) \in Nat \union {Never}
  BY <1>1, LastRightType DEF AuthInv
<1> QED
  BY <1>1, <1>2, <1>3, AuthAssumption DEF Persists, Never

\* A request that is not touched remains what it is.
LEMMA LoginPersists ==
    ASSUME AuthInv, Persists, NEW t \in Task, login'[t] = login[t]
    PROVE  CheckIsOwn(t)' /\ AcceptedIsOwn(t)'
<1>1. /\ login[t] \in LoginState /\ now \in Nat
      /\ CheckIsOwn(t) /\ AcceptedIsOwn(t)
  BY DEF AuthInv, AuthTypeOK
<1>2. CheckIsOwn(t)'
  <2> SUFFICES ASSUME login[t].at \in {"binding", "bound"}
               PROVE  LET c == login[t].header.credential
                      IN  /\ login[t].header.type = "Basic"
                          /\ IsUserOf(login[t].user, c)'
                          /\ login[t].dn = BindName(login[t].user, c.name)'
                          /\ login[t].dn # NoName
                          /\ login[t].begun <= now' /\ now' - login[t].begun <= CheckTime
                          /\ login[t].at = "bound" /\ login[t].verdict =>
                               login[t].begun <= LastRight(c)'
    BY DEF CheckIsOwn
  <2> DEFINE c == login[t].header.credential
  <2>1. login[t].begun \in Nat /\ login[t].header \in Headers
    BY <1>1 DEF LoginState, Idle
  <2>2. c \in Credential
    BY <2>1, <1>1, AuthAssumption DEF CheckIsOwn
  <2>3. BindName(login[t].user, c.name)' = BindName(login[t].user, c.name)
    BY ConfigStays DEF Persists
  <2> HIDE DEF c
  <2> QED
    BY <1>1, <2>1, <2>2, <2>3 DEF Persists, CheckIsOwn, c
<1>3. AcceptedIsOwn(t)'
  <2> SUFFICES ASSUME At(t, "accepted") PROVE AcceptedIsOwn(t)'
    BY DEF AcceptedIsOwn, At
  <2>1. login[t].header \in Headers
    BY <1>1 DEF LoginState, Idle, At
  <2>2. login[t].header.type = "Basic" => login[t].header.credential \in Credential
    BY <2>1, AuthAssumption
  <2>3. CASE login[t].header.type = "Basic"
    BY <1>1, <2>2, <2>3 DEF Persists, AcceptedIsOwn, At
  <2>4. CASE login[t].header.type # "Basic"
    BY <1>1, <2>4 DEF Persists, AcceptedIsOwn, At, UserOf
  <2> QED
    BY <2>3, <2>4
<1> QED
  BY <1>2, <1>3

-----------------------------------------------------------------------------
(* The parts of the invariant, as the steps change them.                   *)

Caches ==
    /\ DOMAIN cache \subseteq Credential
    /\ cache \in [DOMAIN cache -> [user : User, time : Nat]]
    /\ CacheIsRight

Logins ==
    /\ login \in [Task -> LoginState]
    /\ \A t \in Task : CheckIsOwn(t) /\ AcceptedIsOwn(t)

\* Where only requests move on, what is known of the others stays.
LEMMA SamePersists ==
    ASSUME AuthInv, UNCHANGED environment,
           \/ username' = username
           \/ \E d \in Credential : UserFor(d) # NoUser /\ username' = Named(d)
    PROVE  /\ Persists
           /\ username' \in [User -> UserName]
           /\ Names' /\ LastRightIsPast'
<1>1. \A c \in Credential : \A user : IsUserOf(user, c) => IsUserOf(user, c)'
  <2>1. CASE username' = username
    BY <2>1, ConfigStays DEF environment, IsUserOf
  <2>2. CASE \E d \in Credential : UserFor(d) # NoUser /\ username' = Named(d)
    BY <2>2, NamedPersists DEF environment
  <2> QED
    BY <2>1, <2>2
<1>2. username' \in [User -> UserName] /\ Names'
  <2>1. CASE username' = username
    BY <2>1 DEF AuthInv, AuthTypeOK, Names
  <2>2. CASE \E d \in Credential : UserFor(d) # NoUser /\ username' = Named(d)
    BY <2>2, NamedPersists DEF environment
  <2> QED
    BY <2>1, <2>2
<1>3. \A c \in Credential : LastRight(c) \in Int /\ LastRight(c)' \in Int
                            /\ LastRight(c) <= LastRight(c)'
  <2>1. \A c \in Credential : LastRight(c)' = LastRight(c)
    BY IsRightStays DEF environment, LastRight
  <2> QED
    BY <2>1, LastRightType DEF AuthInv, Never
<1>4. \A t \in Task : login[t].at \in {"binding", "bound"} =>
                        now' - login[t].begun <= CheckTime
  BY DEF environment, AuthInv, CheckIsOwn
<1> QED
  BY <1>1, <1>2, <1>3, <1>4 DEF Persists, environment, AuthInv, AuthTypeOK, LastRightIsPast

\* What CacheGot leaves.
LEMMA CacheGotKeeps ==
    ASSUME AuthInv, Persists, NEW c, cache' = CacheGot(c) \/ cache' = cache
    PROVE  Caches'
<1>1. /\ cache' \in [DOMAIN cache' -> [user : User, time : Nat]]
      /\ DOMAIN cache' \subseteq DOMAIN cache
      /\ \A d \in DOMAIN cache' : cache'[d] = cache[d]
  BY DEF CacheGot, Restrict, AuthInv, AuthTypeOK
<1> QED
  BY <1>1, CachePersists DEF Caches

\* What has just been checked is stored.
LEMMA CacheSetKeeps ==
    ASSUME AuthInv, Persists, UNCHANGED environment,
           NEW c \in Credential, NEW user \in User, IsUserOf(user, c)',
           LastRight(c) # Never, now - LastRight(c) <= CheckTime,
           cache' = CacheSet(c, user)
    PROVE  Caches'
<1>1. CASE config.cache_type = "BYPASS"
  BY <1>1, CacheGotKeeps DEF CacheSet
<1>2. CASE config.cache_type # "BYPASS"
  <2> DEFINE time == IF config.cache_type = "EXPIRING" THEN now ELSE 0
             new == [user |-> user, time |-> time]
  <2>1. cache' = [d \in DOMAIN cache \union {c} |-> IF d = c THEN new ELSE cache[d]]
    BY <1>2 DEF CacheSet
  <2>2. /\ DOMAIN cache \subseteq Credential /\ now \in Nat
        /\ \A d \in DOMAIN cache : cache[d] \in [user : User, time : Nat]
    BY DEF AuthInv, AuthTypeOK
  <2>3. new \in [user : User, time : Nat]
    BY <2>2
  <2>4. LastRight(c)' = LastRight(c)
    BY IsRightStays DEF environment, LastRight
  <2>5. /\ new.user = user /\ new.time <= now'
        /\ config'.cache_type = "EXPIRING" => new.time - LastRight(c)' <= CheckTime
    BY <2>2, <2>4 DEF environment
  <2> HIDE DEF new
  <2>6. /\ DOMAIN cache' = DOMAIN cache \union {c}
        /\ cache'[c] = new
        /\ \A d \in DOMAIN cache : d # c => cache'[d] = cache[d]
    BY <2>1
  <2>7. ASSUME NEW d \in DOMAIN cache, d # c
        PROVE  /\ IsUserOf(cache[d].user, d)'
               /\ LastRight(d)' # Never
               /\ cache'[d].time <= now'
               /\ config'.cache_type = "EXPIRING" => cache'[d].time - LastRight(d)' <= CheckTime
    <3>1. d \in Credential
      BY <2>2
    <3>2. LastRight(d)' = LastRight(d)
      BY IsRightStays DEF environment, LastRight
    <3>3. /\ IsUserOf(cache[d].user, d)
          /\ LastRight(d) # Never
          /\ cache[d].time <= now
          /\ config.cache_type = "EXPIRING" => cache[d].time - LastRight(d) <= CheckTime
      BY DEF AuthInv, CacheIsRight
    <3>4. config' = config /\ now' = now /\ cache'[d] = cache[d]
      BY <2>6, <2>7 DEF environment
    <3>5. \A user_ : IsUserOf(user_, d) => IsUserOf(user_, d)'
      BY <3>1 DEF Persists
    <3>6. IsUserOf(cache[d].user, d)'
      BY <3>3, <3>4, <3>5
    <3> QED
      BY <3>2, <3>3, <3>4, <3>6
  <2>8. CacheIsRight'
    BY <1>2, <2>4, <2>5, <2>6, <2>7 DEF CacheIsRight, environment
  <2> QED
    BY <2>1, <2>2, <2>3, <2>8 DEF Caches
<1> QED
  BY <1>1, <1>2

\* One request moves on.
LEMMA OneLogin ==
    ASSUME AuthInv, Persists, NEW t \in Task, NEW l \in LoginState,
           login' = [login EXCEPT ![t] = l], CheckIsOwn(t)', AcceptedIsOwn(t)'
    PROVE  Logins'
<1>1. login \in [Task -> LoginState]
  BY DEF AuthInv, AuthTypeOK
<1>2. ASSUME NEW u \in Task, u # t PROVE CheckIsOwn(u)' /\ AcceptedIsOwn(u)'
  BY <1>1, <1>2, LoginPersists
<1> QED
  BY <1>1, <1>2 DEF Logins

\* A request that is refused says nothing of anyone any more.
LEMMA RefuseKeeps ==
    ASSUME AuthInv, Persists, NEW t \in Task, Refuse(t)
    PROVE  Logins'
<1>1. login'[t] = Idle /\ Idle \in LoginState
  BY DEF Refuse, AuthInv, AuthTypeOK, LoginState
<1>2. login'[t].at = "idle"
  BY <1>1 DEF Idle
<1>3. CheckIsOwn(t)' /\ AcceptedIsOwn(t)'
  BY <1>2 DEF CheckIsOwn, AcceptedIsOwn, At
<1> QED
  BY <1>1, <1>3, OneLogin DEF Refuse

\* A request may be let in as the user of the credential it bears.
LEMMA AcceptKeeps ==
    ASSUME AuthInv, Persists, NEW t \in Task, NEW user \in User, Accept(t, user),
           login[t].header \in Headers,
           CASE login[t].header.type = "Basic" -> IsUserOf(user, login[t].header.credential)'
             [] login[t].header.type = "Digest" -> /\ user = UserOf(login[t].header.name)
                                                   /\ login[t].header.name \in DOMAIN config.accounts
             [] OTHER -> user = UserOf(config.anonymous)
    PROVE  Logins'
<1> DEFINE l == [at |-> "accepted", header |-> login[t].header, user |-> user]
<1>1. l \in LoginState
  BY DEF LoginState
<1>2. login' = [login EXCEPT ![t] = l] /\ login'[t] = l
  BY DEF Accept, AuthInv, AuthTypeOK
<1>3. CheckIsOwn(t)'
  BY <1>2 DEF CheckIsOwn
<1>4. AcceptedIsOwn(t)'
  BY <1>2 DEF AcceptedIsOwn, At, Persists, UserOf
<1> QED
  BY <1>1, <1>2, <1>3, <1>4, OneLogin

\* What is known of the credential and the user of a Basic header.
LEMMA BasicHeader ==
    ASSUME AuthInv, NEW t \in Task, Arrived(t, "Basic")
    PROVE  /\ login[t].header \in Headers
           /\ login[t].header.type = "Basic"
           /\ login[t].header.credential \in Credential
<1>1. login[t] \in LoginState /\ login[t].at = "arrived"
  BY DEF AuthInv, AuthTypeOK, Arrived, At
<1>2. login[t].header \in Headers
  BY <1>1 DEF LoginState, Idle
<1> QED
  BY <1>2, AuthAssumption DEF Arrived

\* The parts make up the invariant.
LEMMA PartsInv ==
    ASSUME AuthInv, UNCHANGED environment, Names', LastRightIsPast', Caches', Logins',
           username' \in [User -> UserName]
    PROVE  AuthInv'
  BY DEF AuthInv, AuthTypeOK, Caches, Logins, environment

-----------------------------------------------------------------------------
(* The steps.                                                              *)

\* Before the first request the invariant holds.
LEMMA InitAuthInv == InitAuth => AuthInv
<1> SUFFICES ASSUME InitAuth PROVE AuthInv
  OBVIOUS
<1>1. AuthTypeOK
  <2>1. cache \in [DOMAIN cache -> [user : User, time : Nat]] /\ DOMAIN cache = {}
    BY DEF InitAuth
  <2>2. username \in [User -> UserName]
    BY DEF InitAuth, User
  <2>3. directory \in [Entry -> Password]
    BY AuthAssumption DEF InitAuth
  <2> QED
    BY <2>1, <2>2, <2>3 DEF InitAuth, AuthTypeOK, LoginState, Never
<1>2. \A t \in Task : login[t].at = "idle"
  BY DEF InitAuth, Idle
<1> QED
  BY <1>1, <1>2 DEF InitAuth, AuthInv, Names, CacheIsRight, CheckIsOwn, AcceptedIsOwn, At,
                    LastRightIsPast, Never

\* Where a request only arrives, is refused or ends.
LEMMA SimpleStepInv ==
    ASSUME AuthInv, NEW t \in Task,
           \/ \E header \in config.headers : Arrive(t, header)
           \/ PickOutNobody(t) \/ LdapFails(t) \/ Leave(t)
    PROVE  AuthInv'
<1>1. UNCHANGED << environment, username, cache >>
  BY DEF Arrive, PickOutNobody, LdapFails, Leave
<1>2. Persists /\ Names' /\ LastRightIsPast' /\ username' \in [User -> UserName]
  BY <1>1, SamePersists
<1>3. Caches'
  BY <1>1, <1>2, CacheGotKeeps
<1>4. Logins'
  <2>1. ASSUME NEW header \in config.headers, Arrive(t, header) PROVE Logins'
    <3> DEFINE l == [at |-> "arrived", header |-> header]
    <3>1. l \in LoginState
      BY AuthAssumption DEF AuthInv, AuthTypeOK, LoginState
    <3>2. login' = [login EXCEPT ![t] = l] /\ login'[t].at = "arrived"
      BY <2>1 DEF Arrive, AuthInv, AuthTypeOK
    <3>3. CheckIsOwn(t)' /\ AcceptedIsOwn(t)'
      BY <3>2 DEF CheckIsOwn, AcceptedIsOwn, At
    <3> QED
      BY <1>2, <3>1, <3>2, <3>3, OneLogin
  <2>2. CASE PickOutNobody(t) \/ LdapFails(t) \/ Leave(t)
    BY <1>2, <2>2, RefuseKeeps DEF PickOutNobody, LdapFails, Leave, Refuse
  <2> QED
    BY <2>1, <2>2
<1> QED
  BY <1>1, <1>2, <1>3, <1>4, PartsInv

\* A request without a credential, let in as the anonymous user or refused.
LEMMA AnonymousInv ==
    ASSUME AuthInv, NEW t \in Task, PickOutAnonymous(t)
    PROVE  AuthInv'
<1>1. UNCHANGED << environment, username, cache >>
  BY DEF PickOutAnonymous
<1>2. Persists /\ Names' /\ LastRightIsPast' /\ username' \in [User -> UserName]
  BY <1>1, SamePersists
<1>3. Caches'
  BY <1>1, <1>2, CacheGotKeeps
<1>4. Logins'
  <2>1. CASE config.anonymous = NoName
    BY <1>2, <2>1, RefuseKeeps DEF PickOutAnonymous
  <2>2. CASE config.anonymous # NoName
    <3>1. UserOf(config.anonymous) \in User /\ Accept(t, UserOf(config.anonymous))
      BY <2>2, AuthAssumption DEF PickOutAnonymous, AuthInv, AuthTypeOK, UserOf, User
    <3>2. login[t].header \in Headers /\ login[t].header.type = "none"
      <4>1. login[t] \in LoginState /\ login[t].at = "arrived"
        BY DEF AuthInv, AuthTypeOK, PickOutAnonymous, Arrived, At
      <4> QED
        BY <4>1 DEF LoginState, Idle, PickOutAnonymous, Arrived
    <3> QED
      BY <1>2, <3>1, <3>2, AcceptKeeps
  <2> QED
    BY <2>1, <2>2
<1> QED
  BY <1>1, <1>2, <1>3, <1>4, PartsInv

\* A request with a Digest credential.
LEMMA DigestInv ==
    ASSUME AuthInv, NEW t \in Task, PickOutDigest(t)
    PROVE  AuthInv'
<1>1. UNCHANGED << environment, username, cache >>
  BY DEF PickOutDigest
<1>2. Persists /\ Names' /\ LastRightIsPast' /\ username' \in [User -> UserName]
  BY <1>1, SamePersists
<1>3. Caches'
  BY <1>1, <1>2, CacheGotKeeps
<1>4. Logins'
  <2> DEFINE user == UserOf(login[t].header.name)
  <2>1. CASE Refuse(t)
    BY <1>2, <2>1, RefuseKeeps
  <2>2. CASE login[t].header.name \in DOMAIN config.accounts /\ Accept(t, user)
    <3>1. user \in User
      BY <2>2, AuthAssumption DEF AuthInv, AuthTypeOK, UserOf, User
    <3>2. login[t].header \in Headers /\ login[t].header.type = "Digest"
      <4>1. login[t] \in LoginState /\ login[t].at = "arrived"
        BY DEF AuthInv, AuthTypeOK, PickOutDigest, Arrived, At
      <4> QED
        BY <4>1 DEF LoginState, Idle, PickOutDigest, Arrived
    <3> QED
      BY <1>2, <2>2, <3>1, <3>2, AcceptKeeps
  <2> QED
    BY <2>1, <2>2 DEF PickOutDigest
<1> QED
  BY <1>1, <1>2, <1>3, <1>4, PartsInv

\* A credential found in the cache was right not too long ago.
LEMMA CachedInv ==
    ASSUME AuthInv, NEW t \in Task, PickOutCached(t)
    PROVE  AuthInv'
<1> DEFINE c == login[t].header.credential
<1>1. UNCHANGED << environment, username, cache >>
  BY DEF PickOutCached
<1>2. Persists /\ Names' /\ LastRightIsPast' /\ username' \in [User -> UserName]
  BY <1>1, SamePersists
<1>3. Caches'
  BY <1>1, <1>2, CacheGotKeeps
<1>4. Logins'
  <2>1. /\ login[t].header \in Headers /\ login[t].header.type = "Basic"
        /\ c \in Credential
    BY BasicHeader DEF PickOutCached
  <2>2. c \in DOMAIN cache /\ Accept(t, cache[c].user)
    BY DEF PickOutCached, CacheGet
  <2>3. cache[c].user \in User /\ IsUserOf(cache[c].user, c)
    BY <2>2 DEF AuthInv, AuthTypeOK, CacheIsRight
  <2>4. login'[t].header = login[t].header
    BY <2>2 DEF Accept, AuthInv, AuthTypeOK
  <2>5. PICK user \in User : user = cache[c].user
    BY <2>3
  <2>6. IsUserOf(user, login[t].header.credential)'
    BY <1>2, <2>1, <2>3, <2>4, <2>5 DEF Persists
  <2> QED
    BY <1>2, <2>1, <2>2, <2>5, <2>6, AcceptKeeps
<1> QED
  BY <1>1, <1>2, <1>3, <1>4, PartsInv

\* A credential that is not in the cache: compared at once, or taken to LDAP.
LEMMA BasicInv ==
    ASSUME AuthInv, NEW t \in Task, PickOutBasic(t)
    PROVE  AuthInv'
<1>1. /\ UNCHANGED environment
      /\ config \in Configs /\ now \in Nat /\ login \in [Task -> LoginState]
  BY DEF PickOutBasic, AuthInv, AuthTypeOK
<1>2. PICK c \in Credential : c = login[t].header.credential
  BY BasicHeader DEF PickOutBasic
<1>3. login[t].header \in Headers /\ login[t].header.type = "Basic" /\ c.name \in UserName
  BY BasicHeader DEF PickOutBasic, Credential
<1>4. PICK user : user = UserFor(c)
  OBVIOUS
<1>5. CASE user = NoUser
  <2>1. Refuse(t) /\ cache' = CacheGot(c) /\ username' = username
    BY <1>2, <1>4, <1>5 DEF PickOutBasic
  <2>2. Persists /\ Names' /\ LastRightIsPast' /\ username' \in [User -> UserName]
    BY <1>1, <2>1, SamePersists
  <2> QED
    BY <1>1, <2>1, <2>2, CacheGotKeeps, RefuseKeeps, PartsInv
<1>6. CASE user # NoUser
  <2>1. username' = Named(c)
    BY <1>2, <1>4, <1>6 DEF PickOutBasic
  <2>2. Persists /\ Names' /\ LastRightIsPast' /\ username' \in [User -> UserName]
    BY <1>1, <1>4, <1>6, <2>1, SamePersists
  <2>3. user \in User /\ user[1] \in DOMAIN config.accounts
    BY <1>1, <1>4, <1>6, UserForType
  <2>4. IsUserOf(user, c)'
    <3>1. IsUserOf(UserFor(c), c)' /\ UserFor(c)' = UserFor(c)
      BY <1>1, <1>4, <1>6, <2>1, NamedPersists, ConfigStays DEF environment
    <3> QED
      BY <1>4, <3>1 DEF IsUserOf
  <2>5. username'[user] = c.name
    BY <2>4 DEF IsUserOf
  <2>6. PICK dn : dn = BindName(user, c.name)
    OBVIOUS
  <2>7. IF dn # NoName
        THEN /\ login' = [login EXCEPT ![t] = [at |-> "binding", header |-> login[t].header,
                                               user |-> user, dn |-> dn, begun |-> now,
                                               verdict |-> FALSE]]
             /\ cache' = CacheGot(c)
        ELSE IF CheckPassword(user, c.name, c.password)
        THEN Accept(t, user) /\ cache' = CacheSet(c, user)
        ELSE Refuse(t) /\ cache' = CacheGot(c)
    BY <1>2, <1>4, <1>6, <2>5, <2>6 DEF PickOutBasic
  <2>8. CASE dn # NoName
    <3> DEFINE l == [at |-> "binding", header |-> login[t].header, user |-> user, dn |-> dn,
                     begun |-> now, verdict |-> FALSE]
    <3>1. dn \in UserName
      BY <1>1, <1>3, <2>3, <2>6, <2>8, BindNameType
    <3>2. l \in LoginState
      BY <1>1, <1>3, <2>3, <3>1 DEF LoginState
    <3>3. /\ login'[t].at = "binding" /\ login'[t].header = login[t].header
          /\ login'[t].user = user /\ login'[t].dn = dn /\ login'[t].begun = now
      BY <1>1, <2>7, <2>8
    <3>4. BindName(user, c.name)' = BindName(user, c.name)
      BY <1>1, ConfigStays DEF environment
    <3>5. CheckIsOwn(t)'
      BY <1>1, <1>2, <1>3, <2>4, <2>6, <2>8, <3>3, <3>4, AuthAssumption DEF CheckIsOwn, environment
    <3>6. AcceptedIsOwn(t)'
      BY <3>3 DEF AcceptedIsOwn, At
    <3>7. Logins'
      BY <2>2, <2>7, <2>8, <3>2, <3>5, <3>6, OneLogin
    <3> QED
      BY <1>1, <2>2, <2>7, <2>8, <3>7, CacheGotKeeps, PartsInv
  <2>9. CASE dn = NoName /\ CheckPassword(user, c.name, c.password)
    <3>1. LastRight(c) = now
      BY <1>4, <1>6, <2>6, <2>9 DEF LastRight, IsRight
    <3>2. LastRight(c) # Never /\ now - LastRight(c) <= CheckTime
      BY <1>1, <3>1, AuthAssumption DEF Never
    <3>3. Accept(t, user) /\ cache' = CacheSet(c, user)
      BY <2>7, <2>9
    <3>4. Caches'
      BY <1>1, <2>2, <2>3, <2>4, <3>2, <3>3, CacheSetKeeps
    <3>5. login'[t].header.credential = c
      BY <1>1, <1>2, <3>3 DEF Accept
    <3>6. IsUserOf(user, login[t].header.credential)'
      BY <2>4, <3>5 DEF IsUserOf
    <3>7. Logins'
      BY <1>3, <2>2, <2>3, <3>3, <3>6, AcceptKeeps
    <3> QED
      BY <1>1, <2>2, <3>4, <3>7, PartsInv
  <2>10. CASE dn = NoName /\ ~CheckPassword(user, c.name, c.password)
    BY <1>1, <2>2, <2>7, <2>10, CacheGotKeeps, RefuseKeeps, PartsInv
  <2> QED
    BY <2>8, <2>9, <2>10
<1> QED
  BY <1>5, <1>6

\* The answer of LDAP to a bind.
LEMMA LdapAnswersInv ==
    ASSUME AuthInv, NEW t \in Task, LdapAnswers(t)
    PROVE  AuthInv'
<1>1. UNCHANGED << environment, username, cache >> /\ login \in [Task -> LoginState]
  BY DEF LdapAnswers, AuthInv, AuthTypeOK
<1>2. Persists /\ Names' /\ LastRightIsPast' /\ username' \in [User -> UserName]
  BY <1>1, SamePersists
<1>3. Caches'
  BY <1>1, <1>2, CacheGotKeeps
<1>4. PICK verdict \in {FALSE, Binds(login[t].dn, login[t].header.credential.password)} :
         login' = [login EXCEPT ![t].at = "bound", ![t].verdict = verdict]
  BY DEF LdapAnswers
<1>5. /\ login[t] \in [at : {"binding", "bound"}, header : Headers, user : User, dn : UserName,
                       begun : Nat, verdict : BOOLEAN]
      /\ login[t].at = "binding"
  BY <1>1 DEF LoginState, Idle, LdapAnswers, At
<1>6. verdict \in BOOLEAN
  BY DEF Binds
<1> DEFINE l == [login[t] EXCEPT !.at = "bound", !.verdict = verdict]
<1>7. l \in LoginState
  BY <1>5, <1>6 DEF LoginState
<1>8. login' = [login EXCEPT ![t] = l] /\ login'[t] = l
  BY <1>1, <1>4, <1>5
<1>9. /\ login'[t].at = "bound" /\ login'[t].verdict = verdict
      /\ login'[t].header = login[t].header /\ login'[t].user = login[t].user
      /\ login'[t].dn = login[t].dn /\ login'[t].begun = login[t].begun
  <2>1. /\ l.at = "bound" /\ l.verdict = verdict /\ l.header = login[t].header
        /\ l.user = login[t].user /\ l.dn = login[t].dn /\ l.begun = login[t].begun
    BY <1>5
  <2> HIDE DEF l
  <2> QED
    BY <1>8, <2>1
<1>10. CheckIsOwn(t)'
  <2>1. PICK c \in Credential : c = login[t].header.credential
    BY <1>5, AuthAssumption DEF AuthInv, CheckIsOwn
  <2>2. PICK user : user = login[t].user
    OBVIOUS
  <2>3. /\ login[t].header.type = "Basic" /\ IsUserOf(user, c)
        /\ login[t].dn = BindName(user, c.name) /\ login[t].dn # NoName
        /\ login[t].begun <= now /\ now - login[t].begun <= CheckTime
    BY <1>5, <2>1, <2>2 DEF AuthInv, CheckIsOwn
  <2>4. IsUserOf(user, c)' /\ BindName(user, c.name)' = BindName(user, c.name)
    BY <1>2, <2>3, ConfigStays DEF Persists
  <2>5. verdict => LastRight(c) = now
    <3> SUFFICES ASSUME verdict PROVE IsRight(c)
      BY DEF LastRight
    <3>1. Binds(BindName(user, c.name), c.password)
      BY <1>4, <2>1, <2>3
    <3> QED
      BY <2>3, <3>1 DEF IsUserOf, IsRight
  <2>6. LastRight(c)' = LastRight(c)
    BY <1>1, IsRightStays DEF environment, LastRight
  <2> QED
    BY <1>1, <1>9, <2>1, <2>2, <2>3, <2>4, <2>5, <2>6 DEF CheckIsOwn, environment
<1>11. AcceptedIsOwn(t)'
  BY <1>9 DEF AcceptedIsOwn, At
<1>12. Logins'
  BY <1>2, <1>7, <1>8, <1>10, <1>11, OneLogin
<1> QED
  BY <1>1, <1>2, <1>3, <1>12, PartsInv

\* What is known of a check that has succeeded.
LEMMA CheckedHolds ==
    ASSUME AuthInv, NEW t \in Task, At(t, "bound")
    PROVE  /\ login[t].header \in Headers /\ login[t].header.type = "Basic"
           /\ login[t].header.credential \in Credential
           /\ login[t].user \in User /\ IsUserOf(login[t].user, login[t].header.credential)
           /\ login[t].verdict =>
                /\ LastRight(login[t].header.credential) # Never
                /\ now - LastRight(login[t].header.credential) <= CheckTime
<1>1. /\ login[t] \in [at : {"binding", "bound"}, header : Headers, user : User, dn : UserName,
                       begun : Nat, verdict : BOOLEAN]
      /\ login[t].at = "bound" /\ now \in Nat
  BY DEF AuthInv, AuthTypeOK, LoginState, Idle, At
<1>2. CheckIsOwn(t)
  BY DEF AuthInv
<1>3. login[t].header.type = "Basic" /\ login[t].header.credential \in Credential
  BY <1>1, <1>2, AuthAssumption DEF CheckIsOwn
<1>4. LastRight(login[t].header.credential) \in Nat \union {Never}
  BY <1>3, LastRightType DEF AuthInv
<1> QED
  BY <1>1, <1>2, <1>3, <1>4, AuthAssumption DEF CheckIsOwn, Never

\* A task that resumes after the bind or the comparison.
LEMMA CheckedInv ==
    ASSUME AuthInv, NEW t \in Task, Checked(t)
    PROVE  AuthInv'
<1>1. UNCHANGED << environment, username >> /\ login \in [Task -> LoginState]
  BY DEF Checked, AuthInv, AuthTypeOK
<1>2. Persists /\ Names' /\ LastRightIsPast' /\ username' \in [User -> UserName]
  BY <1>1, SamePersists
<1>3. PICK c \in Credential : c = login[t].header.credential
  BY CheckedHolds DEF Checked
<1>4. PICK user \in User : user = login[t].user
  BY CheckedHolds DEF Checked
<1>5. login[t].header \in Headers /\ login[t].header.type = "Basic" /\ IsUserOf(user, c)
  BY <1>3, <1>4, CheckedHolds DEF Checked
<1>6. IsUserOf(user, c)'
  BY <1>2, <1>5 DEF Persists
<1>7. CASE login[t].verdict
  <2>1. Accept(t, user) /\ cache' = CacheSet(c, user)
    BY <1>3, <1>4, <1>7 DEF Checked
  <2>2. LastRight(c) # Never /\ now - LastRight(c) <= CheckTime
    BY <1>3, <1>7, CheckedHolds DEF Checked
  <2>3. Caches'
    BY <1>1, <1>2, <1>6, <2>1, <2>2, CacheSetKeeps
  <2>4. login'[t].header.credential = c
    BY <1>1, <1>3, <2>1 DEF Accept
  <2>5. IsUserOf(user, login[t].header.credential)'
    BY <1>6, <2>4 DEF IsUserOf
  <2>6. Logins'
    BY <1>2, <1>5, <2>1, <2>5, AcceptKeeps
  <2> QED
    BY <1>1, <1>2, <2>3, <2>6, PartsInv
<1>8. CASE ~login[t].verdict
  BY <1>1, <1>2, <1>8, CacheGotKeeps, RefuseKeeps, PartsInv DEF Checked
<1> QED
  BY <1>7, <1>8

\* Time passes: nothing becomes more recent.
LEMMA TickInv == AuthInv /\ Tick => AuthInv'
<1> SUFFICES ASSUME AuthInv, Tick PROVE AuthInv'
  OBVIOUS
<1>1. /\ UNCHANGED << config, username, cache, login, directory, last_right >>
      /\ now' = now + 1 /\ now \in Nat
      /\ login \in [Task -> LoginState]
  BY DEF Tick, AuthInv, AuthTypeOK
<1>2. Persists
  <2>1. ASSUME NEW c \in Credential
        PROVE  LastRight(c) \in Int /\ LastRight(c)' \in Int /\ LastRight(c) <= LastRight(c)'
    <3>1. last_right[c] \in Nat \union {Never}
      BY DEF AuthInv, AuthTypeOK
    <3>2. LastRight(c)' \in Int /\ LastRight(c) \in Int
      BY <1>1, <3>1 DEF LastRight, Never
    <3> QED
      BY <3>2, LastRightGrows DEF AuthInv
  <2>2. ASSUME NEW t \in Task, login[t].at \in {"binding", "bound"}
        PROVE  now' - login[t].begun <= CheckTime
    <3>1. login[t] \in LoginState /\ now - login[t].begun < CheckTime
      BY <1>1, <2>2 DEF Tick
    <3>2. login[t].begun \in Nat
      BY <2>2, <3>1 DEF LoginState, Idle
    <3> QED
      BY <1>1, <3>1, <3>2, AuthAssumption
  <2>3. ASSUME NEW c \in Credential, NEW user, IsUserOf(user, c) PROVE IsUserOf(user, c)'
    BY <1>1, <2>3, ConfigStays DEF IsUserOf
  <2> QED
    BY <1>1, <2>1, <2>2, <2>3 DEF Persists
<1>3. Caches'
  BY <1>1, <1>2, CacheGotKeeps
<1>4. \A t \in Task : CheckIsOwn(t)' /\ AcceptedIsOwn(t)'
  BY <1>1, <1>2, LoginPersists
<1>5. LastRightIsPast'
  <2>1. ASSUME NEW c \in Credential PROVE last_right[c] <= now + 1
    <3>1. last_right[c] \in Nat \union {Never} /\ last_right[c] <= now
      BY DEF AuthInv, AuthTypeOK, LastRightIsPast
    <3> QED
      BY <1>1, <3>1 DEF Never
  <2> QED
    BY <1>1, <2>1 DEF LastRightIsPast
<1> QED
  BY <1>1, <1>3, <1>4, <1>5 DEF AuthInv, AuthTypeOK, Names, Caches

\* A password changes: what was right stays recorded as such.
LEMMA ChangePasswordInv ==
    ASSUME AuthInv, NEW name \in Entry, NEW password \in config.passwords,
           ChangePassword(name, password)
    PROVE  AuthInv'
<1>1. /\ UNCHANGED << config, username, cache, login, now >>
      /\ config \in Configs /\ now \in Nat
      /\ directory' = [directory EXCEPT ![name] = password]
      /\ last_right' = [c \in Credential |-> LastRight(c)]
  BY DEF ChangePassword, AuthInv, AuthTypeOK
<1>2. \A c \in Credential : LastRight(c) \in Nat \union {Never} /\ LastRight(c) <= now
  BY LastRightType DEF AuthInv
<1>3. Persists
  <2>1. ASSUME NEW c \in Credential
        PROVE  LastRight(c) \in Int /\ LastRight(c)' \in Int /\ LastRight(c) <= LastRight(c)'
    <3>1. LastRight(c)' \in Int /\ LastRight(c) \in Int
      <4>1. last_right'[c] \in Int
        BY <1>1, <1>2 DEF Never
      <4> QED
        BY <1>1, <1>2, <4>1 DEF LastRight, Never
    <3> QED
      BY <3>1, LastRightGrows DEF AuthInv
  <2>2. \A c \in Credential : \A user : IsUserOf(user, c) => IsUserOf(user, c)'
    BY <1>1, ConfigStays DEF IsUserOf
  <2>3. \A t \in Task : login[t].at \in {"binding", "bound"} =>
                          now' - login[t].begun <= CheckTime
    BY <1>1 DEF AuthInv, CheckIsOwn
  <2> QED
    BY <1>1, <2>1, <2>2, <2>3 DEF Persists
<1>4. Caches'
  BY <1>1, <1>3, CacheGotKeeps
<1>5. \A t \in Task : CheckIsOwn(t)' /\ AcceptedIsOwn(t)'
  BY <1>1, <1>3, LoginPersists
<1>6. directory' \in [Entry -> Password] /\ last_right' \in [Credential -> Nat \union {Never}]
  BY <1>1, <1>2, AuthAssumption DEF AuthInv, AuthTypeOK
<1>7. LastRightIsPast'
  BY <1>1, <1>2 DEF LastRightIsPast
<1> QED
  BY <1>1, <1>4, <1>5, <1>6, <1>7 DEF AuthInv, AuthTypeOK, Names, Caches

\* The invariant is inductive.
LEMMA NextAuthInv == AuthInv /\ [NextAuth]_authVars => AuthInv'
<1> SUFFICES ASSUME AuthInv, [NextAuth]_authVars PROVE AuthInv'
  OBVIOUS
<1>1. CASE UNCHANGED authVars
  <2>1. UNCHANGED << environment, username, cache, login >>
    BY <1>1 DEF authVars, environment
  <2>2. Persists /\ Names' /\ LastRightIsPast' /\ username' \in [User -> UserName]
    BY <2>1, SamePersists
  <2>3. Caches'
    BY <2>1, <2>2, CacheGotKeeps
  <2>4. Logins'
    BY <2>1, <2>2, LoginPersists DEF Logins, AuthInv, AuthTypeOK
  <2> QED
    BY <2>1, <2>2, <2>3, <2>4, PartsInv
<1>2. ASSUME NEW t \in Task, \E header \in config.headers : Arrive(t, header) PROVE AuthInv'
  BY <1>2, SimpleStepInv
<1>3. ASSUME NEW t \in Task, PickOutUser(t) PROVE AuthInv'
  BY <1>3, SimpleStepInv, AnonymousInv, DigestInv, CachedInv, BasicInv, LdapAnswersInv, CheckedInv
     DEF PickOutUser
<1>4. ASSUME NEW t \in Task, Leave(t) PROVE AuthInv'
  BY <1>4, SimpleStepInv
<1>5. ASSUME NEW name \in Entry, NEW password \in config.passwords, ChangePassword(name, password)
      PROVE  AuthInv'
  BY <1>5, ChangePasswordInv
<1>6. CASE Tick
  BY <1>6, TickInv
<1> QED
  BY <1>1, <1>2, <1>3, <1>4, <1>5, <1>6 DEF NextAuth

-----------------------------------------------------------------------------
(* What follows.                                                           *)

\* The invariant says whose an accepted request is.
LEMMA InvIsOneself == AuthInv => UserIsOneself
<1> SUFFICES ASSUME AuthInv, NEW t \in Task, At(t, "accepted")
             PROVE  CASE login[t].header.type = "Basic" ->
                           username[login[t].user] = login[t].header.credential.name
                      [] login[t].header.type = "Digest" ->
                           username[login[t].user] = login[t].header.name
                      [] OTHER -> login[t].user = UserOf(config.anonymous)
  BY DEF UserIsOneself
<1>1. AcceptedIsOwn(t) /\ login[t] \in LoginState
  BY DEF AuthInv, AuthTypeOK
<1>2. login[t].user \in User
  BY <1>1 DEF LoginState, Idle, At
<1>3. login[t].header.type = "Digest" => username[login[t].user] = login[t].header.name
  BY <1>1, <1>2 DEF AuthInv, Names, AcceptedIsOwn, At, UserOf
<1> QED
  BY <1>1, <1>3 DEF AcceptedIsOwn, At, IsUserOf

\* The outcomes of a step of pick_out_user.
LEMMA MovesOne ==
    ASSUME login \in [Task -> LoginState], NEW u \in Task,
           \/ \E header \in config.headers : Arrive(u, header)
           \/ PickOutUser(u) \/ Leave(u)
    PROVE  \E l : login' = [login EXCEPT ![u] = l]
<1>1. CASE \E header \in config.headers : Arrive(u, header)
  BY <1>1 DEF Arrive
<1>2. CASE Leave(u)
  BY <1>2 DEF Leave
<1>3. CASE Refuse(u)
  BY <1>3 DEF Refuse
<1>4. ASSUME NEW user, Accept(u, user) PROVE \E l : login' = [login EXCEPT ![u] = l]
  BY <1>4 DEF Accept
<1>5. CASE LdapAnswers(u)
  BY <1>5 DEF LdapAnswers
<1>6. CASE PickOutBasic(u)
  <2> DEFINE user == UserFor(login[u].header.credential)
             dn == BindName(user, username'[user])
             l == [at |-> "binding", header |-> login[u].header, user |-> user, dn |-> dn,
                   begun |-> now, verdict |-> FALSE]
  <2>1. login' = [login EXCEPT ![u] = l] \/ Accept(u, user) \/ Refuse(u)
    BY <1>6 DEF PickOutBasic
  <2> QED
    BY <2>1, <1>3, <1>4
<1>7. CASE PickOutAnonymous(u)
  BY <1>7, <1>3, <1>4 DEF PickOutAnonymous
<1>8. CASE PickOutDigest(u)
  BY <1>8, <1>3, <1>4 DEF PickOutDigest
<1>9. CASE PickOutCached(u)
  BY <1>9, <1>4 DEF PickOutCached
<1>10. CASE Checked(u)
  BY <1>10, <1>3, <1>4 DEF Checked
<1>11. CASE PickOutNobody(u) \/ LdapFails(u)
  BY <1>11, <1>3 DEF PickOutNobody, LdapFails
<1> QED
  BY <1>1, <1>2, <1>5, <1>6, <1>7, <1>8, <1>9, <1>10, <1>11 DEF PickOutUser

\* A request is let in by a Basic credential in one of three steps of its own.
LEMMA AcceptingSteps ==
    ASSUME AuthInv, [NextAuth]_authVars, NEW t \in Task, Accepts(t, "Basic")
    PROVE  PickOutCached(t) \/ PickOutBasic(t) \/ Checked(t)
<1>1. login \in [Task -> LoginState]
  BY DEF AuthInv, AuthTypeOK
<1>2. /\ login'[t].at = "accepted" /\ login[t].at # "accepted"
      /\ login[t].header.type = "Basic" /\ login' # login
  BY DEF Accepts, At
<1>3. PICK u \in Task : \/ \E header \in config.headers : Arrive(u, header)
                        \/ PickOutUser(u) \/ Leave(u)
  BY <1>2 DEF NextAuth, authVars, ChangePassword, Tick
<1>4. u = t
  <2>1. PICK l : login' = [login EXCEPT ![u] = l]
    BY <1>1, <1>3, MovesOne
  <2> QED
    BY <1>1, <1>2, <2>1
<1>5. ~Refuse(t) /\ ~Leave(t)
  BY <1>1, <1>2 DEF Refuse, Leave, Idle
<1>6. ~\E header \in config.headers : Arrive(t, header)
  BY <1>1, <1>2 DEF Arrive
<1>7. ~LdapAnswers(t)
  <2> SUFFICES ASSUME LdapAnswers(t) PROVE FALSE
    OBVIOUS
  <2>1. PICK verdict : login' = [login EXCEPT ![t].at = "bound", ![t].verdict = verdict]
    BY DEF LdapAnswers
  <2>2. login[t].at = "binding" /\ login[t] \in LoginState
    BY <1>1 DEF LdapAnswers, At
  <2>3. login[t] \in [at : {"binding", "bound"}, header : Headers, user : User, dn : UserName,
                      begun : Nat, verdict : BOOLEAN]
    BY <2>2 DEF LoginState, Idle
  <2>4. [login[t] EXCEPT !.at = "bound", !.verdict = verdict].at = "bound"
    BY <2>3
  <2> QED
    BY <1>1, <1>2, <2>1, <2>4
<1>8. ~PickOutAnonymous(t) /\ ~PickOutDigest(t)
  BY <1>2 DEF PickOutAnonymous, PickOutDigest, Arrived
<1>9. ~PickOutNobody(t) /\ ~LdapFails(t)
  BY <1>5 DEF PickOutNobody, LdapFails
<1> QED
  BY <1>3, <1>4, <1>5, <1>6, <1>7, <1>8, <1>9 DEF PickOutUser

\* Each of them relies on a credential that was right lately.
LEMMA AcceptsRecent ==
    ASSUME AuthInv, [NextAuth]_authVars, NEW t \in Task, Accepts(t, "Basic")
    PROVE  LET c == login[t].header.credential
           IN  /\ LastRight(c) # Never
               /\ Lifetime # Forever => now - LastRight(c) <= MaxAge
<1> DEFINE c == login[t].header.credential
           Recent == LastRight(c) # Never /\ now - LastRight(c) <= CheckTime
<1>1. /\ login \in [Task -> LoginState] /\ now \in Nat
      /\ config.cache_timeout \in Int /\ config.cache_type \in {"BYPASS", "MEMORY", "EXPIRING"}
      /\ CheckTime \in Nat
  BY AuthAssumption DEF AuthInv, AuthTypeOK
<1>2. Lifetime # Forever => CheckTime <= MaxAge /\ MaxAge \in Int
  BY <1>1 DEF Lifetime, Forever, MaxAge
<1>3. c \in Credential => LastRight(c) \in Nat \union {Never}
  BY LastRightType DEF AuthInv
<1>4. ASSUME c \in Credential, Recent
      PROVE  LastRight(c) # Never /\ (Lifetime # Forever => now - LastRight(c) <= MaxAge)
  <2> HIDE DEF c
  <2> QED
    BY <1>1, <1>2, <1>3, <1>4 DEF Never
<1>5. CASE PickOutCached(t)
  <2>1. c \in Credential /\ c \in DOMAIN cache /\ IsFresh(cache[c])
    BY <1>5, BasicHeader, NoUserIsNoUser DEF PickOutCached, CacheGet
  <2>2. /\ cache[c].time \in Nat /\ LastRight(c) # Never /\ config.cache_type # "BYPASS"
        /\ cache[c].time <= now
        /\ config.cache_type = "EXPIRING" => cache[c].time - LastRight(c) <= CheckTime
    BY <2>1 DEF AuthInv, AuthTypeOK, CacheIsRight
  <2>3. LastRight(c) \in Nat
    BY <1>3, <2>1, <2>2
  <2>4. ASSUME Lifetime # Forever PROVE now - LastRight(c) <= MaxAge
    <3>1. /\ config.cache_type = "EXPIRING" /\ config.cache_timeout \in Nat
          /\ Lifetime = config.cache_timeout
      BY <1>1, <2>2, <2>4 DEF Lifetime, Forever
    <3>2. now - cache[c].time < config.cache_timeout
      BY <1>1, <2>1, <3>1 DEF IsFresh
    <3>3. config.cache_timeout # 0 /\ MaxAge = CheckTime + (config.cache_timeout - 1)
      BY <1>1, <2>2, <3>1, <3>2 DEF MaxAge
    <3> HIDE DEF c
    <3> QED
      BY <1>1, <2>2, <2>3, <3>1, <3>2, <3>3
  <2> QED
    BY <2>2, <2>4
<1>6. CASE PickOutBasic(t)
  <2>1. c \in Credential
    BY <1>6, BasicHeader DEF PickOutBasic
  <2>2. UserFor(c) # NoUser /\ username' = Named(c)
    <3>1. ~Refuse(t)
      BY <1>1 DEF Refuse, Idle, Accepts
    <3> QED
      BY <1>6, <3>1 DEF PickOutBasic
  <2>3. username'[UserFor(c)] = c.name
    <3>1. UNCHANGED environment
      BY <1>6 DEF PickOutBasic
    <3>2. PICK d \in Credential : d = c
      BY <2>1
    <3>3. IsUserOf(UserFor(d), d)'
      BY <2>2, <3>1, <3>2, NamedPersists DEF environment
    <3>4. UserFor(d)' = UserFor(d)
      BY <3>1, ConfigStays DEF environment
    <3> QED
      BY <3>2, <3>3, <3>4 DEF IsUserOf
  <2>4. BindName(UserFor(c), c.name) = NoName /\ CheckPassword(UserFor(c), c.name, c.password)
    <3>1. ~Refuse(t)
      BY <1>1 DEF Refuse, Idle, Accepts
    <3>2. ASSUME NEW l, login' = [login EXCEPT ![t] = l], l.at = "binding" PROVE FALSE
      BY <1>1, <3>2 DEF Accepts
    <3> QED
      BY <1>6, <2>2, <2>3, <3>1, <3>2 DEF PickOutBasic
  <2>5. LastRight(c) = now
    BY <2>2, <2>4 DEF LastRight, IsRight
  <2> QED
    BY <1>1, <1>4, <2>1, <2>5 DEF Never
<1>7. CASE Checked(t)
  <2>1. At(t, "bound") /\ ~Refuse(t)
    BY <1>1, <1>7 DEF Checked, Refuse, Idle, Accepts
  <2>2. login[t].verdict
    BY <1>7, <2>1 DEF Checked
  <2> QED
    BY <1>4, <2>1, <2>2, CheckedHolds
<1> QED
  BY <1>5, <1>6, <1>7, AcceptingSteps

-----------------------------------------------------------------------------
\* The invariant holds throughout.
THEOREM AuthInvAlways == SpecAuth => []AuthInv
  BY InitAuthInv, NextAuthInv, PTL DEF SpecAuth

\* What pick_out_user, the caches and its callers keep is always of its type.
THEOREM AuthTypeCorrect == SpecAuth => []AuthTypeOK
<1>1. AuthInv => AuthTypeOK
  BY DEF AuthInv
<1> QED
  BY <1>1, AuthInvAlways, PTL

\* A request is the user's its header names from its check to its end, whoever else
\* logs in by the fallback account meanwhile.
THEOREM OneselfAlways == SpecAuth => []UserIsOneself
  BY InvIsOneself, AuthInvAlways, PTL

\* A Basic credential that lets a request in was right within the lifetime of the
\* cache and the time of one check.
THEOREM RecentAlways == SpecAuth => AcceptedIsRecent
<1>1. AuthInv /\ [NextAuth]_authVars =>
        [\A t \in Task : Accepts(t, "Basic") =>
           LET c == login[t].header.credential
           IN  /\ LastRight(c) # Never
               /\ Lifetime # Forever => now - LastRight(c) <= MaxAge]_authVars
  BY AcceptsRecent
<1> QED
  BY <1>1, AuthInvAlways, PTL DEF SpecAuth, AcceptedIsRecent

-----------------------------------------------------------------------------
(* The application's requests are DAVAuth's.                               *)

\* Only a request that has its user is served.
Served ==
    /\ DOMAIN remote = Task
    /\ \A t \in Task : Busy(t) => At(t, "accepted")

AppInv == AuthInv /\ Served

\* A step of a request touches no other.
LEMMA StepMovesOne ==
    ASSUME NEW t \in Task, Step(t)
    PROVE  \E x : remote' = [remote EXCEPT ![t] = x]
<1> DEFINE Moves == \E x : remote' = [remote EXCEPT ![t] = x]
<1>1. \A status : Answer(t, status) => Moves
  BY DEF Answer
<1>2. \A at : GoOn(t, at) => Moves
  BY DEF GoOn
<1>3. Raise(t) => Moves
  BY <1>1 DEF Raise
<1>4. CASE Precheck(t)
  BY <1>4, <1>2, <1>3 DEF Precheck, Look
<1>5. CASE Mkcol(t)
  BY <1>5, <1>1, <1>3 DEF Mkcol, Call
<1>6. CASE Proppatch(t) \/ Copy(t)
  BY <1>6, <1>1, <1>3 DEF Proppatch, Copy
<1>7. CASE Delete(t)
  BY <1>7, <1>1, <1>3 DEF Delete, Call
<1>8. CASE Create(t)
  BY <1>8, <1>1, <1>2, <1>3 DEF Create, Call
<1>9. CASE Store(t)
  BY <1>9, <1>1, <1>3 DEF Store, Call
<1>10. CASE HeadOf(t)
  BY <1>10, <1>1, <1>3 DEF HeadOf, Look
<1>11. CASE LookAtDestination(t)
  BY <1>11, <1>1, <1>2, <1>3 DEF LookAtDestination, Look
<1>12. CASE DeleteDestination(t)
  BY <1>12, <1>1, <1>2, <1>3 DEF DeleteDestination, Call
<1>13. CASE Rename(t)
  BY <1>13, <1>1, <1>3 DEF Rename, Call
<1> QED
  BY <1>4, <1>5, <1>6, <1>7, <1>8, <1>9, <1>10, <1>11, <1>12, <1>13 DEF Step

\* A request whose user is still to be picked out is not served.
LEMMA PickedOutIsNotAccepted ==
    ASSUME NEW t \in Task, PickOutUser(t) PROVE ~At(t, "accepted")
  BY DEF PickOutUser, PickOutAnonymous, PickOutNobody, PickOutDigest, PickOutCached, PickOutBasic,
         LdapAnswers, Checked, LdapFails, Arrived, At

\* A step of the application is one of DAVAuth, or none.
LEMMA NextIsAuthStep ==
    ASSUME AppInv, [Next]_appVars
    PROVE  [NextAuth]_authVars /\ Served'
<1>1. login \in [Task -> LoginState] /\ DOMAIN remote = Task
  BY DEF AppInv, AuthInv, AuthTypeOK, Served
<1>2. CASE UNCHANGED appVars
  BY <1>2 DEF appVars, hdfsVars, authVars, AppInv, Served, Busy, At
<1>3. ASSUME NEW t \in Task, NEW header \in config.headers, Arrive(t, header), UNCHANGED hdfsVars
      PROVE  [NextAuth]_authVars /\ Served'
  BY <1>1, <1>3 DEF NextAuth, Arrive, hdfsVars, AppInv, Served, Busy, At
<1>4. ASSUME NEW t \in Task, Login(t) PROVE [NextAuth]_authVars /\ Served'
  <2>1. PickOutUser(t) /\ remote' = remote
    BY <1>4 DEF Login
  <2>2. PICK l : login' = [login EXCEPT ![t] = l]
    BY <1>1, <2>1, MovesOne
  <2>3. ~At(t, "accepted")
    BY <2>1, PickedOutIsNotAccepted
  <2> QED
    BY <1>1, <2>1, <2>2, <2>3 DEF NextAuth, AppInv, Served, Busy, At
<1>5. ASSUME NEW t \in Task, NEW r, Distribute(t, r) PROVE [NextAuth]_authVars /\ Served'
  <2>1. At(t, "accepted") /\ ~Busy(t) /\ UNCHANGED << environment, username, cache >>
    BY <1>5 DEF Distribute
  <2>2. CASE /\ \E x : remote' = [remote EXCEPT ![t] = x]
             /\ login' = login
    BY <1>1, <2>1, <2>2 DEF authVars, environment, AppInv, Served, Busy, At
  <2>3. CASE Refuse(t) /\ remote' = remote
    BY <1>1, <2>1, <2>3 DEF NextAuth, Leave, Refuse, AppInv, Served, Busy, At
  <2> QED
    BY <1>5, <2>2, <2>3 DEF Distribute
<1>6. ASSUME NEW t \in Task, Serve(t) PROVE [NextAuth]_authVars /\ Served'
  <2>1. At(t, "accepted")
    BY <1>6 DEF Serve, AppInv, Served
  <2>2. PICK x : remote' = [remote EXCEPT ![t] = x]
    BY <1>6, StepMovesOne DEF Serve
  <2>3. CASE Busy(t)'
    BY <1>1, <1>6, <2>1, <2>2, <2>3 DEF Serve, authVars, AppInv, Served, Busy, At
  <2>4. CASE ~Busy(t)'
    <3>1. Leave(t)
      BY <1>6, <2>4 DEF Serve
    <3> QED
      BY <1>1, <2>1, <2>2, <2>4, <3>1 DEF NextAuth, Leave, AppInv, Served, Busy, At
  <2> QED
    BY <2>3, <2>4
<1>7. ASSUME NEW name \in Entry, NEW password \in config.passwords, ChangePassword(name, password),
             UNCHANGED hdfsVars
      PROVE  [NextAuth]_authVars /\ Served'
  BY <1>7 DEF NextAuth, ChangePassword, hdfsVars, AppInv, Served, Busy, At
<1>8. CASE Tick /\ UNCHANGED hdfsVars
  BY <1>8 DEF NextAuth, Tick, hdfsVars, AppInv, Served, Busy, At
<1> QED
  BY <1>2, <1>3, <1>4, <1>5, <1>6, <1>7, <1>8 DEF Next

\* The invariant is inductive.
LEMMA InitAppInv == Init => AppInv
<1> SUFFICES ASSUME Init PROVE Served
  BY InitAuthInv DEF Init, AppInv
<1> QED
  BY DEF Init, Served, Busy

\* ... and kept by every step of the server.
LEMMA NextAppInv == AppInv /\ [Next]_appVars => AppInv'
  BY NextIsAuthStep, NextAuthInv DEF AppInv

\* The application never does to users, caches and requests what pick_out_user and the
\* end of a request do not do.
THEOREM AppImplementsAuth == Spec => SpecAuth
<1>1. Init => InitAuth
  BY DEF Init
<1>2. AppInv /\ [Next]_appVars => [NextAuth]_authVars
  BY NextIsAuthStep
<1> QED
  BY <1>1, <1>2, InitAppInv, NextAppInv, PTL DEF Spec, SpecAuth

\* So whatever is distributed and served meanwhile, users, caches and what is known of
\* a request are of their types,
THEOREM AppTypeCorrect == Spec => []AuthTypeOK
  BY AppImplementsAuth, AuthTypeCorrect, PTL

\* a request is its user's from its check to its answer, at every call to HDFS too,
THEOREM AppOneself == Spec => []UserIsOneself
  BY AppImplementsAuth, OneselfAlways, PTL

\* and who is let in with a Basic credential has shown one that was right lately.
THEOREM AppRecent == Spec => AcceptedIsRecent
  BY AppImplementsAuth, RecentAlways, PTL

-----------------------------------------------------------------------------
(* The calls to HDFS: trees, and what a call may touch.                    *)

\* What is above a path is the prefixes of it that it is not itself.
LEMMA AboveIsPrefix ==
    ASSUME NEW x \in Seq(Segment)
    PROVE  /\ \A a \in Above(x) : a \in Seq(Segment) /\ IsPrefix(a, x) /\ a # x
           /\ \A a \in Seq(Segment) : IsPrefix(a, x) /\ a # x => a \in Above(x)
<1>1. ASSUME NEW a \in Above(x) PROVE a \in Seq(Segment) /\ IsPrefix(a, x) /\ a # x
  <2>1. PICK n \in 0 .. Len(x) - 1 : a = SubSeq(x, 1, n)
    BY DEF Above
  <2>2. n \in 0 .. Len(x) /\ n # Len(x) /\ Len(x) \in Nat
    BY <2>1
  <2> QED
    BY <2>1, <2>2, FirstSegments
<1>2. ASSUME NEW a \in Seq(Segment), IsPrefix(a, x), a # x PROVE a \in Above(x)
  <2>1. Len(a) <= Len(x) /\ a = SubSeq(x, 1, Len(a)) /\ Len(a) \in Nat /\ Len(x) \in Nat
    BY <1>2, PrefixIsFirst
  <2>2. Len(a) # Len(x)
    <3>1. SubSeq(x, 1, Len(x)) = x
      OBVIOUS
    <3> QED
      BY <1>2, <2>1, <3>1
  <2>3. Len(a) \in 0 .. Len(x) - 1
    BY <2>1, <2>2
  <2> QED
    BY <2>1, <2>3 DEF Above
<1> QED
  BY <1>1, <1>2

\* Of two paths that are above one another each way, each is the other.
LEMMA PrefixAntisymmetric ==
    ASSUME NEW p \in Seq(Segment), NEW q \in Seq(Segment), IsPrefix(p, q), IsPrefix(q, p)
    PROVE  p = q
<1>1. /\ Len(p) <= Len(q) /\ \A i \in 1 .. Len(p) : p[i] = q[i]
      /\ Len(q) <= Len(p)
  BY PrefixBySegment
<1>2. Len(p) = Len(q)
  BY <1>1
<1> QED
  BY <1>1, <1>2, SameSequence

\* The folder a path is in, and what is above that.
LEMMA ParentIsAbove ==
    ASSUME NEW x \in Seq(Segment), x # << >>
    PROVE  /\ Parent(x) \in Seq(Segment) /\ IsPrefix(Parent(x), x) /\ Parent(x) # x
           /\ Above(x) = Above(Parent(x)) \union {Parent(x)}
<1>1. Len(x) \in Nat /\ Len(x) # 0
  OBVIOUS
<1>2. Len(x) - 1 \in 0 .. Len(x)
  BY <1>1
<1>3. /\ Parent(x) \in Seq(Segment) /\ Len(Parent(x)) = Len(x) - 1 /\ IsPrefix(Parent(x), x)
      /\ \A i \in 1 .. Len(x) - 1 : Parent(x)[i] = x[i]
  BY <1>2, FirstSegments DEF Parent
<1>4. \A n \in 0 .. Len(x) - 1 : SubSeq(Parent(x), 1, n) = SubSeq(x, 1, n)
  BY <1>3, PrefixIsFirst
<1>5. Above(x) = Above(Parent(x)) \union {Parent(x)}
  <2>1. /\ 0 .. Len(x) - 1 = (0 .. Len(x) - 2) \union {Len(x) - 1}
        /\ 0 .. Len(Parent(x)) - 1 = 0 .. Len(x) - 2
    BY <1>1, <1>3
  <2>2. Above(Parent(x)) = {SubSeq(x, 1, n) : n \in 0 .. Len(x) - 2}
    BY <1>1, <1>4, <2>1 DEF Above
  <2> QED
    BY <2>1, <2>2 DEF Above, Parent
<1> QED
  BY <1>1, <1>3, <1>5

-----------------------------------------------------------------------------
Under(T, p) == \E q \in T : IsPrefix(q, p)

\* Nothing changes but what is below T; folders may come above it.
Confined(T, fs, new) ==
    \A p \in DOMAIN fs \union DOMAIN new : ~Under(T, p) =>
        /\ p \in DOMAIN new
        /\ IF p \in DOMAIN fs THEN new[p] = fs[p]
           ELSE new[p] = Folder /\ \E q \in T : IsPrefix(p, q)

\* MKDIRS and CREATE.
LEMMA PutAtConfined ==
    ASSUME NEW fs, NEW x \in Seq(Segment), NEW what, NEW T, x \in T
    PROVE  Confined(T, fs, PutAt(fs, x, what))
<1> DEFINE new == PutAt(fs, x, what)
<1> SUFFICES ASSUME NEW p \in DOMAIN fs \union DOMAIN new, ~Under(T, p)
             PROVE  /\ p \in DOMAIN new
                    /\ IF p \in DOMAIN fs THEN new[p] = fs[p]
                       ELSE new[p] = Folder /\ \E q \in T : IsPrefix(p, q)
  BY DEF Confined
<1>1. IsPrefix(x, x)
  BY PrefixReflexive DEF IsParentOfOrIsSelf
<1>2. p # x
  BY <1>1 DEF Under
<1>3. /\ DOMAIN new = DOMAIN fs \union Above(x) \union {x}
      /\ \A q \in DOMAIN fs : q # x => new[q] = fs[q]
      /\ \A q \in Above(x) : q # x /\ q \notin DOMAIN fs => new[q] = Folder
  BY DEF PutAt
<1> HIDE DEF new
<1> QED
  BY <1>2, <1>3, AboveIsPrefix

\* A tree remains one, where there is no file in the way.
LEMMA PutAtIsTree ==
    ASSUME NEW fs, IsTree(fs), NEW x \in Seq(Segment), NEW what, CanHold(fs, x),
           \/ what = Folder /\ (x \in DOMAIN fs => IsFolder(fs, x))
           \/ ~IsFolder(fs, x)
    PROVE  IsTree(PutAt(fs, x, what))
<1> DEFINE new == PutAt(fs, x, what)
<1>1. /\ DOMAIN new = DOMAIN fs \union Above(x) \union {x}
      /\ new[x] = what
      /\ \A p \in DOMAIN fs : p # x => new[p] = fs[p]
      /\ \A p \in Above(x) : p # x /\ p \notin DOMAIN fs => new[p] = Folder
      /\ new = [p \in DOMAIN new |-> new[p]]
  BY DEF PutAt
<1> HIDE DEF new
<1>2. DOMAIN fs \subseteq Seq(Segment) /\ IsFolder(fs, << >>)
  BY DEF IsTree
<1>3. DOMAIN new \subseteq Seq(Segment)
  BY <1>1, <1>2, AboveIsPrefix
<1>4. ASSUME NEW q, IsFolder(fs, q) PROVE IsFolder(new, q)
  BY <1>1, <1>4 DEF IsFolder
<1>5. \A q \in Above(x) : IsFolder(new, q)
  BY <1>1, AboveIsPrefix DEF CanHold, IsFolder
<1>6. ASSUME NEW p \in DOMAIN new, NEW q \in Above(p) PROVE IsFolder(new, q)
  <2>1. CASE p \in DOMAIN fs
    BY <1>4, <2>1 DEF IsTree
  <2>2. CASE p = x
    BY <1>5, <2>2
  <2>3. CASE p \in Above(x)
    <3>1. p \in Seq(Segment) /\ IsPrefix(p, x) /\ p # x
      BY <2>3, AboveIsPrefix
    <3>2. q \in Seq(Segment) /\ IsPrefix(q, p) /\ q # p
      BY <3>1, AboveIsPrefix
    <3>3. IsPrefix(q, x) /\ q # x
      BY <3>1, <3>2, PrefixTransitive, PrefixAntisymmetric
    <3> QED
      BY <1>5, <3>2, <3>3, AboveIsPrefix
  <2> QED
    BY <1>1, <2>1, <2>2, <2>3
<1>7. IsTree(new)
  BY <1>1, <1>2, <1>3, <1>4, <1>6 DEF IsTree
<1> QED
  BY <1>7 DEF new

\* DELETE.
LEMMA WithoutFacts ==
    ASSUME NEW fs, NEW x
    PROVE  /\ DOMAIN Without(fs, x) = {p \in DOMAIN fs : ~IsPrefix(x, p)}
           /\ \A p \in DOMAIN Without(fs, x) : Without(fs, x)[p] = fs[p]
           /\ Without(fs, x) = [p \in DOMAIN Without(fs, x) |-> Without(fs, x)[p]]
  BY DEF Without, Tree, Restrict

LEMMA WithoutConfined ==
    ASSUME NEW fs, NEW x, NEW T, x \in T
    PROVE  Confined(T, fs, Without(fs, x))
<1> DEFINE new == Without(fs, x)
<1>1. /\ DOMAIN new = {p \in DOMAIN fs : ~IsPrefix(x, p)}
      /\ \A p \in DOMAIN new : new[p] = fs[p]
  BY WithoutFacts
<1> HIDE DEF new
<1>2. Confined(T, fs, new)
  BY <1>1 DEF Confined, Under
<1> QED
  BY <1>2 DEF new

LEMMA WithoutIsTree ==
    ASSUME NEW fs, IsTree(fs), NEW x \in Seq(Segment), x # << >>
    PROVE  IsTree(Without(fs, x))
<1> DEFINE new == Without(fs, x)
<1>1. /\ DOMAIN new = {p \in DOMAIN fs : ~IsPrefix(x, p)}
      /\ \A p \in DOMAIN new : new[p] = fs[p]
      /\ new = [p \in DOMAIN new |-> new[p]]
  BY WithoutFacts
<1> HIDE DEF new
<1>2. DOMAIN fs \subseteq Seq(Segment) /\ IsFolder(fs, << >>)
  BY DEF IsTree
<1>3. ~IsPrefix(x, << >>)
  <2>1. << >> \in Seq(Segment) /\ Len(x) # 0 /\ Len(x) \in Nat /\ Len(<< >>) = 0
    OBVIOUS
  <2>2. ~(Len(x) <= Len(<< >>))
    BY <2>1
  <2> QED
    BY <2>1, <2>2, PrefixBySegment
<1>4. ASSUME NEW p \in DOMAIN new, NEW q \in Above(p) PROVE IsFolder(new, q)
  <2>1. p \in Seq(Segment) /\ ~IsPrefix(x, p)
    BY <1>1, <1>2
  <2>2. q \in Seq(Segment) /\ IsPrefix(q, p)
    BY <2>1, AboveIsPrefix
  <2>3. ~IsPrefix(x, q)
    BY <2>1, <2>2, PrefixTransitive
  <2>4. IsFolder(fs, q)
    BY <1>1 DEF IsTree
  <2> QED
    BY <1>1, <2>3, <2>4 DEF IsFolder
<1>5. IsTree(new)
  BY <1>1, <1>2, <1>3, <1>4 DEF IsTree, IsFolder
<1> QED
  BY <1>5 DEF new

\* Where nothing is, nothing is below either.
LEMMA NothingBelow ==
    ASSUME NEW fs, IsTree(fs), NEW x \in Seq(Segment), x \notin DOMAIN fs
    PROVE  \A p \in DOMAIN fs : ~IsPrefix(x, p)
  BY AboveIsPrefix DEF IsTree, IsFolder

\* RENAME: what is below the source goes below the destination, one by one.
LEMMA RenamedFacts ==
    ASSUME NEW fs, DOMAIN fs \subseteq Seq(Segment), NEW x \in Seq(Segment), NEW y \in Seq(Segment),
           CanRename(fs, x, y), \A p \in DOMAIN fs : ~IsPrefix(y, p)
    PROVE  LET new == RenamedTo(fs, x, y)
           IN  /\ new = [q \in DOMAIN new |-> new[q]]
               /\ \A p \in DOMAIN fs : IsPrefix(x, p) =>
                    Relocated(p, x, y) \in DOMAIN new /\ new[Relocated(p, x, y)] = fs[p]
               /\ \A p \in DOMAIN fs : ~IsPrefix(x, p) => p \in DOMAIN new /\ new[p] = fs[p]
               /\ \A q \in DOMAIN new :
                    \/ q \in DOMAIN fs /\ ~IsPrefix(x, q)
                    \/ \E p \in DOMAIN fs : IsPrefix(x, p) /\ q = Relocated(p, x, y)
<1> DEFINE image == [p \in Tree(fs, x) |-> y \o GetChild(p, x)]
           moved == {image[p] : p \in Tree(fs, x)}
           from(q) == CHOOSE p \in Tree(fs, x) : image[p] = q
           new == [q \in (DOMAIN fs \ Tree(fs, x)) \union moved |->
                     IF q \in moved THEN fs[from(q)] ELSE fs[q]]
<1>1. RenamedTo(fs, x, y) = new
  BY DEF RenamedTo
<1>2. \A p \in Tree(fs, x) : p \in DOMAIN fs /\ p \in Seq(Segment) /\ IsPrefix(x, p)
  BY DEF Tree
<1>3. \A p \in Tree(fs, x) : image[p] = Relocated(p, x, y)
  BY DEF Relocated, AddChild
<1>4. \A p \in Tree(fs, x) : IsPrefix(y, image[p]) /\ Relocated(image[p], y, x) = p
  <2> TAKE p \in Tree(fs, x)
  <2>1. p \in Seq(Segment) /\ IsPrefix(x, p) /\ image[p] = Relocated(p, x, y)
    BY <1>2, <1>3
  <2> HIDE DEF image
  <2> QED
    BY <2>1, RelocatedFacts, RelocatedBack
<1> HIDE DEF image
<1>5. \A p \in Tree(fs, x) : from(image[p]) = p
  BY <1>4
<1>6. \A q \in moved : q \notin DOMAIN fs
  BY <1>4
<1> HIDE DEF from
<1>7. DOMAIN new = (DOMAIN fs \ Tree(fs, x)) \union moved /\ new = [q \in DOMAIN new |-> new[q]]
  OBVIOUS
<1>8. \A p \in Tree(fs, x) : image[p] \in DOMAIN new /\ new[image[p]] = fs[p]
  BY <1>5
<1>9. \A p \in DOMAIN fs \ Tree(fs, x) : p \in DOMAIN new /\ new[p] = fs[p]
  BY <1>6
<1> HIDE DEF new
<1>10. \A p \in DOMAIN fs : p \in Tree(fs, x) <=> IsPrefix(x, p)
  BY DEF Tree
<1>11. \A q \in DOMAIN new : \/ q \in DOMAIN fs /\ ~IsPrefix(x, q)
                             \/ \E p \in DOMAIN fs : IsPrefix(x, p) /\ q = Relocated(p, x, y)
  BY <1>2, <1>3, <1>7, <1>10
<1>12. \A p \in DOMAIN fs : IsPrefix(x, p) =>
         Relocated(p, x, y) \in DOMAIN new /\ new[Relocated(p, x, y)] = fs[p]
  BY <1>3, <1>8, <1>10
<1>13. \A p \in DOMAIN fs : ~IsPrefix(x, p) => p \in DOMAIN new /\ new[p] = fs[p]
  BY <1>9, <1>10
<1> QED
  BY <1>1, <1>7, <1>11, <1>12, <1>13

LEMMA RenamedToConfined ==
    ASSUME NEW fs, IsTree(fs), NEW x \in Seq(Segment), NEW y \in Seq(Segment), NEW T, x \in T,
           NEW z \in T, z \in Seq(Segment), IsPrefix(z, y)
    PROVE  Confined(T, fs, RenamedTo(fs, x, y))
<1>1. CASE ~CanRename(fs, x, y)
  <2>1. RenamedTo(fs, x, y) = fs
    BY <1>1 DEF RenamedTo
  <2> QED
    BY <2>1 DEF Confined
<1>2. CASE CanRename(fs, x, y)
  <2> DEFINE new == RenamedTo(fs, x, y)
  <2>1. DOMAIN fs \subseteq Seq(Segment) /\ \A p \in DOMAIN fs : ~IsPrefix(y, p)
    BY <1>2, NothingBelow DEF CanRename, IsTree
  <2>2. /\ \A p \in DOMAIN fs : ~IsPrefix(x, p) => p \in DOMAIN new /\ new[p] = fs[p]
        /\ \A q \in DOMAIN new : \/ q \in DOMAIN fs /\ ~IsPrefix(x, q)
                                 \/ \E p \in DOMAIN fs : IsPrefix(x, p) /\ q = Relocated(p, x, y)
    BY <1>2, <2>1, RenamedFacts
  <2> HIDE DEF new
  <2>3. \A q \in DOMAIN new : q \in DOMAIN fs \/ IsPrefix(z, q)
    <3> TAKE q \in DOMAIN new
    <3>1. ASSUME NEW p \in DOMAIN fs, IsPrefix(x, p), q = Relocated(p, x, y)
          PROVE  IsPrefix(z, q)
      <4>1. q \in Seq(Segment) /\ IsPrefix(y, q)
        BY <2>1, <3>1, RelocatedFacts
      <4> QED
        BY <4>1, PrefixTransitive
    <3> QED
      BY <2>2, <3>1
  <2>4. Confined(T, fs, new)
    BY <2>2, <2>3 DEF Confined, Under
  <2> QED
    BY <2>4 DEF new
<1> QED
  BY <1>1, <1>2

LEMMA RenamedToIsTree ==
    ASSUME NEW fs, IsTree(fs), NEW x \in Seq(Segment), NEW y \in Seq(Segment)
    PROVE  IsTree(RenamedTo(fs, x, y))
<1>1. CASE ~CanRename(fs, x, y)
  BY <1>1 DEF RenamedTo
<1>2. CASE CanRename(fs, x, y)
  <2> DEFINE new == RenamedTo(fs, x, y)
  <2>1. /\ DOMAIN fs \subseteq Seq(Segment) /\ IsFolder(fs, << >>)
        /\ \A p \in DOMAIN fs : ~IsPrefix(y, p)
        /\ \A p \in DOMAIN fs : \A q \in Above(p) : IsFolder(fs, q)
        /\ x \in DOMAIN fs /\ y \notin DOMAIN fs /\ IsFolder(fs, Parent(y)) /\ ~IsPrefix(x, y)
    BY <1>2, NothingBelow DEF CanRename, IsTree
  <2>2. /\ new = [q \in DOMAIN new |-> new[q]]
        /\ \A p \in DOMAIN fs : IsPrefix(x, p) =>
             Relocated(p, x, y) \in DOMAIN new /\ new[Relocated(p, x, y)] = fs[p]
        /\ \A p \in DOMAIN fs : ~IsPrefix(x, p) => p \in DOMAIN new /\ new[p] = fs[p]
        /\ \A q \in DOMAIN new : \/ q \in DOMAIN fs /\ ~IsPrefix(x, q)
                                 \/ \E p \in DOMAIN fs : IsPrefix(x, p) /\ q = Relocated(p, x, y)
    BY <1>2, <2>1, RenamedFacts
  <2> HIDE DEF new
  <2>3. DOMAIN new \subseteq Seq(Segment)
    BY <2>1, <2>2, RelocatedFacts
  <2>4. ASSUME NEW q, IsFolder(fs, q), ~IsPrefix(x, q) PROVE IsFolder(new, q)
    BY <2>2, <2>4 DEF IsFolder
  \* The root is not what is renamed, and the destination is below it.
  <2>5. << >> \in Seq(Segment) /\ y # << >> /\ IsPrefix(<< >>, y)
    <3>1. << >> \in Seq(Segment) /\ Len(<< >>) = 0 /\ Len(y) \in Nat
      OBVIOUS
    <3> QED
      BY <2>1, <3>1, PrefixBySegment DEF IsFolder
  <2>6. ~IsPrefix(x, << >>)
    BY <2>1, <2>5, PrefixTransitive
  <2>7. \A q \in Above(y) : IsFolder(new, q)
    <3> TAKE q \in Above(y)
    <3>1. q \in Seq(Segment) /\ IsPrefix(q, y)
      BY AboveIsPrefix
    <3>2. ~IsPrefix(x, q)
      BY <2>1, <3>1, PrefixTransitive
    <3>3. q \in Above(Parent(y)) \/ q = Parent(y)
      BY <2>5, ParentIsAbove
    <3>4. IsFolder(fs, q)
      BY <2>1, <3>3 DEF IsFolder
    <3> QED
      BY <2>4, <3>2, <3>4
  <2>8. ASSUME NEW p \in DOMAIN new, NEW q \in Above(p) PROVE IsFolder(new, q)
    <3>1. p \in Seq(Segment)
      BY <2>3
    <3>2. q \in Seq(Segment) /\ IsPrefix(q, p) /\ q # p
      BY <3>1, AboveIsPrefix
    <3>3. CASE p \in DOMAIN fs /\ ~IsPrefix(x, p)
      <4>1. ~IsPrefix(x, q)
        BY <3>1, <3>2, <3>3, PrefixTransitive
      <4> QED
        BY <2>1, <2>4, <3>3, <4>1
    <3>4. ASSUME NEW m \in DOMAIN fs, IsPrefix(x, m), p = Relocated(m, x, y) PROVE IsFolder(new, q)
      <4>1. m \in Seq(Segment) /\ IsPrefix(y, p)
        BY <2>1, <3>4, RelocatedFacts
      <4>2. CASE ~IsPrefix(y, q)
        <5>1. IsPrefix(q, y) /\ q # y
          BY <3>1, <3>2, <4>1, <4>2, AncestorsComparable, PrefixReflexive
             DEF IsParentOf, IsParentOfOrIsSelf, IsStrictPrefix
        <5> QED
          BY <2>7, <3>2, <5>1, AboveIsPrefix
      <4>3. CASE IsPrefix(y, q)
        <5>1. /\ q = SubSeq(p, 1, Len(q)) /\ Len(q) <= Len(p) /\ Len(y) <= Len(q)
              /\ Len(y) \in Nat /\ Len(q) \in Nat /\ Len(p) \in Nat
          BY <3>1, <3>2, <4>3, PrefixIsFirst
        <5>2. Len(q) # Len(p)
          BY <3>1, <3>2, <5>1
        <5>3. Len(q) \in Len(y) .. Len(p) /\ Len(q) < Len(p)
          BY <5>1, <5>2
        <5> DEFINE j == Len(q) - Len(y) + Len(x)
                   a == SubSeq(m, 1, j)
        <5>4. Len(q) \in Len(y) .. Len(Relocated(m, x, y)) /\ Len(q) < Len(Relocated(m, x, y))
          BY <3>4, <5>3
        <5>5. /\ j \in Len(x) .. Len(m) /\ IsPrefix(x, a)
              /\ SubSeq(Relocated(m, x, y), 1, Len(q)) = Relocated(a, x, y)
              /\ j < Len(m)
          BY <3>4, <4>1, <5>4, RelocatedFirst
        <5>6. j \in 0 .. Len(m) - 1 /\ IsPrefix(x, a) /\ q = Relocated(a, x, y)
          <6>1. q = Relocated(a, x, y)
            BY <3>4, <5>1, <5>5
          <6>2. j \in 0 .. Len(m) - 1
            <7> HIDE DEF j
            <7>1. Len(x) \in Nat /\ Len(m) \in Nat
              BY <4>1
            <7> QED
              BY <5>5, <7>1
          <6> QED
            BY <5>5, <6>1, <6>2
        <5>7. a \in Above(m)
          BY <5>6 DEF Above
        <5> HIDE DEF a, j
        <5>8. IsFolder(fs, a)
          BY <2>1, <5>7
        <5> QED
          BY <2>2, <5>6, <5>8 DEF IsFolder
      <4> QED
        BY <4>2, <4>3
    <3> QED
      BY <2>2, <3>3, <3>4
  <2>9. IsFolder(new, << >>)
    BY <2>1, <2>4, <2>6
  <2>10. IsTree(new)
    BY <2>2, <2>3, <2>8, <2>9 DEF IsTree
  <2> QED
    BY <2>10 DEF new
<1> QED
  BY <1>1, <1>2

\* Where it goes to is the destination, or in it.
LEMMA TargetFacts ==
    ASSUME NEW fs, NEW x \in Seq(Segment), NEW y \in Seq(Segment)
    PROVE  /\ Target(fs, x, y) \in Seq(Segment) /\ IsPrefix(y, Target(fs, x, y))
           /\ Target(fs, x, y) \in {y, Append(y, Name(x))}
           /\ y \notin DOMAIN fs => Target(fs, x, y) = y
<1>1. CASE IsFolder(fs, y) /\ x # << >>
  <2>1. Name(x) \in Segment
    <3>1. Len(x) \in Nat /\ Len(x) # 0
      BY <1>1
    <3>2. Len(x) \in 1 .. Len(x)
      BY <3>1
    <3> QED
      BY <3>2 DEF Name
  <2> DEFINE z == Append(y, Name(x))
  <2>2. /\ z \in Seq(Segment) /\ Len(z) = Len(y) + 1 /\ Len(y) \in Nat
        /\ \A i \in 1 .. Len(y) : y[i] = z[i]
    BY <2>1
  <2>3. Target(fs, x, y) = z
    BY <1>1 DEF Target
  <2> HIDE DEF z
  <2>4. IsPrefix(y, z)
    BY <2>2, PrefixBySegment
  <2> QED
    BY <1>1, <2>2, <2>3, <2>4 DEF z, IsFolder
<1>2. CASE ~(IsFolder(fs, y) /\ x # << >>)
  <2>1. Target(fs, x, y) = y
    BY <1>2 DEF Target
  <2>2. IsPrefix(y, y)
    BY PrefixReflexive DEF IsParentOfOrIsSelf
  <2> QED
    BY <2>1, <2>2
<1> QED
  BY <1>1, <1>2

LEMMA RenamedConfined ==
    ASSUME NEW fs, IsTree(fs), NEW x \in Seq(Segment), NEW y \in Seq(Segment), NEW T, x \in T, y \in T
    PROVE  Confined(T, fs, Renamed(fs, x, y))
<1> DEFINE z == Target(fs, x, y)
<1>1. z \in Seq(Segment) /\ IsPrefix(y, z)
  BY TargetFacts
<1>2. Renamed(fs, x, y) = RenamedTo(fs, x, z)
  BY DEF Renamed
<1> HIDE DEF z
<1>3. Confined(T, fs, RenamedTo(fs, x, z))
  BY <1>1, RenamedToConfined
<1> QED
  BY <1>2, <1>3

LEMMA RenamedIsTree ==
    ASSUME NEW fs, IsTree(fs), NEW x \in Seq(Segment), NEW y \in Seq(Segment)
    PROVE  IsTree(Renamed(fs, x, y))
  BY TargetFacts, RenamedToIsTree DEF Renamed

-----------------------------------------------------------------------------
(* What is below and above the paths a request is about.                   *)

Over(T, p) == ~Under(T, p) /\ \E q \in T : IsPrefix(p, q)

SameUnder(T, fs, gs) ==
    \A p \in DOMAIN fs \union DOMAIN gs : Under(T, p) =>
        p \in DOMAIN fs /\ p \in DOMAIN gs /\ fs[p] = gs[p]

\* Above it there may have come folders, no more.
Upper(T, was, fs) ==
    \A p \in DOMAIN was \union DOMAIN fs : Over(T, p) =>
        /\ p \in DOMAIN fs
        /\ p \in DOMAIN was => fs[p] = was[p]
        /\ p \notin DOMAIN was => fs[p] = Folder

LEMMA SameUnderFacts ==
    ASSUME NEW T, NEW fs, NEW gs, NEW hs
    PROVE  /\ SameUnder(T, fs, fs)
           /\ SameUnder(T, fs, gs) => SameUnder(T, gs, fs)
           /\ SameUnder(T, fs, gs) /\ SameUnder(T, gs, hs) => SameUnder(T, fs, hs)
  BY DEF SameUnder

LEMMA UpperFacts ==
    ASSUME NEW T, NEW fs, NEW gs, NEW hs
    PROVE  /\ Upper(T, fs, fs)
           /\ Upper(T, fs, gs) /\ Upper(T, gs, hs) => Upper(T, fs, hs)
  BY DEF Upper

\* What is confined to the paths of a request leaves what is above them,
LEMMA ConfinedIsUpper ==
    ASSUME NEW T, NEW fs, NEW new, Confined(T, fs, new)
    PROVE  Upper(T, fs, new)
  BY DEF Confined, Upper, Over

\* and what is below the paths of another, with what is above those.
LEMMA ConfinedElsewhere ==
    ASSUME NEW T \in SUBSET Seq(Segment), NEW U \in SUBSET Seq(Segment),
           \A p \in T, q \in U : ~Related(p, q),
           NEW fs, NEW new, DOMAIN fs \subseteq Seq(Segment), DOMAIN new \subseteq Seq(Segment),
           Confined(U, fs, new)
    PROVE  SameUnder(T, new, fs) /\ Upper(T, fs, new)
<1>1. ASSUME NEW p \in DOMAIN fs \union DOMAIN new, Under(T, p)
      PROVE  p \in DOMAIN fs /\ p \in DOMAIN new /\ new[p] = fs[p]
  <2>1. PICK q \in T : IsPrefix(q, p)
    BY <1>1 DEF Under
  <2>2. ~Under(U, p)
    BY <2>1, Separate DEF Under, Related
  <2>3. \A u \in U : ~IsPrefix(p, u)
    BY <2>1, PrefixTransitive DEF Related
  <2> QED
    BY <2>2, <2>3 DEF Confined
<1>2. ASSUME NEW p \in DOMAIN fs \union DOMAIN new, Over(T, p) PROVE ~Under(U, p)
  <2>1. PICK q \in T : IsPrefix(p, q)
    BY <1>2 DEF Over
  <2> QED
    BY <2>1, PrefixTransitive DEF Under, Related
<1> QED
  BY <1>1, <1>2 DEF SameUnder, Upper, Confined

\* What is carried out alike upon what is alike leaves it alike.
LEMMA PutAtSame ==
    ASSUME NEW T, NEW fs, NEW gs, SameUnder(T, fs, gs), NEW x, NEW what
    PROVE  SameUnder(T, PutAt(fs, x, what), PutAt(gs, x, what))
<1> DEFINE f == PutAt(fs, x, what)
           g == PutAt(gs, x, what)
<1>1. /\ DOMAIN f = DOMAIN fs \union Above(x) \union {x} /\ f[x] = what
      /\ DOMAIN g = DOMAIN gs \union Above(x) \union {x} /\ g[x] = what
      /\ \A p \in DOMAIN fs : p # x => f[p] = fs[p]
      /\ \A p \in Above(x) : p # x /\ p \notin DOMAIN fs => f[p] = Folder
      /\ \A p \in DOMAIN gs : p # x => g[p] = gs[p]
      /\ \A p \in Above(x) : p # x /\ p \notin DOMAIN gs => g[p] = Folder
  BY DEF PutAt
<1> HIDE DEF f, g
<1>2. SameUnder(T, f, g)
  BY <1>1 DEF SameUnder
<1> QED
  BY <1>2 DEF f, g

LEMMA WithoutSame ==
    ASSUME NEW T, NEW fs, NEW gs, SameUnder(T, fs, gs), NEW x
    PROVE  SameUnder(T, Without(fs, x), Without(gs, x))
<1> DEFINE f == Without(fs, x)
           g == Without(gs, x)
<1>1. /\ DOMAIN f = {p \in DOMAIN fs : ~IsPrefix(x, p)} /\ \A p \in DOMAIN f : f[p] = fs[p]
      /\ DOMAIN g = {p \in DOMAIN gs : ~IsPrefix(x, p)} /\ \A p \in DOMAIN g : g[p] = gs[p]
  BY WithoutFacts
<1> HIDE DEF f, g
<1>2. SameUnder(T, f, g)
  BY <1>1 DEF SameUnder
<1> QED
  BY <1>2 DEF f, g

\* What a property says of a request it says of what is below its paths.
LEMMA OwnedSame ==
    ASSUME NEW t, NEW fs, NEW gs, SameUnder(Targets(t), fs, gs)
    PROVE  Owned(t, fs) = Owned(t, gs)
<1> DEFINE S(h) == {p \in DOMAIN h : \E q \in Targets(t) : IsPrefix(q, p)}
<1>1. S(fs) = S(gs) /\ \A p \in S(fs) : fs[p] = gs[p]
  BY DEF SameUnder, Under
<1> HIDE DEF S
<1>2. Restrict(fs, S(fs)) = Restrict(gs, S(gs))
  BY <1>1 DEF Restrict
<1> QED
  BY <1>2 DEF Owned, S

\* What is found beside the paths of a request is what is there.
LEMMA BesideSame ==
    ASSUME NEW T, NEW fs, DOMAIN fs \subseteq Seq(Segment)
    PROVE  LET b == Restrict(fs, {p \in DOMAIN fs : \E q \in T : Related(p, q)})
           IN  DOMAIN b \subseteq Seq(Segment) /\ SameUnder(T, fs, b) /\ Upper(T, b, fs)
<1> DEFINE b == Restrict(fs, {p \in DOMAIN fs : \E q \in T : Related(p, q)})
<1>1. /\ DOMAIN b = {p \in DOMAIN fs : \E q \in T : Related(p, q)}
      /\ \A p \in DOMAIN b : b[p] = fs[p]
  BY DEF Restrict
<1> HIDE DEF b
<1>2. DOMAIN b \subseteq Seq(Segment) /\ SameUnder(T, fs, b) /\ Upper(T, b, fs)
  BY <1>1 DEF SameUnder, Upper, Under, Over, Related
<1> QED
  BY <1>2 DEF b

-----------------------------------------------------------------------------
(* Whose directory a request is about.                                     *)

\* What is known of a request that is accepted: its user carries the name that its header
\* gives, and has what that name is permitted.
LEMMA AcceptedHasName ==
    ASSUME AuthInv, NEW t \in Task, At(t, "accepted")
    PROVE  /\ login[t].header \in Headers /\ login[t].user \in User
           /\ username[login[t].user] = NameIn(login[t].header)
           /\ NameIn(login[t].header) \in UserName
           /\ config.accounts[login[t].user[1]].permissions = PermittedTo(login[t].header)
<1> DEFINE header == login[t].header
           user == login[t].user
<1>1. /\ AcceptedIsOwn(t) /\ Names /\ login[t] \in LoginState /\ config \in Configs
      /\ username \in [User -> UserName]
  BY DEF AuthInv, AuthTypeOK
<1>2. header \in Headers /\ user \in User
  BY <1>1 DEF LoginState, Idle, At
<1>3. username[user] \in UserName
  BY <1>1, <1>2
<1>4. CASE header.type = "Basic"
  <2> DEFINE c == header.credential
  <2>1. c \in Credential /\ NameIn(header) = c.name
    BY <1>2, <1>4, AuthAssumption DEF NameIn
  <2>2. user = UserFor(c) /\ user # NoUser /\ username[user] = c.name
    BY <1>1, <1>4 DEF AcceptedIsOwn, IsUserOf, At
  <2>3. user[1] = IF c.name \in DOMAIN config.accounts THEN c.name ELSE Fallback
    BY <2>2 DEF UserFor, UserOf
  <2> QED
    BY <1>2, <1>3, <2>1, <2>2, <2>3 DEF PermittedTo
<1>5. CASE header.type = "Digest"
  <2>1. /\ user = UserOf(header.name) /\ header.name \in DOMAIN config.accounts
        /\ NameIn(header) = header.name
    BY <1>1, <1>5 DEF AcceptedIsOwn, At, NameIn
  <2>2. user[1] = header.name /\ user[2] = NoCredential
    BY <2>1 DEF UserOf
  <2>3. username[user] = header.name
    BY <1>1, <1>2, <2>2 DEF Names
  <2> QED
    BY <1>2, <1>3, <2>1, <2>2, <2>3 DEF PermittedTo
<1>6. CASE header.type # "Basic" /\ header.type # "Digest"
  <2>1. user = UserOf(config.anonymous) /\ NameIn(header) = config.anonymous
    BY <1>1, <1>6 DEF AcceptedIsOwn, At, NameIn
  <2>2. user[1] = config.anonymous /\ user[2] = NoCredential
    BY <2>1 DEF UserOf
  <2>3. username[user] = config.anonymous
    BY <1>1, <1>2, <2>2 DEF Names
  <2>4. config.anonymous \in DOMAIN config.accounts
    <3>1. config.anonymous \in UserName
      BY <1>2, <2>2 DEF User
    <3> QED
      BY <1>1, <3>1, AuthAssumption
  <2> QED
    BY <1>2, <1>3, <2>1, <2>2, <2>3, <2>4 DEF PermittedTo
<1> QED
  BY <1>4, <1>5, <1>6

HasOwnName ==
    \A t \in Task : At(t, "accepted") => username[login[t].user] = NameIn(login[t].header)

LEMMA NamesStay == AuthInv' => HasOwnName'
<1>1. AuthInv => HasOwnName
  BY AcceptedHasName DEF HasOwnName
<1> QED
  BY <1>1, PTL

\* The paths of a request are what its header says, whoever else comes and goes.
LEMMA PathsStay ==
    ASSUME AuthInv, AuthInv', config' = config, NEW t \in Task, At(t, "accepted"),
           login'[t] = login[t], Req(t)' = Req(t)
    PROVE  /\ Src(t)' = Src(t) /\ Dst(t)' = Dst(t) /\ Targets(t)' = Targets(t)
           /\ PermittedTo(login[t].header)' = PermittedTo(login[t].header)
           /\ ChangesSomething(t)' <=> ChangesSomething(t)
<1>1. username[login[t].user] = NameIn(login[t].header)
  BY AcceptedHasName
<1>2. username'[login'[t].user] = NameIn(login[t].header)'
  BY NamesStay DEF HasOwnName, At
<1>3. NameIn(login[t].header)' = NameIn(login[t].header)
  BY DEF NameIn
<1>4. \A path : UrlPath(t, path)' = UrlPath(t, path)
  BY <1>1, <1>2, <1>3 DEF UrlPath
<1>5. PermittedTo(login[t].header)' = PermittedTo(login[t].header)
  BY <1>3 DEF PermittedTo
<1> QED
  BY <1>4, <1>5 DEF Src, Dst, Targets, ChangesSomething

\* The calls a request of a method can be at.
Stages(method) ==
    CASE method \in {"MKCOL", "PROPPATCH", "DELETE"} -> {"parent", "itself", "prechecked"}
      [] method = "PUT" -> {"parent", "itself", "prechecked", "store"}
      [] method = "HEAD" -> {"head"}
      [] method = "COPY" -> {"copy"}
      [] method = "MOVE" -> {"dst_parent", "dst_itself", "delete_dst", "rename"}

\* What is known of a request that is served: what it asks for is permitted.
Progress(r) ==
    [at : Stages(r.method), request : {r}, parent_exists : BOOLEAN, file_exists : BOOLEAN]

Underway(t) ==
    Busy(t) =>
        /\ Req(t) \in config.requests /\ remote[t] \in Progress(Req(t))
        /\ ~config.home_dir => Targets(t) \subseteq PermittedTo(login[t].header)

\* The paths of a request: in its user's directory if there are such, and never the root
\* that it would delete.
LEMMA PathsOfRequest ==
    ASSUME AppInv, NEW t \in Task, Busy(t), Underway(t)
    PROVE  /\ Src(t) \in Seq(Segment)
           /\ Req(t).method = "DELETE" => Src(t) # << >>
           /\ Req(t).method = "MOVE" =>
                /\ Dst(t) \in Seq(Segment) /\ Dst(t) # << >>
                /\ Req(t).path # Req(t).dst => Src(t) # Dst(t)
           /\ Targets(t) \subseteq Seq(Segment)
           /\ config.home_dir => \A q \in Targets(t) : q # << >> /\ q[1] = NameIn(login[t].header)
<1> DEFINE r == Req(t)
           name == NameIn(login[t].header)
<1>1. config \in Configs /\ r \in config.requests /\ At(t, "accepted")
  BY DEF AppInv, AuthInv, AuthTypeOK, Served, Underway
<1>2. /\ r.path \in Path /\ (r.method = "MOVE" => r.dst \in Path)
      /\ r.method = "MOVE" => r.dst # << >>
      /\ config.home_dir \/ r.method # "DELETE" \/ r.path # << >>
  BY <1>1, AppAssumption
<1>3. name \in UserName /\ \A path : UrlPath(t, path) = IF config.home_dir THEN << name >> \o path ELSE path
  BY <1>1, AcceptedHasName DEF UrlPath, AppInv
<1> HIDE DEF name, r
<1>4. r.path \in Seq(Segment) /\ (r.method = "MOVE" => r.dst \in Seq(Segment)) /\ name \in Segment
  BY <1>2, <1>3, PathAssumption, AppAssumption
<1>5. CASE config.home_dir
  <2>1. << name >> \in Seq(Segment) /\ Len(<< name >>) = 1 /\ << name >>[1] = name
    BY <1>4
  <2>2. \A path : UrlPath(t, path) = AddChild(<< name >>, path)
    BY <1>3, <1>5 DEF AddChild
  <2>3. ASSUME NEW p \in Seq(Segment)
        PROVE  /\ AddChild(<< name >>, p) \in Seq(Segment) /\ AddChild(<< name >>, p) # << >>
               /\ AddChild(<< name >>, p)[1] = name
    <3>1. /\ AddChild(<< name >>, p) \in Seq(Segment) /\ Len(AddChild(<< name >>, p)) = 1 + Len(p)
          /\ \A i \in 1 .. 1 : AddChild(<< name >>, p)[i] = << name >>[i]
      BY <2>1, ChildOfAdded
    <3>2. 1 + Len(p) # 0
      BY <2>3
    <3> QED
      BY <2>1, <3>1, <3>2
  <2>4. ASSUME NEW p \in Seq(Segment), NEW q \in Seq(Segment), p # q
        PROVE  AddChild(<< name >>, p) # AddChild(<< name >>, q)
    BY <2>1, <2>4, ChildOfAdded
  <2>5. Src(t) = AddChild(<< name >>, r.path) /\ Dst(t) = AddChild(<< name >>, r.dst)
    BY <2>2 DEF Src, Dst, r
  <2> QED
    BY <1>2, <1>4, <2>3, <2>4, <2>5 DEF Targets, r, name
<1>6. CASE ~config.home_dir
  <2>1. Src(t) = r.path /\ Dst(t) = r.dst
    BY <1>3, <1>6 DEF Src, Dst, r
  <2> QED
    BY <1>2, <1>4, <1>6, <2>1 DEF Targets, r
<1> QED
  BY <1>5, <1>6

-----------------------------------------------------------------------------
(* What a step of a request that is served may do: go on, answer without   *)
(* having changed anything, or have a call carried out.                    *)

GoesOn(t) ==
    /\ hdfs' = hdfs /\ remote'[t] \in Progress(Req(t))
    /\ Req(t).method = "MOVE" =>
         /\ remote[t].at \in {"dst_parent", "dst_itself"}
         /\ \/ remote'[t].at = "dst_itself" /\ Parent(Dst(t)) \in DOMAIN hdfs
               /\ remote'[t].file_exists = remote[t].file_exists
            \/ /\ remote[t].at = "dst_itself"
               /\ \/ remote'[t].at = "delete_dst" /\ remote'[t].file_exists /\ Req(t).overwrite
                  \/ remote'[t].at = "rename" /\ ~remote'[t].file_exists
               /\ Req(t).path # Req(t).dst

AnswersOnly(t) ==
    /\ remote'[t] = NotBusy /\ hdfs' = hdfs
    /\ ChangesSomething(t) => reply' \notin 200 .. 299
    /\ remote[t].at = "rename" => reply' \notin (400 .. 499) \ {RefusedStatus}

\* The call in which a request does what it is to do.
CarriedOut(t) ==
    /\ remote'[t] = NotBusy /\ reply' \notin 400 .. 499
    /\ \/ /\ Req(t).method = "MKCOL"
          /\ CanHold(hdfs, Src(t)) /\ (Src(t) \in DOMAIN hdfs => IsFolder(hdfs, Src(t)))
          /\ hdfs' = PutAt(hdfs, Src(t), Folder)
       \/ Req(t).method = "DELETE" /\ hdfs' = Without(hdfs, Src(t))
       \/ /\ Req(t).method = "PUT"
          /\ CanHold(hdfs, Src(t)) /\ ~IsFolder(hdfs, Src(t))
          /\ \E what \in {Req(t).body, Part} : hdfs' = PutAt(hdfs, Src(t), what)
       \/ Req(t).method = "MOVE" /\ remote[t].at = "rename" /\ hdfs' = Renamed(hdfs, Src(t), Dst(t))

\* The one before it.
Clears(t) ==
    /\ Req(t).method = "MOVE" /\ remote[t].at = "delete_dst"
    /\ hdfs' = Without(hdfs, Dst(t))
    /\ \/ remote'[t] = NotBusy /\ reply' = 500
       \/ remote'[t] = [remote[t] EXCEPT !.at = "rename"]

Outcome(t) == GoesOn(t) \/ AnswersOnly(t) \/ CarriedOut(t) \/ Clears(t)

\* The forms of an answer and of what goes on.
LEMMA Answers ==
    ASSUME DOMAIN remote = Task, NEW t \in Task, NEW status, Answer(t, status)
    PROVE  remote'[t] = NotBusy /\ reply' = status
  BY DEF Answer

Methods == {"MKCOL", "PROPPATCH", "DELETE", "PUT", "HEAD", "COPY", "MOVE"}

LEMMA StageFacts ==
    ASSUME NEW method \in Methods, NEW at \in Stages(method)
    PROVE  /\ at \in {"parent", "itself"} =>
                /\ method \in {"MKCOL", "PROPPATCH", "DELETE", "PUT"}
                /\ {"itself", "prechecked"} \subseteq Stages(method)
           /\ at = "prechecked" /\ method = "PUT" => "store" \in Stages(method)
           /\ at = "store" => method = "PUT"
           /\ at = "head" => method = "HEAD"
           /\ at = "copy" => method = "COPY"
           /\ at \in {"dst_parent", "dst_itself", "delete_dst", "rename"} =>
                /\ method = "MOVE"
                /\ {"dst_itself", "delete_dst", "rename"} \subseteq Stages(method)
  BY DEF Methods, Stages

\* Its looks at what is there.
LEMMA PrecheckOutcome ==
    ASSUME DOMAIN remote = Task, NEW t \in Task, remote[t] \in Progress(Req(t)),
           Req(t).method \in Methods, Precheck(t)
    PROVE  Outcome(t)
<1>1. hdfs' = hdfs /\ remote[t].at \in Stages(Req(t).method) /\ remote[t].at \in {"parent", "itself"}
  BY DEF Precheck, Calls, Progress
<1>2. Req(t).method # "MOVE" /\ "itself" \in Stages(Req(t).method) /\ "prechecked" \in Stages(Req(t).method)
  BY <1>1, StageFacts
<1>3. \/ Raise(t)
      \/ \E at \in {"itself", "prechecked"} :
           \/ remote' = [remote EXCEPT ![t].at = at]
           \/ remote' = [remote EXCEPT ![t].parent_exists = TRUE, ![t].at = at]
           \/ remote' = [remote EXCEPT ![t].file_exists = TRUE, ![t].at = at]
  BY DEF Precheck, Look, GoOn
<1>4. CASE Raise(t)
  BY <1>1, <1>4, Answers DEF Raise, Outcome, AnswersOnly
<1>5. ASSUME NEW at \in {"itself", "prechecked"},
             \/ remote' = [remote EXCEPT ![t].at = at]
             \/ remote' = [remote EXCEPT ![t].parent_exists = TRUE, ![t].at = at]
             \/ remote' = [remote EXCEPT ![t].file_exists = TRUE, ![t].at = at]
      PROVE  Outcome(t)
  <2>1. at \in Stages(Req(t).method)
    BY <1>2
  <2>2. \/ remote'[t] = [remote[t] EXCEPT !.at = at]
        \/ remote'[t] = [remote[t] EXCEPT !.parent_exists = TRUE, !.at = at]
        \/ remote'[t] = [remote[t] EXCEPT !.file_exists = TRUE, !.at = at]
    BY <1>5
  <2>3. remote'[t] \in Progress(Req(t))
    BY <2>1, <2>2 DEF Progress
  <2> QED
    BY <1>1, <1>2, <2>3 DEF Outcome, GoesOn
<1> QED
  BY <1>3, <1>4, <1>5

LEMMA MkcolOutcome ==
    ASSUME DOMAIN remote = Task, NEW t \in Task, Mkcol(t)
    PROVE  Outcome(t)
<1>1. Req(t).method = "MKCOL" /\ remote[t].at = "prechecked"
  BY DEF Mkcol, Prechecked, Calls
<1>2. \/ hdfs' = hdfs /\ \E status \in {405, 409, 500, RefusedStatus} : Answer(t, status)
      \/ /\ CanHold(hdfs, Src(t)) /\ (Src(t) \in DOMAIN hdfs => IsFolder(hdfs, Src(t)))
         /\ hdfs' = PutAt(hdfs, Src(t), Folder)
         /\ \E status \in {201, 500} : Answer(t, status)
  BY DEF Mkcol, Call, Raise
<1> QED
  BY <1>1, <1>2, Answers DEF Outcome, AnswersOnly, CarriedOut, RefusedStatus

LEMMA DeleteOutcome ==
    ASSUME DOMAIN remote = Task, NEW t \in Task, Delete(t)
    PROVE  Outcome(t)
<1>1. Req(t).method = "DELETE" /\ remote[t].at = "prechecked"
  BY DEF Delete, Prechecked, Calls
<1>2. \/ hdfs' = hdfs /\ \E status \in {404, 424, 500} : Answer(t, status)
      \/ hdfs' = Without(hdfs, Src(t)) /\ \E status \in {204, 500} : Answer(t, status)
  BY DEF Delete, Call, Raise
<1> QED
  BY <1>1, <1>2, Answers DEF Outcome, AnswersOnly, CarriedOut

LEMMA CreateOutcome ==
    ASSUME DOMAIN remote = Task, NEW t \in Task, remote[t] \in Progress(Req(t)),
           Req(t).method \in Methods, Create(t)
    PROVE  Outcome(t)
<1>1. Req(t).method = "PUT" /\ remote[t].at = "prechecked" /\ remote[t].at \in Stages(Req(t).method)
  BY DEF Create, Prechecked, Calls, Progress
<1>2. /\ hdfs' = hdfs
      /\ \/ \E status \in {409, 500, RefusedStatus} : Answer(t, status)
         \/ remote' = [remote EXCEPT ![t].at = "store"]
  BY DEF Create, Call, Raise, GoOn
<1>3. CASE remote' = [remote EXCEPT ![t].at = "store"]
  <2>1. remote'[t] = [remote[t] EXCEPT !.at = "store"] /\ "store" \in Stages(Req(t).method)
    BY <1>1, <1>3, StageFacts
  <2>2. remote'[t] \in Progress(Req(t))
    BY <2>1 DEF Progress
  <2> QED
    BY <1>1, <1>2, <2>2 DEF Outcome, GoesOn
<1> QED
  BY <1>1, <1>2, <1>3, Answers DEF Outcome, AnswersOnly, RefusedStatus

LEMMA StoreOutcome ==
    ASSUME DOMAIN remote = Task, NEW t \in Task, remote[t] \in Progress(Req(t)),
           Req(t).method \in Methods, Store(t)
    PROVE  Outcome(t)
<1>1. remote[t].at = "store" /\ remote[t].at \in Stages(Req(t).method)
  BY DEF Store, Calls, Progress
<1>2. Req(t).method = "PUT"
  BY <1>1, StageFacts
<1>3. \/ hdfs' = hdfs /\ \E status \in {500, RefusedStatus} : Answer(t, status)
      \/ /\ CanHold(hdfs, Src(t)) /\ ~IsFolder(hdfs, Src(t))
         /\ \E what \in {Req(t).body, Part} : hdfs' = PutAt(hdfs, Src(t), what)
         /\ \E status \in {201, 204, 500} : Answer(t, status)
  BY DEF Store, Call, Raise
<1> QED
  BY <1>1, <1>2, <1>3, Answers DEF Outcome, AnswersOnly, CarriedOut, RefusedStatus

\* The requests that change nothing.
LEMMA ReadingOutcome ==
    ASSUME DOMAIN remote = Task, NEW t \in Task, remote[t] \in Progress(Req(t)),
           Req(t).method \in Methods, Proppatch(t) \/ HeadOf(t) \/ Copy(t)
    PROVE  Outcome(t)
<1>1. hdfs' = hdfs /\ \E status \in {200, 207, 404, 500} : Answer(t, status)
  BY DEF Proppatch, HeadOf, Copy, Look, Raise
<1>2. Req(t).method \in {"PROPPATCH", "HEAD", "COPY"} /\ remote[t].at # "rename"
  <2>1. remote[t].at \in Stages(Req(t).method)
    BY DEF Progress
  <2> QED
    BY <2>1, StageFacts DEF Proppatch, HeadOf, Copy, Prechecked, Calls
<1> QED
  BY <1>1, <1>2, Answers DEF Outcome, AnswersOnly, ChangesSomething

LEMMA LookAtDestinationOutcome ==
    ASSUME DOMAIN remote = Task, NEW t \in Task, remote[t] \in Progress(Req(t)),
           Req(t).method \in Methods, Req(t).overwrite \in BOOLEAN \/ Req(t).method # "MOVE",
           LookAtDestination(t)
    PROVE  Outcome(t)
<1>1. /\ hdfs' = hdfs /\ remote[t].at \in {"dst_parent", "dst_itself"}
      /\ remote[t].at \in Stages(Req(t).method)
  BY DEF LookAtDestination, Calls, Progress
<1>2. /\ Req(t).method = "MOVE" /\ "dst_itself" \in Stages(Req(t).method)
      /\ "delete_dst" \in Stages(Req(t).method) /\ "rename" \in Stages(Req(t).method)
  BY <1>1, StageFacts
<1> DEFINE answered == \E status \in {403, 409, 412, 500} : Answer(t, status)
           looksOn == /\ Parent(Dst(t)) \in DOMAIN hdfs
                      /\ remote' = [remote EXCEPT ![t].at = "dst_itself"]
           clears == /\ remote[t].at = "dst_itself" /\ Req(t).path # Req(t).dst /\ Req(t).overwrite
                     /\ remote' = [remote EXCEPT ![t].file_exists = TRUE, ![t].at = "delete_dst"]
           renames == /\ remote[t].at = "dst_itself" /\ Req(t).path # Req(t).dst
                      /\ remote' = [remote EXCEPT ![t].file_exists = FALSE, ![t].at = "rename"]
<1>3. answered \/ looksOn \/ clears \/ renames
  <2>1. CASE Calls(t, "dst_parent") /\ Look(t, Parent(Dst(t)), GoOn(t, "dst_itself"), Answer(t, 409))
    BY <2>1 DEF Look, GoOn, Raise
  <2>2. CASE ~(Calls(t, "dst_parent") /\ Look(t, Parent(Dst(t)), GoOn(t, "dst_itself"), Answer(t, 409)))
    <3> DEFINE decide(exists) ==
                 CASE Req(t).path = Req(t).dst -> Answer(t, 403)
                   [] Req(t).path # Req(t).dst /\ exists /\ ~Req(t).overwrite -> Answer(t, 412)
                   [] OTHER -> /\ remote' = [remote EXCEPT ![t].file_exists = exists,
                                               ![t].at = IF exists THEN "delete_dst" ELSE "rename"]
                               /\ UNCHANGED reply
    <3>1. Calls(t, "dst_itself") /\ Look(t, Dst(t), decide(TRUE), decide(FALSE))
      BY <2>2 DEF LookAtDestination
    <3>2. remote[t].at = "dst_itself"
      BY <3>1 DEF Calls
    <3>3. decide(TRUE) => Answer(t, 403) \/ Answer(t, 412) \/ clears
      BY <3>2
    <3>4. decide(FALSE) => Answer(t, 403) \/ renames
      BY <3>2
    <3>5. Answer(t, 403) \/ Answer(t, 412) \/ Answer(t, 500) => answered
      OBVIOUS
    <3> HIDE DEF decide, answered, clears, renames
    <3>6. decide(TRUE) \/ decide(FALSE) \/ Answer(t, 500)
      BY <3>1 DEF Look, Raise
    <3> QED
      BY <3>3, <3>4, <3>5, <3>6
  <2> QED
    BY <2>1, <2>2
<1>4. CASE answered
  BY <1>1, <1>4, Answers DEF Outcome, AnswersOnly
<1>5. CASE looksOn
  <2>1. remote'[t] = [remote[t] EXCEPT !.at = "dst_itself"]
    BY <1>5
  <2>2. /\ remote'[t] \in Progress(Req(t)) /\ remote'[t].at = "dst_itself"
        /\ remote'[t].file_exists = remote[t].file_exists
    BY <1>2, <2>1 DEF Progress
  <2> QED
    BY <1>1, <1>5, <2>2 DEF Outcome, GoesOn
<1>6. CASE clears
  <2>1. remote'[t] = [remote[t] EXCEPT !.file_exists = TRUE, !.at = "delete_dst"]
    BY <1>6
  <2>2. /\ remote'[t] \in Progress(Req(t)) /\ remote'[t].at = "delete_dst"
        /\ remote'[t].file_exists = TRUE
    BY <1>2, <2>1 DEF Progress
  <2> QED
    BY <1>1, <1>6, <2>2 DEF Outcome, GoesOn
<1>7. CASE renames
  <2>1. remote'[t] = [remote[t] EXCEPT !.file_exists = FALSE, !.at = "rename"]
    BY <1>7
  <2>2. /\ remote'[t] \in Progress(Req(t)) /\ remote'[t].at = "rename"
        /\ remote'[t].file_exists = FALSE
    BY <1>2, <2>1 DEF Progress
  <2> QED
    BY <1>1, <1>7, <2>2 DEF Outcome, GoesOn
<1> HIDE DEF answered, looksOn, clears, renames
<1> QED
  BY <1>3, <1>4, <1>5, <1>6, <1>7

LEMMA DeleteDestinationOutcome ==
    ASSUME DOMAIN remote = Task, NEW t \in Task, remote[t] \in Progress(Req(t)),
           Req(t).method \in Methods, DeleteDestination(t)
    PROVE  Outcome(t)
<1>1. remote[t].at = "delete_dst" /\ remote[t].at \in Stages(Req(t).method)
  BY DEF DeleteDestination, Calls, Progress
<1>2. Req(t).method = "MOVE"
  BY <1>1, StageFacts
<1>3. \/ hdfs' = hdfs /\ \E status \in {403, 500} : Answer(t, status)
      \/ /\ hdfs' = Without(hdfs, Dst(t))
         /\ Answer(t, 500) \/ remote' = [remote EXCEPT ![t].at = "rename"]
  BY DEF DeleteDestination, Call, Raise, GoOn
<1> QED
  BY <1>1, <1>2, <1>3, Answers DEF Outcome, AnswersOnly, Clears

LEMMA RenameOutcome ==
    ASSUME DOMAIN remote = Task, NEW t \in Task, remote[t] \in Progress(Req(t)),
           Req(t).method \in Methods, Rename(t)
    PROVE  Outcome(t)
<1>1. remote[t].at = "rename" /\ remote[t].at \in Stages(Req(t).method)
  BY DEF Rename, Calls, Progress
<1>2. Req(t).method = "MOVE"
  BY <1>1, StageFacts
<1>3. \/ hdfs' = hdfs /\ \E status \in {500, RefusedStatus} : Answer(t, status)
      \/ /\ hdfs' = Renamed(hdfs, Src(t), Dst(t))
         /\ \E status \in {201, 204, 500} : Answer(t, status)
  BY DEF Rename, Call, Raise
<1> QED
  BY <1>1, <1>2, <1>3, Answers DEF Outcome, AnswersOnly, CarriedOut, RefusedStatus

LEMMA StepOutcome ==
    ASSUME AppInv, NEW t \in Task, Busy(t), Underway(t), Step(t)
    PROVE  Outcome(t)
<1>1. DOMAIN remote = Task /\ remote[t] \in Progress(Req(t))
  BY DEF AppInv, Served, Underway
<1>2. Req(t).method \in Methods /\ (Req(t).overwrite \in BOOLEAN \/ Req(t).method # "MOVE")
  <2>1. config \in Configs /\ Req(t) \in config.requests
    BY DEF AppInv, AuthInv, AuthTypeOK, Underway
  <2> QED
    BY <2>1, AppAssumption DEF Methods
<1> QED
  BY <1>1, <1>2, PrecheckOutcome, MkcolOutcome, DeleteOutcome, CreateOutcome, StoreOutcome,
     ReadingOutcome, LookAtDestinationOutcome, DeleteDestinationOutcome, RenameOutcome DEF Step

-----------------------------------------------------------------------------
(* What the outcomes leave of the tree, and of what the request found.     *)

\* Whatever its outcome, a step touches nothing but what its request is about, and a
\* tree remains one.
LEMMA OutcomeConfined ==
    ASSUME AppInv, IsTree(hdfs), NEW t \in Task, Busy(t), Underway(t), Outcome(t)
    PROVE  /\ IsTree(hdfs') /\ Confined(Targets(t), hdfs, hdfs')
           /\ hdfs' # hdfs => remote'[t] # remote[t]
<1> DEFINE fs == hdfs
           new == hdfs'
           T == Targets(t)
<1>1. /\ Src(t) \in Seq(Segment) /\ Src(t) \in T
      /\ Req(t).method = "DELETE" => Src(t) # << >>
      /\ Req(t).method = "MOVE" => Dst(t) \in Seq(Segment) /\ Dst(t) # << >> /\ Dst(t) \in T
  BY PathsOfRequest DEF Targets
<1>2. CASE hdfs' = hdfs
  BY <1>2 DEF Confined
<1>3. CASE CarriedOut(t)
  <2>1. remote'[t] # remote[t]
    BY <1>3 DEF CarriedOut, Busy
  <2> HIDE DEF T
  <2>2. ASSUME NEW what, CanHold(fs, Src(t)), new = PutAt(fs, Src(t), what),
               (what = Folder /\ (Src(t) \in DOMAIN fs => IsFolder(fs, Src(t)))) \/ ~IsFolder(fs, Src(t))
        PROVE  IsTree(new) /\ Confined(T, fs, new)
    <3>1. Confined(T, fs, PutAt(fs, Src(t), what))
      BY <1>1, PutAtConfined
    <3>2. IsTree(PutAt(fs, Src(t), what))
      BY <1>1, <2>2, PutAtIsTree
    <3> QED
      BY <2>2, <3>1, <3>2
  <2>3. ASSUME Req(t).method = "DELETE", new = Without(fs, Src(t))
        PROVE  IsTree(new) /\ Confined(T, fs, new)
    BY <1>1, <2>3, WithoutConfined, WithoutIsTree
  <2>4. ASSUME Req(t).method = "MOVE", new = Renamed(fs, Src(t), Dst(t))
        PROVE  IsTree(new) /\ Confined(T, fs, new)
    BY <1>1, <2>4, RenamedConfined, RenamedIsTree
  <2>5. IsTree(new) /\ Confined(T, fs, new)
    <3>1. CASE Req(t).method = "MKCOL"
      BY <1>3, <2>2, <3>1 DEF CarriedOut
    <3>2. CASE Req(t).method = "PUT"
      BY <1>3, <2>2, <3>2 DEF CarriedOut
    <3> QED
      BY <1>3, <2>3, <2>4, <3>1, <3>2 DEF CarriedOut
  <2> QED
    BY <2>1, <2>5 DEF T
<1>4. CASE Clears(t)
  <2>1. remote'[t] # remote[t]
    <3>1. remote[t] \in Progress(Req(t)) /\ remote[t].at = "delete_dst"
      BY <1>4 DEF Clears, Underway
    <3>2. [remote[t] EXCEPT !.at = "rename"].at = "rename"
      BY <3>1 DEF Progress
    <3> QED
      BY <1>4, <3>1, <3>2 DEF Clears, Busy
  <2>2. new = Without(fs, Dst(t)) /\ Dst(t) \in Seq(Segment) /\ Dst(t) # << >> /\ Dst(t) \in T
    BY <1>1, <1>4 DEF Clears
  <2> HIDE DEF T
  <2>3. IsTree(new) /\ Confined(T, fs, new)
    BY <2>2, WithoutConfined, WithoutIsTree
  <2> QED
    BY <2>1, <2>3 DEF T
<1> QED
  BY <1>2, <1>3, <1>4 DEF Outcome, GoesOn, AnswersOnly

\* How far a request r is that has been alone since it found was: x is known of it, and
\* fs is there now.
Reached(T, r, dst, was, x, fs) ==
    /\ DOMAIN was \subseteq Seq(Segment)
    /\ SameUnder(T, fs, IF x.at = "rename" /\ x.file_exists THEN Without(was, dst) ELSE was)
    /\ Upper(T, was, fs)
    /\ r.method = "MOVE" =>
         /\ x.at \in {"dst_itself", "delete_dst", "rename"} => Parent(dst) \in DOMAIN fs
         /\ x.at \in {"delete_dst", "rename"} => r.path # r.dst
         /\ x.at = "delete_dst" => x.file_exists
         /\ x.at = "rename" /\ x.file_exists => r.overwrite
         /\ x.at = "delete_dst" => r.overwrite

\* What others do elsewhere does not set it back.
LEMMA ReachedElsewhere ==
    ASSUME NEW T, NEW r, NEW dst, NEW was, NEW x, NEW fs, NEW new, Reached(T, r, dst, was, x, fs),
           SameUnder(T, new, fs), Upper(T, fs, new),
           r.method = "MOVE" => dst \in T /\ dst \in Seq(Segment) /\ dst # << >>
    PROVE  Reached(T, r, dst, was, x, new)
<1>1. ASSUME r.method = "MOVE", Parent(dst) \in DOMAIN fs PROVE Parent(dst) \in DOMAIN new
  <2>1. IsPrefix(Parent(dst), dst) /\ dst \in T
    BY <1>1, ParentIsAbove
  <2>2. CASE Under(T, Parent(dst))
    BY <1>1, <2>2 DEF SameUnder
  <2>3. CASE ~Under(T, Parent(dst))
    <3>1. Over(T, Parent(dst))
      BY <2>1, <2>3 DEF Over
    <3> QED
      BY <1>1, <3>1 DEF Upper
  <2> QED
    BY <2>2, <2>3
<1> DEFINE gs == IF x.at = "rename" /\ x.file_exists THEN Without(was, dst) ELSE was
<1>2. SameUnder(T, fs, gs) /\ Upper(T, was, fs)
  BY DEF Reached
<1> HIDE DEF gs
<1>3. SameUnder(T, new, gs) /\ Upper(T, was, new)
  BY <1>2, SameUnderFacts, UpperFacts
<1> QED
  BY <1>1, <1>3 DEF Reached, gs

\* Nor does going on.
LEMMA ReachedOn ==
    ASSUME NEW t \in Task, remote[t] \in Progress(Req(t)), Req(t).method \in Methods, NEW was,
           Reached(Targets(t), Req(t), Dst(t), was, remote[t], hdfs), GoesOn(t)
    PROVE  Reached(Targets(t), Req(t), Dst(t), was, remote'[t], hdfs')
<1>1. remote[t].at \in Stages(Req(t).method) /\ remote'[t].at \in Stages(Req(t).method)
  BY DEF GoesOn, Progress
<1>2. Req(t).method # "MOVE" => remote[t].at # "rename" /\ remote'[t].at # "rename"
  BY <1>1, StageFacts
<1> QED
  BY <1>2 DEF Reached, GoesOn

LEMMA ReachedCleared ==
    ASSUME AppInv, NEW t \in Task, Busy(t), Underway(t), NEW was,
           Reached(Targets(t), Req(t), Dst(t), was, remote[t], hdfs), Clears(t)
    PROVE  /\ SameUnder(Targets(t), hdfs', Without(was, Dst(t)))
           /\ remote'[t] # NotBusy =>
                Reached(Targets(t), Req(t), Dst(t), was, remote'[t], hdfs')
<1> DEFINE T == Targets(t)
           dst == Dst(t)
           new == hdfs'
           x == remote'[t]
<1>1. /\ Req(t).method = "MOVE" /\ remote[t].at = "delete_dst" /\ new = Without(hdfs, dst)
      /\ x = NotBusy \/ x = [remote[t] EXCEPT !.at = "rename"]
  BY DEF Clears
<1>2. dst \in Seq(Segment) /\ dst # << >> /\ dst \in T
  BY <1>1, PathsOfRequest DEF Targets
<1>3. /\ DOMAIN was \subseteq Seq(Segment) /\ SameUnder(T, hdfs, was) /\ Upper(T, was, hdfs)
      /\ Parent(dst) \in DOMAIN hdfs /\ Req(t).path # Req(t).dst
      /\ remote[t].file_exists /\ Req(t).overwrite
  BY <1>1 DEF Reached
<1> HIDE DEF T, dst
<1>4. SameUnder(T, new, Without(was, dst))
  BY <1>1, <1>3, WithoutSame
<1>5. Upper(T, was, new)
  BY <1>1, <1>2, <1>3, WithoutConfined, ConfinedIsUpper, UpperFacts
<1>6. Parent(dst) \in DOMAIN new
  <2>1. ~IsPrefix(dst, Parent(dst))
    BY <1>2, ParentIsAbove, PrefixAntisymmetric
  <2>2. DOMAIN Without(hdfs, dst) = {p \in DOMAIN hdfs : ~IsPrefix(dst, p)}
    BY WithoutFacts
  <2> QED
    BY <1>1, <1>3, <2>1, <2>2
<1>7. ASSUME x # NotBusy PROVE x.at = "rename" /\ x.file_exists
  <2>1. remote[t] \in Progress(Req(t)) /\ x = [remote[t] EXCEPT !.at = "rename"]
    BY <1>1, <1>7 DEF Underway
  <2> QED
    BY <1>3, <2>1 DEF Progress
<1>8. x # NotBusy => Reached(T, Req(t), dst, was, x, new)
  BY <1>3, <1>4, <1>5, <1>6, <1>7 DEF Reached
<1> QED
  BY <1>4, <1>8 DEF T, dst

-----------------------------------------------------------------------------
(* What an answer means.                                                   *)

\* What is not below the destination outlives its deletion.
LEMMA KeptOutside ==
    ASSUME NEW T, NEW fs, NEW was, NEW dst, SameUnder(T, fs, Without(was, dst)),
           NEW p \in DOMAIN was, ~IsPrefix(dst, p), Under(T, p)
    PROVE  p \in DOMAIN fs /\ fs[p] = was[p]
<1> DEFINE cleared == Without(was, dst)
<1>1. /\ DOMAIN cleared = {q \in DOMAIN was : ~IsPrefix(dst, q)}
      /\ \A q \in DOMAIN cleared : cleared[q] = was[q]
  BY WithoutFacts
<1>2. SameUnder(T, fs, cleared)
  OBVIOUS
<1> HIDE DEF cleared
<1> QED
  BY <1>1, <1>2 DEF SameUnder

\* A RENAME takes what the MOVE found at its source to the destination, and leaves nothing.
LEMMA MoveIsDone ==
    ASSUME NEW T, NEW src \in Seq(Segment), NEW dst \in Seq(Segment), T = {src, dst},
           dst # << >>, ~Related(src, dst),
           NEW fs, IsTree(fs), NEW was, DOMAIN was \subseteq Seq(Segment),
           SameUnder(T, fs, Without(was, dst)), Upper(T, was, fs),
           Parent(dst) \in DOMAIN fs, CanHold(was, dst), src \in DOMAIN was
    PROVE  /\ SameUnder(T, Renamed(fs, src, dst), Moved(was, src, dst))
           /\ \A q \in DOMAIN Moved(was, src, dst) : Under(T, q)
<1> DEFINE parent == Parent(dst)
           new == Renamed(fs, src, dst)
           left == Moved(was, src, dst)
<1>1. /\ parent \in Seq(Segment) /\ IsPrefix(parent, dst) /\ parent # dst
      /\ Above(dst) = Above(parent) \union {parent}
  BY ParentIsAbove
<1>2. \A p : Under(T, p) <=> IsPrefix(src, p) \/ IsPrefix(dst, p)
  BY DEF Under
<1>3. IsPrefix(src, src) /\ IsPrefix(dst, dst) /\ ~IsPrefix(src, dst) /\ ~IsPrefix(dst, src)
  BY PrefixReflexive DEF IsParentOfOrIsSelf, Related
<1>4. /\ DOMAIN Without(was, dst) = {p \in DOMAIN was : ~IsPrefix(dst, p)}
      /\ \A p \in DOMAIN Without(was, dst) : Without(was, dst)[p] = was[p]
  BY WithoutFacts
\* What is moved is at its source, and nothing else is.
<1>5. \A p \in DOMAIN was : IsPrefix(src, p) => p \in DOMAIN fs /\ fs[p] = was[p]
  <2> SUFFICES ASSUME NEW p \in DOMAIN was, IsPrefix(src, p)
               PROVE  p \in DOMAIN fs /\ fs[p] = was[p]
    OBVIOUS
  <2>1. p \in Seq(Segment) /\ ~IsPrefix(dst, p)
    BY <1>3, Separate
  <2>2. Under(T, p)
    BY <1>2
  <2> QED
    BY <2>1, <2>2, KeptOutside
<1>6. \A p \in DOMAIN fs : IsPrefix(src, p) => p \in DOMAIN was
  BY <1>2, <1>4 DEF SameUnder
<1>7. dst \notin DOMAIN fs
  BY <1>2, <1>3, <1>4 DEF SameUnder
\* So it can be renamed,
<1>8. CanRename(fs, src, dst)
  <2>1. src \in DOMAIN fs
    BY <1>3, <1>5
  <2>2. IsFolder(fs, parent)
    <3>1. dst \in DOMAIN was \/ dst \notin DOMAIN was
      OBVIOUS
    <3>2. parent \in DOMAIN fs /\ ~IsPrefix(dst, parent)
      BY <1>1, PrefixAntisymmetric DEF parent
    <3>3. parent \in DOMAIN was => was[parent] = Folder
      BY <1>1 DEF CanHold
    <3>4. ~IsPrefix(src, parent)
      BY <1>1, <1>3, PrefixTransitive
    <3>5. Over(T, parent)
      BY <1>1, <1>2, <3>2, <3>4 DEF Over
    <3> QED
      BY <3>2, <3>3, <3>5 DEF Upper, IsFolder
  <2> QED
    BY <1>3, <1>7, <2>1, <2>2 DEF CanRename, parent
<1>9. new = RenamedTo(fs, src, dst)
  BY <1>7, TargetFacts DEF Renamed
<1>10. DOMAIN fs \subseteq Seq(Segment) /\ \A p \in DOMAIN fs : ~IsPrefix(dst, p)
  BY <1>7, NothingBelow DEF IsTree
\* and what is renamed is what is left.
<1>11. /\ \A p \in DOMAIN fs : IsPrefix(src, p) =>
              Relocated(p, src, dst) \in DOMAIN new /\ new[Relocated(p, src, dst)] = fs[p]
       /\ \A q \in DOMAIN new :
              \/ q \in DOMAIN fs /\ ~IsPrefix(src, q)
              \/ \E p \in DOMAIN fs : IsPrefix(src, p) /\ q = Relocated(p, src, dst)
  BY <1>8, <1>9, <1>10, RenamedFacts
<1>12. /\ DOMAIN left = {Relocated(p, src, dst) : p \in Tree(was, src)}
       /\ \A q \in DOMAIN left : left[q] = was[Relocated(q, dst, src)]
  BY DEF Moved, Relocated, AddChild
<1> HIDE DEF new, left
<1>13. \A p \in Tree(was, src) :
         /\ p \in DOMAIN was /\ p \in Seq(Segment) /\ IsPrefix(src, p)
         /\ IsPrefix(dst, Relocated(p, src, dst))
         /\ Relocated(Relocated(p, src, dst), dst, src) = p
  <2> TAKE p \in Tree(was, src)
  <2>1. p \in DOMAIN was /\ p \in Seq(Segment) /\ IsPrefix(src, p)
    BY DEF Tree
  <2> QED
    BY <2>1, RelocatedFacts, RelocatedBack
<1>14. \A q \in DOMAIN left : q \in DOMAIN new /\ Under(T, q) /\ new[q] = left[q]
  <2> TAKE q \in DOMAIN left
  <2>1. PICK p \in Tree(was, src) : q = Relocated(p, src, dst)
    BY <1>12
  <2>2. p \in DOMAIN was /\ IsPrefix(src, p) /\ IsPrefix(dst, q) /\ left[q] = was[p]
    BY <1>12, <1>13, <2>1
  <2>3. p \in DOMAIN fs /\ fs[p] = was[p]
    BY <1>5, <2>2
  <2> QED
    BY <1>2, <1>11, <2>1, <2>2, <2>3
<1>15. \A q \in DOMAIN new : Under(T, q) => q \in DOMAIN left
  <2> SUFFICES ASSUME NEW q \in DOMAIN new, Under(T, q) PROVE q \in DOMAIN left
    OBVIOUS
  <2>1. ~(q \in DOMAIN fs /\ ~IsPrefix(src, q))
    BY <1>2, <1>10
  <2>2. PICK p \in DOMAIN fs : IsPrefix(src, p) /\ q = Relocated(p, src, dst)
    BY <1>11, <2>1
  <2>3. p \in Tree(was, src)
    BY <1>6, <2>2 DEF Tree
  <2> QED
    BY <1>12, <2>2, <2>3
<1>16. SameUnder(T, new, left) /\ \A q \in DOMAIN left : Under(T, q)
  BY <1>14, <1>15 DEF SameUnder
<1> QED
  BY <1>16 DEF new, left

\* Success: it is done.
LEMMA SuccessMeansDone ==
    ASSUME AppInv, IsTree(hdfs), NEW t \in Task, Busy(t), Underway(t), ChangesSomething(t),
           Reached(Targets(t), Req(t), Dst(t), seen[t].before, remote[t], hdfs),
           Outcome(t), remote'[t] = NotBusy, reply' \in 200 .. 299, CanMove(t)
    PROVE  Done(t, seen[t].before, Owned(t, hdfs'))
<1> DEFINE was == seen[t].before
           T == Targets(t)
<1>1. /\ DOMAIN was \subseteq Seq(Segment) /\ Upper(T, was, hdfs)
      /\ SameUnder(T, hdfs, IF remote[t].at = "rename" /\ remote[t].file_exists
                            THEN Without(was, Dst(t)) ELSE was)
  BY DEF Reached
<1>2. remote[t] \in Progress(Req(t)) /\ Req(t).method \in Methods
  <2>1. config \in Configs /\ Req(t) \in config.requests
    BY DEF AppInv, AuthInv, AuthTypeOK, Underway
  <2> QED
    BY <2>1, AppAssumption DEF Methods, Underway
<1>3. CarriedOut(t)
  <2>1. ~AnswersOnly(t)
    BY DEF AnswersOnly
  <2>2. ~GoesOn(t)
    BY DEF GoesOn, Progress, NotBusy
  <2>3. ~Clears(t)
    <3> SUFFICES ASSUME Clears(t) PROVE FALSE
      OBVIOUS
    <3>1. remote'[t] = [remote[t] EXCEPT !.at = "rename"]
      BY DEF Clears
    <3>2. remote'[t].at = "rename"
      BY <1>2, <3>1 DEF Progress
    <3> QED
      BY <3>2 DEF NotBusy
  <2> QED
    BY <2>1, <2>2, <2>3 DEF Outcome
<1> HIDE DEF was, T
<1>4. CASE Req(t).method # "MOVE"
  <2>1. remote[t].at # "rename"
    BY <1>2, <1>4, StageFacts DEF Progress
  <2>2. SameUnder(T, hdfs, was)
    BY <1>1, <2>1
  <2>3. CASE Req(t).method = "MKCOL"
    <3>1. hdfs' = PutAt(hdfs, Src(t), Folder)
      BY <1>3, <2>3 DEF CarriedOut
    <3>2. SameUnder(T, hdfs', PutAt(was, Src(t), Folder))
      BY <2>2, <3>1, PutAtSame
    <3>3. Owned(t, hdfs') = Owned(t, PutAt(was, Src(t), Folder))
      BY <3>2, OwnedSame DEF T
    <3> QED
      BY <2>3, <3>3 DEF Done, was
  <2>4. CASE Req(t).method = "DELETE"
    <3>1. hdfs' = Without(hdfs, Src(t))
      BY <1>3, <2>4 DEF CarriedOut
    <3>2. SameUnder(T, hdfs', Without(was, Src(t)))
      BY <2>2, <3>1, WithoutSame
    <3>3. Owned(t, hdfs') = Owned(t, Without(was, Src(t)))
      BY <3>2, OwnedSame DEF T
    <3> QED
      BY <2>4, <3>3 DEF Done, was
  <2>5. CASE Req(t).method = "PUT"
    <3>1. PICK what \in {Req(t).body, Part} : hdfs' = PutAt(hdfs, Src(t), what)
      BY <1>3, <2>5 DEF CarriedOut
    <3>2. SameUnder(T, hdfs', PutAt(was, Src(t), what))
      BY <2>2, <3>1, PutAtSame
    <3>3. Owned(t, hdfs') = Owned(t, PutAt(was, Src(t), what))
      BY <3>2, OwnedSame DEF T
    <3> QED
      BY <2>5, <3>3 DEF Done, was
  <2> QED
    BY <1>4, <2>3, <2>4, <2>5 DEF ChangesSomething
<1>5. CASE Req(t).method = "MOVE"
  <2>1. remote[t].at = "rename" /\ hdfs' = Renamed(hdfs, Src(t), Dst(t))
    BY <1>3, <1>5 DEF CarriedOut
  <2>2. /\ Src(t) \in Seq(Segment) /\ Dst(t) \in Seq(Segment) /\ Dst(t) # << >>
        /\ T = {Src(t), Dst(t)} /\ Parent(Dst(t)) \in DOMAIN hdfs
    BY <1>5, <2>1, PathsOfRequest DEF Reached, Targets, T
  <2>3. /\ remote[t].file_exists = (Dst(t) \in DOMAIN was) /\ CanHold(was, Dst(t))
        /\ Src(t) \in DOMAIN was /\ ~Related(Src(t), Dst(t))
    BY <1>5 DEF CanMove, was
  <2>4. SameUnder(T, hdfs, Without(was, Dst(t)))
    <3>1. CASE remote[t].file_exists
      BY <1>1, <2>1, <3>1
    <3>2. CASE ~remote[t].file_exists
      <4>1. SameUnder(T, hdfs, was) /\ Dst(t) \notin DOMAIN was
        BY <1>1, <2>3, <3>2
      <4>2. \A p : IsPrefix(Dst(t), p) => Under(T, p)
        BY <2>2 DEF Under
      <4>3. IsPrefix(Dst(t), Dst(t))
        BY <2>2, PrefixReflexive DEF IsParentOfOrIsSelf
      <4>4. Dst(t) \notin DOMAIN hdfs
        BY <4>1, <4>2, <4>3 DEF SameUnder
      <4>5. \A p \in DOMAIN hdfs : ~IsPrefix(Dst(t), p)
        BY <2>2, <4>4, NothingBelow
      <4>6. \A p \in DOMAIN was : ~IsPrefix(Dst(t), p)
        BY <4>1, <4>2, <4>5 DEF SameUnder
      <4> DEFINE cleared == Without(was, Dst(t))
      <4>7. /\ DOMAIN cleared = {p \in DOMAIN was : ~IsPrefix(Dst(t), p)}
            /\ \A p \in DOMAIN cleared : cleared[p] = was[p]
        BY WithoutFacts
      <4> HIDE DEF cleared
      <4>8. SameUnder(T, hdfs, cleared)
        BY <4>1, <4>6, <4>7 DEF SameUnder
      <4> QED
        BY <4>8 DEF cleared
    <3> QED
      BY <3>1, <3>2
  <2>5. Owned(t, Renamed(hdfs, Src(t), Dst(t))) = Moved(was, Src(t), Dst(t))
    <3>1. /\ Targets(t) = {Src(t), Dst(t)} /\ Upper(Targets(t), was, hdfs)
          /\ SameUnder(Targets(t), hdfs, Without(was, Dst(t)))
      BY <1>1, <2>2, <2>4 DEF T
    <3>2. /\ Src(t) \in Seq(Segment) /\ Dst(t) \in Seq(Segment) /\ Dst(t) # << >>
          /\ ~Related(Src(t), Dst(t)) /\ DOMAIN was \subseteq Seq(Segment)
          /\ Parent(Dst(t)) \in DOMAIN hdfs /\ CanHold(was, Dst(t)) /\ Src(t) \in DOMAIN was
      BY <1>1, <2>2, <2>3
    <3> DEFINE left == Moved(was, Src(t), Dst(t))
    <3>3. /\ SameUnder(Targets(t), Renamed(hdfs, Src(t), Dst(t)), left)
          /\ \A q \in DOMAIN left : Under(Targets(t), q)
      BY <3>1, <3>2, MoveIsDone
    <3>4. left = [q \in DOMAIN left |-> left[q]]
      BY DEF Moved
    <3> HIDE DEF left
    <3>5. {q \in DOMAIN left : \E p \in Targets(t) : IsPrefix(p, q)} = DOMAIN left
      BY <3>3 DEF Under
    <3>6. Owned(t, left) = left
      BY <3>4, <3>5 DEF Owned, Restrict
    <3> QED
      BY <3>3, <3>6, OwnedSame DEF left
  <2> QED
    BY <1>5, <2>1, <2>5 DEF Done, was
<1> QED
  BY <1>4, <1>5

\* An error: nothing has changed, or a MOVE has cleared its destination.
LEMMA ErrorMeansNothing ==
    ASSUME AppInv, IsTree(hdfs), NEW t \in Task, Busy(t), Underway(t), ChangesSomething(t),
           Reached(Targets(t), Req(t), Dst(t), seen[t].before, remote[t], hdfs),
           Outcome(t), remote'[t] = NotBusy, reply' \in 400 .. 499
    PROVE  \/ SameUnder(Targets(t), hdfs', seen[t].before)
           \/ /\ Req(t).method = "MOVE" /\ Req(t).overwrite /\ reply' = RefusedStatus
              /\ SameUnder(Targets(t), hdfs', Without(seen[t].before, Dst(t)))
<1>1. remote[t] \in Progress(Req(t)) /\ Req(t).method \in Methods
  <2>1. config \in Configs /\ Req(t) \in config.requests
    BY DEF AppInv, AuthInv, AuthTypeOK, Underway
  <2> QED
    BY <2>1, AppAssumption DEF Methods, Underway
<1>2. hdfs' = hdfs /\ (remote[t].at = "rename" => reply' = RefusedStatus)
  <2>1. ~CarriedOut(t)
    BY DEF CarriedOut
  <2>2. ~Clears(t)
    <3> SUFFICES ASSUME Clears(t) PROVE FALSE
      OBVIOUS
    <3>1. remote'[t] = [remote[t] EXCEPT !.at = "rename"]
      BY DEF Clears
    <3>2. remote'[t].at = "rename"
      BY <1>1, <3>1 DEF Progress
    <3> QED
      BY <3>2 DEF NotBusy
  <2>3. ~GoesOn(t)
    BY DEF GoesOn, Progress, NotBusy
  <2> QED
    BY <2>1, <2>2, <2>3 DEF Outcome, AnswersOnly
<1>3. CASE remote[t].at = "rename" /\ remote[t].file_exists
  <2>1. Req(t).method = "MOVE"
    BY <1>1, <1>3, StageFacts DEF Progress
  <2> QED
    BY <1>2, <1>3, <2>1 DEF Reached
<1>4. CASE ~(remote[t].at = "rename" /\ remote[t].file_exists)
  BY <1>2, <1>4 DEF Reached
<1> QED
  BY <1>3, <1>4

\* What is moved is at its source as long as it has not been renamed.
LEMMA KeptAtSource ==
    ASSUME AppInv, NEW t \in Task, Busy(t), Underway(t), Req(t).method = "MOVE",
           Src(t) = Dst(t) \/ ~Related(Src(t), Dst(t)),
           NEW was, DOMAIN was \subseteq Seq(Segment), NEW fs,
           \/ SameUnder(Targets(t), fs, was)
           \/ SameUnder(Targets(t), fs, Without(was, Dst(t))) /\ Req(t).path # Req(t).dst
    PROVE  \A p \in Tree(was, Src(t)) :
             LET q == Src(t) \o GetChild(p, Src(t)) IN q \in DOMAIN fs /\ fs[q] = was[p]
<1> TAKE p \in Tree(was, Src(t))
<1>1. /\ p \in DOMAIN was /\ p \in Seq(Segment) /\ IsPrefix(Src(t), p)
      /\ Src(t) \in Seq(Segment) /\ Dst(t) \in Seq(Segment)
      /\ Req(t).path # Req(t).dst => ~Related(Src(t), Dst(t))
  BY PathsOfRequest DEF Tree
<1>2. Src(t) \o GetChild(p, Src(t)) = p
  BY <1>1, AddedChild DEF AddChild
<1>3. Under(Targets(t), p)
  BY <1>1 DEF Under, Targets
<1>4. CASE SameUnder(Targets(t), fs, was)
  BY <1>1, <1>2, <1>3, <1>4 DEF SameUnder
<1>5. CASE SameUnder(Targets(t), fs, Without(was, Dst(t))) /\ Req(t).path # Req(t).dst
  <2>1. ~IsPrefix(Dst(t), p)
    BY <1>1, <1>5, Separate DEF Related
  <2>2. p \in DOMAIN fs /\ fs[p] = was[p]
    BY <1>1, <1>3, <1>5, <2>1, KeptOutside
  <2> QED
    BY <1>2, <2>2
<1> QED
  BY <1>4, <1>5

LEMMA ReachedKeeps ==
    ASSUME AppInv, NEW t \in Task, Busy(t), Underway(t), Req(t).method = "MOVE",
           Src(t) = Dst(t) \/ ~Related(Src(t), Dst(t)),
           NEW was, NEW x, NEW fs, Reached(Targets(t), Req(t), Dst(t), was, x, fs)
    PROVE  \A p \in Tree(was, Src(t)) :
             LET q == Src(t) \o GetChild(p, Src(t)) IN q \in DOMAIN fs /\ fs[q] = was[p]
<1>1. /\ DOMAIN was \subseteq Seq(Segment)
      /\ \/ SameUnder(Targets(t), fs, was)
         \/ SameUnder(Targets(t), fs, Without(was, Dst(t))) /\ Req(t).path # Req(t).dst
  BY DEF Reached
<1> QED
  BY <1>1, KeptAtSource

\* A step of its own leaves it there, or takes it to the destination.
LEMMA OutcomeKeeps ==
    ASSUME AppInv, IsTree(hdfs), NEW t \in Task, Busy(t), Underway(t), Req(t).method = "MOVE",
           Src(t) = Dst(t) \/ ~Related(Src(t), Dst(t)),
           NEW was, Reached(Targets(t), Req(t), Dst(t), was, remote[t], hdfs), Outcome(t)
    PROVE  \/ \A p \in Tree(was, Src(t)) :
                LET q == Src(t) \o GetChild(p, Src(t)) IN q \in DOMAIN hdfs' /\ hdfs'[q] = was[p]
           \/ \A p \in Tree(was, Src(t)) :
                LET q == Dst(t) \o GetChild(p, Src(t)) IN q \in DOMAIN hdfs' /\ hdfs'[q] = was[p]
           \/ \A p \in Tree(was, Src(t)) :
                LET q == Append(Dst(t), Name(Src(t))) \o GetChild(p, Src(t))
                IN  q \in DOMAIN hdfs' /\ hdfs'[q] = was[p]
<1>1. CASE hdfs' = hdfs
  BY <1>1, ReachedKeeps
<1>2. CASE Clears(t)
  <2>1. SameUnder(Targets(t), hdfs', Without(was, Dst(t)))
    BY <1>2, ReachedCleared
  <2>2. DOMAIN was \subseteq Seq(Segment) /\ Req(t).path # Req(t).dst
    BY <1>2 DEF Clears, Reached
  <2> QED
    BY <2>1, <2>2, KeptAtSource
<1>3. CASE CarriedOut(t) /\ hdfs' # hdfs
  <2> DEFINE to == Target(hdfs, Src(t), Dst(t))
  <2>1. hdfs' = RenamedTo(hdfs, Src(t), to)
    BY <1>3 DEF CarriedOut, Renamed
  <2>2. CanRename(hdfs, Src(t), to)
    BY <1>3, <2>1 DEF RenamedTo
  <2>3. /\ Src(t) \in Seq(Segment) /\ Dst(t) \in Seq(Segment) /\ to \in Seq(Segment)
        /\ to \in {Dst(t), Append(Dst(t), Name(Src(t)))}
    BY PathsOfRequest, TargetFacts
  <2> HIDE DEF to
  <2>4. DOMAIN hdfs \subseteq Seq(Segment) /\ \A p \in DOMAIN hdfs : ~IsPrefix(to, p)
    BY <2>2, <2>3, NothingBelow DEF CanRename, IsTree
  <2>5. \A p \in DOMAIN hdfs : IsPrefix(Src(t), p) =>
          /\ Relocated(p, Src(t), to) \in DOMAIN hdfs'
          /\ hdfs'[Relocated(p, Src(t), to)] = hdfs[p]
    <3> DEFINE new == RenamedTo(hdfs, Src(t), to)
    <3> HIDE DEF new
    <3>1. \A p \in DOMAIN hdfs : IsPrefix(Src(t), p) =>
            Relocated(p, Src(t), to) \in DOMAIN new /\ new[Relocated(p, Src(t), to)] = hdfs[p]
      BY <2>2, <2>3, <2>4, RenamedFacts DEF new
    <3>2. hdfs' = new
      BY <2>1 DEF new
    <3> QED
      BY <3>1, <3>2
  <2>6. \A p \in Tree(was, Src(t)) :
          LET q == Src(t) \o GetChild(p, Src(t)) IN q \in DOMAIN hdfs /\ hdfs[q] = was[p]
    BY ReachedKeeps
  <2>7. ASSUME NEW p \in Tree(was, Src(t))
        PROVE  LET q == to \o GetChild(p, Src(t)) IN q \in DOMAIN hdfs' /\ hdfs'[q] = was[p]
    <3>1. p \in Seq(Segment) /\ IsPrefix(Src(t), p)
      BY DEF Tree, Reached
    <3>2. Src(t) \o GetChild(p, Src(t)) = p
      BY <2>3, <3>1, AddedChild DEF AddChild
    <3>3. p \in DOMAIN hdfs /\ hdfs[p] = was[p]
      BY <2>6, <3>2
    <3> QED
      BY <2>5, <3>1, <3>3 DEF Relocated, AddChild
  <2> QED
    BY <2>3, <2>7
<1> QED
  BY <1>1, <1>2, <1>3 DEF Outcome, GoesOn, AnswersOnly

-----------------------------------------------------------------------------
(* The steps of the server.                                                *)

\* A request that is served is touched by its own steps alone.
Untouched(t) == remote'[t] = remote[t] /\ login'[t] = login[t]

\* A request begins to be served: what it asks for is permitted.
Begins(t) ==
    /\ At(t, "accepted") /\ ~Busy(t) /\ login'[t] = login[t] /\ hdfs' = hdfs
    /\ \E r \in config.requests :
         /\ config.home_dir \/ MayPass(login[t].user, r)
         /\ remote'[t] = [at |-> FirstCall(r), request |-> r, parent_exists |-> FALSE,
                          file_exists |-> FALSE]

LEMMA NextTouches ==
    ASSUME AppInv, [Next]_appVars
    PROVE  /\ config' = config
           /\ \A t \in Task : Busy(t)' => Busy(t) \/ Begins(t)
           /\ \/ hdfs' = hdfs /\ \A t \in Task : Busy(t) => Untouched(t)
              \/ \E u \in Task :
                   /\ Busy(u) /\ Step(u) /\ (Busy(u)' => login'[u] = login[u])
                   /\ \A t \in Task : Busy(t) /\ t # u => Untouched(t)
<1>1. /\ login \in [Task -> LoginState] /\ DOMAIN remote = Task
      /\ \A t \in Task : Busy(t) => At(t, "accepted")
  BY DEF AppInv, AuthInv, AuthTypeOK, Served
<1>2. CASE UNCHANGED appVars
  BY <1>2 DEF appVars, hdfsVars, authVars, Untouched, Busy
<1>3. ASSUME NEW t \in Task, NEW header \in config.headers, Arrive(t, header), UNCHANGED hdfsVars
      PROVE  /\ config' = config /\ remote' = remote /\ hdfs' = hdfs
             /\ \A u \in Task : Busy(u) => Untouched(u)
  BY <1>1, <1>3 DEF Arrive, hdfsVars, environment, Untouched, At
<1>4. ASSUME NEW t \in Task, Login(t)
      PROVE  /\ config' = config /\ remote' = remote /\ hdfs' = hdfs
             /\ \A u \in Task : Busy(u) => Untouched(u)
  <2>1. PickOutUser(t) /\ UNCHANGED << hdfs, remote >>
    BY <1>4 DEF Login
  <2>2. PICK l : login' = [login EXCEPT ![t] = l]
    BY <1>1, <2>1, MovesOne
  <2>3. ~At(t, "accepted")
    BY <2>1, PickedOutIsNotAccepted
  <2>4. config' = config
    BY <2>1 DEF PickOutUser, PickOutAnonymous, PickOutNobody, PickOutDigest, PickOutCached,
       PickOutBasic, LdapAnswers, Checked, LdapFails, environment
  <2> QED
    BY <1>1, <2>1, <2>2, <2>3, <2>4 DEF Untouched
<1>5. ASSUME NEW t \in Task, NEW r \in config.requests, Distribute(t, r)
      PROVE  /\ config' = config /\ hdfs' = hdfs
             /\ \A u \in Task : Busy(u) => Untouched(u)
             /\ \A u \in Task : Busy(u)' => Busy(u) \/ Begins(u)
  <2>1. At(t, "accepted") /\ ~Busy(t) /\ config' = config /\ hdfs' = hdfs
    BY <1>5 DEF Distribute, environment
  <2> DEFINE new == [at |-> FirstCall(r), request |-> r, parent_exists |-> FALSE, file_exists |-> FALSE]
  <2>2. CASE /\ config.home_dir \/ MayPass(login[t].user, r)
             /\ remote' = [remote EXCEPT ![t] = new] /\ login' = login
    <3>1. Begins(t)
      BY <1>1, <2>1, <2>2 DEF Begins
    <3>2. \A u \in Task : u # t => Untouched(u)
      BY <1>1, <2>2 DEF Untouched
    <3> QED
      BY <2>1, <3>1, <3>2 DEF Untouched, Busy
  <2>3. CASE Refuse(t) /\ remote' = remote
    <3>1. \A u \in Task : u # t => Untouched(u)
      BY <1>1, <2>3 DEF Refuse, Untouched
    <3> QED
      BY <2>1, <2>3, <3>1 DEF Untouched, Busy
  <2> QED
    BY <1>5, <2>2, <2>3 DEF Distribute
<1>6. ASSUME NEW t \in Task, Serve(t)
      PROVE  /\ config' = config /\ Busy(t) /\ Step(t) /\ (Busy(t)' => login'[t] = login[t])
             /\ \A u \in Task : u # t => Untouched(u)
  <2>1. Busy(t) /\ Step(t) /\ IF Busy(t)' THEN UNCHANGED authVars ELSE Leave(t)
    BY <1>6 DEF Serve
  <2>2. PICK x : remote' = [remote EXCEPT ![t] = x]
    BY <2>1, StepMovesOne
  <2>3. CASE Busy(t)'
    BY <1>1, <2>1, <2>2, <2>3 DEF authVars, Untouched
  <2>4. CASE ~Busy(t)'
    BY <1>1, <2>1, <2>2, <2>4 DEF Leave, environment, Untouched
  <2> QED
    BY <2>3, <2>4
<1>7. ASSUME NEW name \in Entry, NEW password \in config.passwords, ChangePassword(name, password),
             UNCHANGED hdfsVars
      PROVE  /\ config' = config /\ remote' = remote /\ hdfs' = hdfs
             /\ \A u \in Task : Busy(u) => Untouched(u)
  BY <1>7 DEF ChangePassword, hdfsVars, Untouched
<1>8. CASE Tick /\ UNCHANGED hdfsVars
  BY <1>8 DEF Tick, hdfsVars, Untouched, Busy
<1> QED
  BY <1>2, <1>3, <1>4, <1>5, <1>6, <1>7, <1>8 DEF Next, Untouched, Busy

-----------------------------------------------------------------------------
(* The invariant.                                                          *)

\* A request that has been alone is where it would be if it were alone in the world.
Watched(t) ==
    seen[t].alone =>
        /\ Busy(t) /\ ChangesSomething(t) /\ \A u \in Task : ~Conflict(t, u)
        /\ Reached(Targets(t), Req(t), Dst(t), seen[t].before, remote[t], hdfs)

HdfsInv ==
    /\ AppInv
    /\ IsTree(hdfs)
    /\ \A t \in Task : Underway(t) /\ Watched(t)

\* What others do that are in no conflict with it is done elsewhere.
LEMMA OthersElsewhere ==
    ASSUME AppInv, IsTree(hdfs), NEW t \in Task, NEW u \in Task, t # u,
           Busy(t), Underway(t), ChangesSomething(t),
           Busy(u), Underway(u), Step(u), ~Conflict(t, u),
           NEW was, NEW x, Reached(Targets(t), Req(t), Dst(t), was, x, hdfs)
    PROVE  Reached(Targets(t), Req(t), Dst(t), was, x, hdfs')
<1>1. Outcome(u)
  BY StepOutcome
<1>2. IsTree(hdfs') /\ Confined(Targets(u), hdfs, hdfs')
  BY <1>1, OutcomeConfined
<1>3. CASE hdfs' = hdfs
  BY <1>3
<1>4. CASE hdfs' # hdfs
  <2>1. ChangesSomething(u)
    BY <1>1, <1>4 DEF Outcome, GoesOn, AnswersOnly, CarriedOut, Clears, ChangesSomething
  <2>2. \A p \in Targets(t), q \in Targets(u) : ~Related(p, q)
    BY <2>1 DEF Conflict
  <2>3. Targets(t) \subseteq Seq(Segment) /\ Targets(u) \subseteq Seq(Segment)
    BY PathsOfRequest
  <2>4. DOMAIN hdfs \subseteq Seq(Segment) /\ DOMAIN hdfs' \subseteq Seq(Segment)
    BY <1>2 DEF IsTree
  <2>5. SameUnder(Targets(t), hdfs', hdfs) /\ Upper(Targets(t), hdfs, hdfs')
    BY <1>2, <2>2, <2>3, <2>4, ConfinedElsewhere
  <2>6. Req(t).method = "MOVE" => Dst(t) \in Targets(t) /\ Dst(t) \in Seq(Segment) /\ Dst(t) # << >>
    BY PathsOfRequest DEF Targets
  <2> QED
    BY <2>5, <2>6, ReachedElsewhere
<1> QED
  BY <1>3, <1>4

\* A method is one of those there are.
LEMMA MethodType ==
    ASSUME AppInv, NEW t \in Task, Busy(t), Underway(t)
    PROVE  remote[t] \in Progress(Req(t)) /\ Req(t).method \in Methods
<1>1. config \in Configs /\ Req(t) \in config.requests
  BY DEF AppInv, AuthInv, AuthTypeOK, Underway
<1> QED
  BY <1>1, AppAssumption DEF Methods, Underway

\* A request that goes on is the same request.
LEMMA BusyStays ==
    ASSUME HdfsInv, AppInv', [Next]_appVars, NEW t \in Task, Busy(t), Busy(t)'
    PROVE  /\ config' = config /\ login'[t] = login[t] /\ Req(t)' = Req(t)
           /\ remote'[t] \in Progress(Req(t))
           /\ Src(t)' = Src(t) /\ Dst(t)' = Dst(t) /\ Targets(t)' = Targets(t)
           /\ PermittedTo(login[t].header)' = PermittedTo(login[t].header)
           /\ ChangesSomething(t)' <=> ChangesSomething(t)
<1>1. AppInv /\ IsTree(hdfs) /\ Underway(t) /\ At(t, "accepted")
  BY DEF HdfsInv, AppInv, Served
<1>2. remote[t] \in Progress(Req(t))
  BY <1>1, MethodType
<1>3. config' = config /\ login'[t] = login[t] /\ remote'[t] \in Progress(Req(t))
  <2>1. CASE Untouched(t)
    BY <1>1, <1>2, <2>1, NextTouches DEF Untouched
  <2>2. CASE ~Untouched(t)
    <3>1. config' = config /\ Step(t) /\ login'[t] = login[t]
      BY <1>1, <2>2, NextTouches
    <3>2. Outcome(t)
      BY <1>1, <3>1, StepOutcome
    <3>3. GoesOn(t) \/ Clears(t)
      BY <3>2 DEF Outcome, AnswersOnly, CarriedOut, Busy
    <3>4. CASE Clears(t)
      <4>1. remote'[t] = [remote[t] EXCEPT !.at = "rename"]
        BY <3>4 DEF Clears, Busy
      <4>2. "rename" \in Stages(Req(t).method)
        BY <3>4 DEF Clears, Stages
      <4> QED
        BY <1>2, <3>1, <4>1, <4>2 DEF Progress
    <3> QED
      BY <3>1, <3>3, <3>4 DEF GoesOn
  <2> QED
    BY <2>1, <2>2
<1>4. Req(t)' = Req(t)
  BY <1>3 DEF Req, Progress
<1> QED
  BY <1>1, <1>3, <1>4, PathsStay DEF AppInv

LEMMA UnderwayInv ==
    ASSUME HdfsInv, AppInv', [Next]_appVars, NEW t \in Task
    PROVE  Underway(t)'
<1> SUFFICES ASSUME Busy(t)' PROVE Underway(t)'
  BY DEF Underway
<1>1. AppInv /\ Underway(t)
  BY DEF HdfsInv
<1>2. CASE Busy(t)
  <2>1. /\ config' = config /\ login'[t] = login[t] /\ Req(t)' = Req(t)
        /\ remote'[t] \in Progress(Req(t)) /\ Targets(t)' = Targets(t)
        /\ PermittedTo(login[t].header)' = PermittedTo(login[t].header)
    BY <1>2, BusyStays
  <2> QED
    BY <1>1, <1>2, <2>1 DEF Underway
<1>3. CASE ~Busy(t)
  <2>1. config' = config /\ Begins(t)
    BY <1>1, <1>3, NextTouches
  <2>2. PICK r \in config.requests :
          /\ config.home_dir \/ MayPass(login[t].user, r)
          /\ remote'[t] = [at |-> FirstCall(r), request |-> r, parent_exists |-> FALSE,
                           file_exists |-> FALSE]
    BY <2>1 DEF Begins
  <2>3. Req(t)' = r
    BY <2>2 DEF Req
  <2>4. remote'[t] \in Progress(r)
    <3>1. r.method \in Methods
      BY AppAssumption DEF Methods, AppInv, AuthInv, AuthTypeOK, HdfsInv
    <3>2. FirstCall(r) \in Stages(r.method)
      BY <3>1 DEF FirstCall, Stages, Methods
    <3> QED
      BY <2>2, <3>2 DEF Progress
  <2>5. ASSUME ~config.home_dir PROVE Targets(t)' \subseteq PermittedTo(login[t].header)'
    <3>1. Targets(t)' = {r.path} \union (IF r.method = "MOVE" THEN {r.dst} ELSE {})
      BY <2>1, <2>3, <2>5 DEF Targets, Src, Dst, UrlPath
    <3>2. Targets(t)' \subseteq config.accounts[login[t].user[1]].permissions
      BY <2>2, <2>5, <3>1 DEF MayPass
    <3>3. config.accounts[login[t].user[1]].permissions = PermittedTo(login[t].header)
      BY <1>1, <2>1, AcceptedHasName DEF Begins, AppInv
    <3>4. PermittedTo(login[t].header)' = PermittedTo(login[t].header)
      BY <2>1 DEF PermittedTo, NameIn, Begins
    <3> QED
      BY <3>2, <3>3, <3>4
  <2> QED
    BY <2>1, <2>2, <2>3, <2>4, <2>5 DEF Underway, Begins
<1> QED
  BY <1>2, <1>3

\* A request that was alone and goes on is as far as it would be.
LEMMA ReachedNext ==
    ASSUME HdfsInv, [Next]_appVars, NEW t \in Task, Busy(t), Busy(t)', seen[t].alone
    PROVE  Reached(Targets(t), Req(t), Dst(t), seen[t].before, remote'[t], hdfs')
<1> DEFINE was == seen[t].before
<1>1. /\ AppInv /\ IsTree(hdfs) /\ Underway(t) /\ ChangesSomething(t)
      /\ \A u \in Task : ~Conflict(t, u) /\ Underway(u)
      /\ Reached(Targets(t), Req(t), Dst(t), was, remote[t], hdfs)
  BY DEF HdfsInv, Watched
<1> HIDE DEF was
<1>2. remote[t] \in Progress(Req(t)) /\ Req(t).method \in Methods
  BY <1>1, MethodType
<1>3. CASE hdfs' = hdfs /\ Untouched(t)
  BY <1>1, <1>3 DEF Untouched, was
<1>4. CASE Step(t)
  <2>1. Outcome(t)
    BY <1>1, <1>4, StepOutcome
  <2>2. CASE GoesOn(t)
    BY <1>1, <1>2, <2>2, ReachedOn DEF was
  <2>3. CASE Clears(t)
    BY <1>1, <2>3, ReachedCleared DEF Busy, was
  <2> QED
    BY <2>1, <2>2, <2>3 DEF Outcome, AnswersOnly, CarriedOut, Busy
<1>5. ASSUME NEW u \in Task, Busy(u), Step(u), u # t, Untouched(t)
      PROVE  Reached(Targets(t), Req(t), Dst(t), was, remote'[t], hdfs')
  <2>1. Reached(Targets(t), Req(t), Dst(t), was, remote[t], hdfs')
    BY <1>1, <1>5, OthersElsewhere
  <2> QED
    BY <1>5, <2>1 DEF Untouched
<1> QED
  BY <1>1, <1>3, <1>4, <1>5, NextTouches DEF was

\* What it is to have been alone.
LEMMA WatchFacts ==
    ASSUME Watch, NEW t \in Task, seen'[t].alone
    PROVE  /\ Busy(t)' /\ ChangesSomething(t)' /\ \A u \in Task : ~Conflict(t, u)'
           /\ Busy(t) => seen[t].alone /\ seen'[t] = seen[t]
           /\ ~Busy(t) => seen'[t].before = Beside(t, hdfs)'
<1> DEFINE disturbed == \/ ~Busy(t)' \/ ~ChangesSomething(t)'
                        \/ Busy(t) /\ ~seen[t].alone
                        \/ \E u \in Task : Conflict(t, u)'
<1>1. seen'[t] = IF disturbed THEN Unseen
                 ELSE IF Busy(t) THEN seen[t]
                 ELSE [alone |-> TRUE, before |-> Beside(t, hdfs)']
  BY DEF Watch
<1>2. ~disturbed
  BY <1>1 DEF Unseen
<1>3. seen'[t] = IF Busy(t) THEN seen[t] ELSE [alone |-> TRUE, before |-> Beside(t, hdfs)']
  BY <1>1, <1>2
<1> QED
  BY <1>2, <1>3

LEMMA WatchedInv ==
    ASSUME HdfsInv, AppInv', [Next]_appVars, NEW t \in Task
    PROVE  Watched(t)'
<1> SUFFICES ASSUME seen'[t].alone PROVE Watched(t)'
  BY DEF Watched
<1>1. CASE UNCHANGED appVars
  <2>1. /\ Watched(t) /\ seen' = seen /\ remote' = remote /\ hdfs' = hdfs /\ config' = config
        /\ login' = login /\ username' = username
    BY <1>1 DEF HdfsInv, appVars, authVars, hdfsVars
  <2>2. \A u \in Task : Conflict(t, u)' <=> Conflict(t, u)
    BY <2>1 DEF Conflict, Busy, ChangesSomething, Targets, Src, Dst, UrlPath, Req
  <2>3. Busy(t) /\ Busy(t)'
    BY <2>1 DEF Watched, Busy
  <2>4. Req(t)' = Req(t) /\ Dst(t)' = Dst(t) /\ Targets(t)' = Targets(t)
    BY <2>3, BusyStays
  <2> QED
    BY <2>1, <2>2, <2>3, <2>4 DEF Watched, ChangesSomething
<1>2. CASE Next
  <2>1. /\ Busy(t)' /\ ChangesSomething(t)' /\ \A u \in Task : ~Conflict(t, u)'
        /\ Busy(t) => seen[t].alone /\ seen'[t] = seen[t]
        /\ ~Busy(t) => seen'[t].before = Beside(t, hdfs)'
    BY <1>2, WatchFacts DEF Next
  <2>2. CASE Busy(t)
    <3>1. Reached(Targets(t), Req(t), Dst(t), seen[t].before, remote'[t], hdfs')
      BY <2>1, <2>2, ReachedNext
    <3>2. Req(t)' = Req(t) /\ Dst(t)' = Dst(t) /\ Targets(t)' = Targets(t)
      BY <2>1, <2>2, BusyStays
    <3>3. Reached(Targets(t)', Req(t)', Dst(t)', seen'[t].before, remote'[t], hdfs')
      BY <2>1, <2>2, <3>1, <3>2
    <3> QED
      BY <2>1, <3>3 DEF Watched
  <2>3. CASE ~Busy(t)
    <3>1. Begins(t) /\ hdfs' = hdfs
      BY <2>1, <2>3, NextTouches DEF HdfsInv, Begins
    <3> DEFINE T == Targets(t)'
               b == Restrict(hdfs', {p \in DOMAIN hdfs' : \E q \in T : Related(p, q)})
    <3>2. seen'[t].before = b
      BY <2>1, <2>3 DEF Beside
    <3>3. DOMAIN hdfs' \subseteq Seq(Segment)
      BY <3>1 DEF HdfsInv, IsTree
    <3> HIDE DEF T
    <3>4. DOMAIN b \subseteq Seq(Segment) /\ SameUnder(T, hdfs', b) /\ Upper(T, b, hdfs')
      BY <3>3, BesideSame
    <3> HIDE DEF b
    <3>5. PICK r \in config.requests :
            remote'[t] = [at |-> FirstCall(r), request |-> r, parent_exists |-> FALSE,
                          file_exists |-> FALSE]
      BY <3>1 DEF Begins
    <3>6. remote'[t].at \notin {"dst_itself", "delete_dst", "rename"}
      <4>1. r.method \in Methods
        BY AppAssumption DEF Methods, AppInv, AuthInv, AuthTypeOK, HdfsInv
      <4> QED
        BY <3>5, <4>1 DEF FirstCall, Methods
    <3>7. \A r_, dst : Reached(T, r_, dst, b, remote'[t], hdfs')
      BY <3>4, <3>6 DEF Reached
    <3> QED
      BY <2>1, <3>2, <3>7 DEF Watched, T
  <2> QED
    BY <2>2, <2>3
<1> QED
  BY <1>1, <1>2

LEMMA NextIsTree ==
    ASSUME HdfsInv, [Next]_appVars
    PROVE  IsTree(hdfs)'
<1>1. CASE hdfs' = hdfs
  BY <1>1 DEF HdfsInv, IsTree, IsFolder
<1>2. ASSUME NEW u \in Task, Busy(u), Step(u) PROVE IsTree(hdfs)'
  <2>1. AppInv /\ IsTree(hdfs) /\ Underway(u)
    BY DEF HdfsInv
  <2>2. IsTree(hdfs')
    BY <1>2, <2>1, StepOutcome, OutcomeConfined
  <2> QED
    BY <2>2 DEF IsTree, IsFolder
<1> QED
  BY <1>1, <1>2, NextTouches DEF HdfsInv

\* The invariant holds at the beginning,
LEMMA InitHdfsInv == Init => HdfsInv
<1> SUFFICES ASSUME Init PROVE IsTree(hdfs) /\ \A t \in Task : Underway(t) /\ Watched(t)
  BY InitAppInv DEF HdfsInv
<1>1. IsTree(hdfs)
  BY AppAssumption DEF Init, InitAuth
<1>2. \A t \in Task : ~Busy(t) /\ ~seen[t].alone
  BY DEF Init, Busy, Unseen
<1> QED
  BY <1>1, <1>2 DEF Underway, Watched

\* and every step of the server keeps it.
LEMMA NextHdfsInv == HdfsInv /\ [Next]_appVars => HdfsInv'
<1> SUFFICES ASSUME HdfsInv, [Next]_appVars PROVE HdfsInv'
  OBVIOUS
<1>1. AppInv'
  BY NextAppInv DEF HdfsInv
<1>2. IsTree(hdfs)'
  BY NextIsTree
<1>3. \A t \in Task : Underway(t)' /\ Watched(t)'
  BY <1>1, UnderwayInv, WatchedInv
<1> QED
  BY <1>1, <1>2, <1>3 DEF HdfsInv

THEOREM HdfsInvAlways == Spec => []HdfsInv
  BY InitHdfsInv, NextHdfsInv, PTL DEF Spec

-----------------------------------------------------------------------------
(* What follows.                                                           *)

\* What changes is changed by a request that goes on, and is beside what it is about.
LEMMA ChangesAreOwn ==
    ASSUME HdfsInv, [Next]_appVars, NEW p \in Changed(hdfs, hdfs')
    PROVE  \E t \in Task :
             /\ remote'[t] # remote[t]
             /\ IF config.home_dir THEN p # << >> /\ p[1] = NameIn(login[t].header)
                ELSE \E q \in Targets(t) \intersect PermittedTo(login[t].header) : Related(p, q)
<1>1. hdfs' # hdfs
  BY DEF Changed
<1>2. PICK t \in Task : Busy(t) /\ Step(t)
  BY <1>1, NextTouches DEF HdfsInv
<1>3. AppInv /\ IsTree(hdfs) /\ Underway(t)
  BY DEF HdfsInv
<1>4. IsTree(hdfs') /\ Confined(Targets(t), hdfs, hdfs') /\ remote'[t] # remote[t]
  BY <1>1, <1>2, <1>3, StepOutcome, OutcomeConfined
<1>5. p \in DOMAIN hdfs \union DOMAIN hdfs' /\ p \in Seq(Segment)
  BY <1>3, <1>4 DEF Changed, IsTree
<1>6. Under(Targets(t), p) \/ (p \notin DOMAIN hdfs /\ \E q \in Targets(t) : IsPrefix(p, q))
  BY <1>4, <1>5 DEF Confined, Changed
<1>7. PICK q \in Targets(t) : IsPrefix(q, p) \/ (p \notin DOMAIN hdfs /\ IsPrefix(p, q))
  BY <1>6 DEF Under
<1>8. ASSUME config.home_dir PROVE p # << >> /\ p[1] = NameIn(login[t].header)
  <2>1. q \in Seq(Segment) /\ q # << >> /\ q[1] = NameIn(login[t].header)
    BY <1>2, <1>3, <1>8, PathsOfRequest
  <2>2. CASE IsPrefix(q, p)
    <3>1. /\ Len(q) \in Nat /\ Len(q) # 0 /\ Len(q) <= Len(p)
          /\ \A i \in 1 .. Len(q) : q[i] = p[i]
      BY <1>5, <2>1, <2>2, PrefixBySegment
    <3>2. 1 \in 1 .. Len(q)
      BY <3>1
    <3>3. p # << >>
      BY <3>1
    <3> QED
      BY <2>1, <3>1, <3>2, <3>3
  <2>3. CASE p \notin DOMAIN hdfs /\ IsPrefix(p, q)
    <3>1. p # << >>
      BY <1>3, <2>3 DEF IsTree, IsFolder
    <3>2. Len(p) \in Nat /\ Len(p) # 0 /\ \A i \in 1 .. Len(p) : p[i] = q[i]
      BY <1>5, <2>1, <2>3, <3>1, PrefixBySegment
    <3>3. 1 \in 1 .. Len(p)
      BY <3>2
    <3> QED
      BY <2>1, <3>1, <3>2, <3>3
  <2> QED
    BY <1>7, <2>2, <2>3
<1>9. ~config.home_dir => q \in PermittedTo(login[t].header) /\ Related(p, q)
  BY <1>2, <1>3, <1>7 DEF Underway, Related
<1> QED
  BY <1>4, <1>8, <1>9

\* A request ends by a step of its own.
LEMMA EndsByStep ==
    ASSUME HdfsInv, [Next]_appVars, NEW t \in Task, Ends(t), seen[t].alone
    PROVE  /\ AppInv /\ IsTree(hdfs) /\ Busy(t) /\ Underway(t) /\ ChangesSomething(t)
           /\ Reached(Targets(t), Req(t), Dst(t), seen[t].before, remote[t], hdfs)
           /\ Outcome(t) /\ remote'[t] = NotBusy
<1>1. /\ AppInv /\ IsTree(hdfs) /\ Underway(t) /\ Busy(t) /\ remote'[t] = NotBusy
      /\ ChangesSomething(t)
      /\ Reached(Targets(t), Req(t), Dst(t), seen[t].before, remote[t], hdfs)
  BY DEF HdfsInv, Watched, Ends
<1>2. Step(t)
  BY <1>1, NextTouches DEF Untouched, Busy
<1> QED
  BY <1>1, <1>2, StepOutcome

LEMMA SuccessStep ==
    ASSUME HdfsInv, [Next]_appVars, NEW t \in Task, Ends(t), seen[t].alone,
           reply' \in 200 .. 299, CanMove(t)
    PROVE  Done(t, seen[t].before, Owned(t, hdfs'))
  BY EndsByStep, SuccessMeansDone

LEMMA ErrorStep ==
    ASSUME HdfsInv, [Next]_appVars, NEW t \in Task, Ends(t), seen[t].alone, reply' \in 400 .. 499
    PROVE  \/ Owned(t, hdfs') = Owned(t, seen[t].before)
           \/ /\ Req(t).method = "MOVE" /\ Req(t).overwrite /\ reply' = RefusedStatus
              /\ Owned(t, hdfs') = Owned(t, Without(seen[t].before, Dst(t)))
<1>1. \/ SameUnder(Targets(t), hdfs', seen[t].before)
      \/ /\ Req(t).method = "MOVE" /\ Req(t).overwrite /\ reply' = RefusedStatus
         /\ SameUnder(Targets(t), hdfs', Without(seen[t].before, Dst(t)))
  BY EndsByStep, ErrorMeansNothing
<1> QED
  BY <1>1, OwnedSame

LEMMA MoveStep ==
    ASSUME HdfsInv, [Next]_appVars, NEW t \in Task, Busy(t), Req(t).method = "MOVE", seen[t].alone,
           Src(t) = Dst(t) \/ ~Related(Src(t), Dst(t))
    PROVE  LET was == seen[t].before
               isAt(path) == \A p \in Tree(was, Src(t)) :
                               LET q == path \o GetChild(p, Src(t))
                               IN  q \in DOMAIN hdfs' /\ hdfs'[q] = was[p]
           IN  isAt(Src(t)) \/ isAt(Dst(t)) \/ isAt(Append(Dst(t), Name(Src(t))))
<1> DEFINE was == seen[t].before
<1>1. /\ AppInv /\ IsTree(hdfs) /\ Underway(t) /\ ChangesSomething(t)
      /\ \A u \in Task : ~Conflict(t, u) /\ Underway(u)
      /\ Reached(Targets(t), Req(t), Dst(t), was, remote[t], hdfs)
  BY DEF HdfsInv, Watched
<1> HIDE DEF was
<1>2. CASE hdfs' = hdfs
  BY <1>1, <1>2, ReachedKeeps DEF was
<1>3. CASE Step(t)
  BY <1>1, <1>3, StepOutcome, OutcomeKeeps DEF was
<1>4. ASSUME NEW u \in Task, Busy(u), Step(u), u # t
      PROVE  \A p \in Tree(was, Src(t)) :
               LET q == Src(t) \o GetChild(p, Src(t)) IN q \in DOMAIN hdfs' /\ hdfs'[q] = was[p]
  <2>1. Reached(Targets(t), Req(t), Dst(t), was, remote[t], hdfs')
    BY <1>1, <1>4, OthersElsewhere
  <2> QED
    BY <1>1, <2>1, ReachedKeeps
<1> QED
  BY <1>1, <1>2, <1>3, <1>4, NextTouches DEF was

\* Whatever changes in HDFS, a request changes it whose user owns that home directory,
\* or that is permitted it: for every interleaving of requests and every lost call.
THEOREM ChangesOnlyOwnAlways == Spec => ChangesOnlyOwn
<1>1. HdfsInv /\ [Next]_appVars =>
        [\A p \in Changed(hdfs, hdfs') : \E t \in Task :
           /\ remote'[t] # remote[t]
           /\ IF config.home_dir THEN p # << >> /\ p[1] = NameIn(login[t].header)
              ELSE \E q \in Targets(t) \intersect PermittedTo(login[t].header) : Related(p, q)]_appVars
  BY ChangesAreOwn
<1> QED
  BY <1>1, HdfsInvAlways, PTL DEF Spec, ChangesOnlyOwn

\* A success means that the calls together have done what the request asked for: of an MKCOL,
\* a DELETE, a PUT (of the part that came, if its client left), and of a MOVE whose source
\* was there and whose destination could take it, whatever HDFS's RENAME does of others.
THEOREM SuccessIsDoneAlways == Spec => SuccessIsDone
<1>1. HdfsInv /\ [Next]_appVars =>
        [\A t \in Task : Ends(t) /\ seen[t].alone /\ reply' \in 200 .. 299 /\ CanMove(t) =>
           Done(t, seen[t].before, Owned(t, hdfs'))]_appVars
  BY SuccessStep
<1> QED
  BY <1>1, HdfsInvAlways, PTL DEF Spec, SuccessIsDone

\* An error means that they have done nothing, or cleared the destination of a MOVE.
THEOREM ErrorOnlyClearsAlways == Spec => ErrorOnlyClears
<1>1. HdfsInv /\ [Next]_appVars =>
        [\A t \in Task : Ends(t) /\ seen[t].alone /\ reply' \in 400 .. 499 =>
           \/ Owned(t, hdfs') = Owned(t, seen[t].before)
           \/ /\ Req(t).method = "MOVE" /\ Req(t).overwrite /\ reply' = RefusedStatus
              /\ Owned(t, hdfs') = Owned(t, Without(seen[t].before, Dst(t)))]_appVars
  BY ErrorStep
<1> QED
  BY <1>1, HdfsInvAlways, PTL DEF Spec, ErrorOnlyClears

\* What a MOVE moves is whole at its source, at its destination or in it at every call.
THEOREM MoveKeepsSourceAlways == Spec => MoveKeepsSource
<1>1. HdfsInv /\ [Next]_appVars =>
        [\A t \in Task :
           /\ Busy(t) /\ Req(t).method = "MOVE" /\ seen[t].alone
           /\ Src(t) = Dst(t) \/ ~Related(Src(t), Dst(t))
           => LET was == seen[t].before
                  isAt(path) == \A p \in Tree(was, Src(t)) :
                                  LET q == path \o GetChild(p, Src(t))
                                  IN  q \in DOMAIN hdfs' /\ hdfs'[q] = was[p]
              IN  isAt(Src(t)) \/ isAt(Dst(t)) \/ isAt(Append(Dst(t), Name(Src(t))))]_appVars
  BY MoveStep
<1> QED
  BY <1>1, HdfsInvAlways, PTL DEF Spec, MoveKeepsSource
===============================================================================
