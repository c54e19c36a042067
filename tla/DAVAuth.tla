-------------------------------- MODULE DAVAuth --------------------------------
(***************************************************************************)
(* Who a request comes from (auth.py), with the cache of Basic credentials *)
(* (cache.py).  A password is checked on the spot, or by binding to an     *)
(* LDAP server: there the request waits, while other requests, the clock   *)
(* and the passwords at that server go on.                                 *)
(*                                                                         *)
(* Hashes are modelled as free of collisions: a digest is what it is of.   *)
(***************************************************************************)
EXTENDS Integers, Functions

CONSTANTS
    Task,       \* requests that may be in progress at a time
    UserName,   \* user names, and the distinguished names at the LDAP server
    Password,   \* the words clients send and directories hold
    Fallback,   \* the account "*ldap"
    NoName,     \* none of these names: no user, no entry to bind to
    Configs,    \* [accounts, anonymous, cache_type, cache_timeout], and what is to
                \* come: headers, and passwords at the LDAP server
    Headers,    \* the Authorization headers of requests
    Entry,      \* the names the LDAP server knows
    CheckTime   \* bound: the seconds an LDAP server may take to answer

Credential == [name : UserName, password : Password]

ASSUME AuthAssumption ==
    /\ Fallback \in UserName /\ NoName \notin UserName
    /\ Entry \subseteq UserName
    /\ CheckTime \in Nat
    /\ \A header \in Headers : header.type = "Basic" => header.credential \in Credential
    /\ \A c \in Configs :
         /\ c.cache_type \in {"BYPASS", "MEMORY", "EXPIRING"} /\ c.cache_timeout \in Int
         /\ c.headers \subseteq Headers /\ c.passwords \subseteq Password
         /\ DOMAIN c.accounts \subseteq UserName
         /\ c.anonymous \in DOMAIN c.accounts \union {NoName}
         /\ \A name \in DOMAIN c.accounts :
              LET p == c.accounts[name].password
              IN  p.type = "LDAP" /\ p.version = 1 => p.name \in UserName

VARIABLES
    config,      \* the configuration, which does not change
    username,    \* the name a user object carries
    cache,       \* HTTPBasicAuth._cache
    login,       \* how far pick_out_user has come with each request
    directory,   \* the passwords at the LDAP server
    now,         \* the clock, in seconds
    last_right   \* history: until when a credential that is wrong was right, or Never

authVars == << config, username, cache, login, directory, now, last_right >>

Never == -1

\* A user is an object: that of an account, or a copy of one for a credential.
NoCredential == [name |-> NoName, password |-> NoName]
User == UserName \X (Credential \union {NoCredential})
NoUser == << NoName, NoCredential >>
UserOf(account) == << account, NoCredential >>

-----------------------------------------------------------------------------
(* The cache                                                               *)

IsFresh(entry) ==
    \/ config.cache_type = "MEMORY"
    \/ config.cache_timeout < 0
    \/ now - entry.time < config.cache_timeout

\* A mutant: only the name of a user is looked up.
CacheGetByName(c) ==
    LET found == {d \in DOMAIN cache : d.name = c.name /\ IsFresh(cache[d])}
    IN  IF found = {} THEN NoUser ELSE cache[CHOOSE d \in found : TRUE].user

\* DAVCache*.get: the user, and the cache without an entry found too old.
CacheGet(c) ==
    IF c \in DOMAIN cache /\ IsFresh(cache[c]) THEN cache[c].user ELSE NoUser

CacheGot(c) ==
    IF CacheGet(c) = NoUser THEN Restrict(cache, DOMAIN cache \ {c}) ELSE cache

\* A mutant: the name is stored, not the user.
CacheSetName(c, user) ==
    [d \in DOMAIN cache \union {c} |-> IF d = c THEN [user |-> c.name, time |-> now] ELSE cache[d]]

\* DAVCache*.set: the time of an entry is the time it is stored.
CacheSet(c, user) ==
    IF config.cache_type = "BYPASS" THEN cache
    ELSE [d \in DOMAIN cache \union {c} |->
            IF d = c
            THEN [user |-> user, time |-> IF config.cache_type = "EXPIRING" THEN now ELSE 0]
            ELSE cache[d]]

-----------------------------------------------------------------------------
(* Users and passwords                                                     *)

\* A mutant: the template of the fallback itself is named and used.
UserForUncopied(c) ==
    IF c.name \in DOMAIN config.accounts THEN UserOf(c.name)
    ELSE IF Fallback \in DOMAIN config.accounts THEN UserOf(Fallback) ELSE NoUser

\* The account of that name, else a copy of the LDAP fallback.
UserFor(c) ==
    IF c.name \in DOMAIN config.accounts THEN UserOf(c.name)
    ELSE IF Fallback \in DOMAIN config.accounts THEN << Fallback, c >> ELSE NoUser

\* user.username = username, for who is not in the configuration.
Named(c) ==
    IF c.name \in DOMAIN config.accounts THEN username
    ELSE [username EXCEPT ![UserFor(c)] = c.name]

PasswordOf(user) == config.accounts[user[1]].password

\* Whom to bind as at the LDAP server, NoName if the password is not LDAP's.
BindName(user, name) ==
    LET p == PasswordOf(user)
    IN  IF p.type # "LDAP" THEN NoName
        ELSE CASE p.version = 1 -> p.name
               [] p.version = 2 -> name
               [] OTHER -> NoName

HashlibMatches(p, password) == p.secret = password
DigestMatches(p, name, password) == p.ha1 = << name, password >>

\* HTTPBasicAuth.check_password, where it does not wait.
CheckPassword(user, name, password) ==
    LET p == PasswordOf(user)
    IN  CASE p.type = "RAW" -> p.secret = password
          [] p.type = "HASHLIB" -> HashlibMatches(p, password)
          [] p.type = "DIGEST" -> DigestMatches(p, name, password)
          [] OTHER -> FALSE

\* HTTPDigestAuth.build_ha1_digest
Ha1(user) ==
    LET p == PasswordOf(user)
    IN  CASE p.type = "RAW" -> << username[user], p.secret >>
          [] p.type = "DIGEST" -> p.ha1
          [] OTHER -> << >>

\* The answer of the LDAP server.
Binds(dn, password) == dn \in Entry /\ directory[dn] = password

\* What a check would say of a credential now.
IsRight(c) ==
    LET user == UserFor(c)  dn == BindName(user, c.name)
    IN  /\ user # NoUser
        /\ IF dn # NoName THEN Binds(dn, c.password)
                          ELSE CheckPassword(user, c.name, c.password)

LastRight(c) == IF IsRight(c) THEN now ELSE last_right[c]

-----------------------------------------------------------------------------
Idle == [at |-> "idle"]
At(t, at) == login[t].at = at

InitAuth ==
    /\ config \in Configs
    /\ username = [user \in User |-> user[1]]
    /\ cache = << >>
    /\ login = [t \in Task |-> Idle]
    /\ directory \in [Entry -> config.passwords]
    /\ now = 0
    /\ last_right = [c \in Credential |-> Never]

environment == << config, directory, now, last_right >>

\* DAVAuth.pick_out_user returns a message ...
Refuse(t) == login' = [login EXCEPT ![t] = Idle]

\* ... or the request has its user.
Accept(t, user) ==
    login' = [login EXCEPT ![t] = [at |-> "accepted", header |-> login[t].header,
                                   user |-> user]]

\* A request that is to be looked at.
Arrive(t, header) ==
    /\ At(t, "idle")
    /\ login' = [login EXCEPT ![t] = [at |-> "arrived", header |-> header]]
    /\ UNCHANGED << environment, username, cache >>

Arrived(t, type) == At(t, "arrived") /\ login[t].header.type = type

\* No header at all: the anonymous user, if there is to be one.
PickOutAnonymous(t) ==
    /\ Arrived(t, "none")
    /\ IF config.anonymous = NoName THEN Refuse(t) ELSE Accept(t, UserOf(config.anonymous))
    /\ UNCHANGED << environment, username, cache >>

\* A header of another method, without a method, or that is no base64; or whose data are
\* no UTF-8: UnicodeDecodeError, which nothing catches.
PickOutNobody(t) ==
    /\ Arrived(t, "unusable") \/ Arrived(t, "undecodable")
    /\ Refuse(t)
    /\ UNCHANGED << environment, username, cache >>

\* Digest: what the client computed is compared with what the account gives.
PickOutDigest(t) ==
    /\ Arrived(t, "Digest")
    /\ LET header == login[t].header  user == UserOf(header.name)
       IN  IF /\ header.complete
              /\ header.name \in DOMAIN config.accounts
              /\ header.ha1 = Ha1(user)
           THEN Accept(t, user)
           ELSE Refuse(t)
    /\ UNCHANGED << environment, username, cache >>

\* Basic, with a credential that is in the cache.
PickOutCached(t) ==
    /\ Arrived(t, "Basic")
    /\ LET c == login[t].header.credential
       IN  /\ CacheGet(c) # NoUser
           /\ Accept(t, CacheGet(c))
    /\ UNCHANGED << environment, username, cache >>

\* ... with one that has to be checked: here, or by the LDAP server.
PickOutBasic(t) ==
    /\ Arrived(t, "Basic")
    /\ LET c == login[t].header.credential  user == UserFor(c)
       IN  /\ CacheGet(c) = NoUser
           /\ IF user = NoUser
              THEN /\ Refuse(t)
                   /\ cache' = CacheGot(c)
                   /\ UNCHANGED username
              ELSE /\ username' = Named(c)
                   /\ LET name == username'[user]  dn == BindName(user, name) IN
                        IF dn # NoName
                        THEN /\ login' = [login EXCEPT ![t] =
                                            [at |-> "binding", header |-> login[t].header,
                                             user |-> user, dn |-> dn, begun |-> now,
                                             verdict |-> FALSE]]
                             /\ cache' = CacheGot(c)
                        ELSE IF CheckPassword(user, name, c.password)
                        THEN Accept(t, user) /\ cache' = CacheSet(c, user)
                        ELSE Refuse(t) /\ cache' = CacheGot(c)
    /\ UNCHANGED environment

\* The LDAP server looks at the password; it may also refuse for its own reasons.
LdapAnswers(t) ==
    /\ At(t, "binding")
    /\ \E verdict \in {FALSE, Binds(login[t].dn, login[t].header.credential.password)} :
         login' = [login EXCEPT ![t].at = "bound", ![t].verdict = verdict]
    /\ UNCHANGED << environment, username, cache >>

\* check_password returns.
Checked(t) ==
    /\ At(t, "bound")
    /\ LET c == login[t].header.credential  user == login[t].user
       IN  IF login[t].verdict
           THEN Accept(t, user) /\ cache' = CacheSet(c, user)
           ELSE Refuse(t) /\ UNCHANGED cache
    /\ UNCHANGED << environment, username >>

\* bonsai raises something else; nothing catches it: the server answers 500.
LdapFails(t) ==
    /\ At(t, "binding")
    /\ Refuse(t)
    /\ UNCHANGED << environment, username, cache >>

PickOutUser(t) ==
    \/ PickOutAnonymous(t) \/ PickOutNobody(t) \/ PickOutDigest(t)
    \/ PickOutCached(t) \/ PickOutBasic(t)
    \/ LdapAnswers(t) \/ Checked(t) \/ LdapFails(t)

\* A password is changed at the LDAP server.
ChangePassword(name, password) ==
    /\ directory[name] # password
    /\ directory' = [directory EXCEPT ![name] = password]
    /\ last_right' = [c \in Credential |-> LastRight(c)]
    /\ UNCHANGED << config, username, cache, login, now >>

\* No check outlasts CheckTime.
Tick ==
    /\ \A t \in Task : login[t].at \in {"binding", "bound"} =>
                         now - login[t].begun < CheckTime
    /\ now' = now + 1
    /\ UNCHANGED << config, username, cache, login, directory, last_right >>

\* The request has been answered.
Leave(t) ==
    /\ login' = [login EXCEPT ![t] = Idle]
    /\ UNCHANGED << environment, username, cache >>

NextAuth ==
    \/ \E t \in Task : \/ \E header \in config.headers : Arrive(t, header)
                       \/ PickOutUser(t)
                       \/ At(t, "accepted") /\ Leave(t)
    \/ \E name \in Entry, password \in config.passwords : ChangePassword(name, password)
    \/ Tick

SpecAuth == InitAuth /\ [][NextAuth]_authVars

-----------------------------------------------------------------------------
\* What login may hold of a request.
LoginState ==
    {Idle}
    \union [at : {"arrived"}, header : Headers]
    \union [at : {"binding", "bound"}, header : Headers, user : User, dn : UserName,
            begun : Nat, verdict : BOOLEAN]
    \union [at : {"accepted"}, header : Headers, user : User]

\* The type invariant: what is cached is a user object and when it was stored, what is
\* known of a request is what pick_out_user knows of it at that point.
AuthTypeOK ==
    /\ config \in Configs
    /\ username \in [User -> UserName]
    /\ DOMAIN cache \subseteq Credential
    /\ cache \in [DOMAIN cache -> [user : User, time : Nat]]
    /\ login \in [Task -> LoginState]
    /\ directory \in [Entry -> Password]
    /\ now \in Nat
    /\ last_right \in [Credential -> Nat \union {Never}]

\* How long the configuration lets a check be relied upon.
Forever == -1
Lifetime ==
    CASE config.cache_type = "BYPASS" -> 0
      [] config.cache_type = "MEMORY" -> Forever
      [] OTHER -> IF config.cache_timeout < 0 THEN Forever ELSE config.cache_timeout

\* How long ago a credential that is accepted may have been wrong already.
MaxAge == CheckTime + (IF Lifetime = 0 THEN 0 ELSE Lifetime - 1)

Accepts(t, type) ==
    /\ ~At(t, "accepted") /\ login'[t].at = "accepted"
    /\ login[t].header.type = type

\* Whoever is let in with a Basic credential has shown one that was right, and, where
\* the cache expires, right within cache_timeout and the time one check takes: a
\* password that is changed does not open the server any longer than that, whatever
\* other requests with the same user or the same password are checked meanwhile.
AcceptedIsRecent ==
    [][\A t \in Task : Accepts(t, "Basic") =>
         LET c == login[t].header.credential
         IN  /\ LastRight(c) # Never
             /\ Lifetime # Forever => now - LastRight(c) <= MaxAge]_authVars

\* From its check to its end a request is that of the user its header names, also
\* when the account is the LDAP fallback's, and whoever else logs in by it meanwhile.
UserIsOneself ==
    \A t \in Task : At(t, "accepted") =>
        CASE login[t].header.type = "Basic" ->
               username[login[t].user] = login[t].header.credential.name
          [] login[t].header.type = "Digest" ->
               username[login[t].user] = login[t].header.name
          [] OTHER -> login[t].user = UserOf(config.anonymous)
===============================================================================
