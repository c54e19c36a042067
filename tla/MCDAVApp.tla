------------------------------- MODULE MCDAVApp -------------------------------
(* Small instances of DAVApp.  Cached: one user of the LDAP fallback, whose      *)
(* password changes, and every cache.  Homes: two users of the fallback with a   *)
(* home directory each.  Shared: every request that changes something, without    *)
(* home directories.  Logins: every kind of account and header.                 *)
EXTENDS DAVApp, TLC

CONSTANTS a, b, u1, u2, raw, hashed, digest, star, bound

MCPath == {<< >>, <<a>>, <<b>>, <<a, a>>, <<b, a>>}
MCUserName == {u1, u2, raw, hashed, digest, star, bound}
MCSegment == {a, b} \union MCUserName
Everything == MCPath

Account(password, permissions, anonymous) ==
    [password |-> password, permissions |-> permissions, anonymous |-> anonymous]
Ldap(version) == [type |-> "LDAP", version |-> version, name |-> u1]

FallbackOnly == star :> Account(Ldap(2), Everything, FALSE)
AllKinds ==
    (raw :> Account([type |-> "RAW", secret |-> "x"], Everything, FALSE))
    @@ (hashed :> Account([type |-> "HASHLIB", secret |-> "x"], {<<a>>}, TRUE))
    @@ (digest :> Account([type |-> "DIGEST", ha1 |-> <<digest, "x">>], {<<b>>}, FALSE))
    @@ (bound :> Account(Ldap(1), {<<a>>, <<b>>}, FALSE))
    @@ (u2 :> Account([type |-> "INVALID"], Everything, FALSE))

Basic(name, password) == [type |-> "Basic", credential |-> [name |-> name, password |-> password]]
Digest(name, password) ==
    [type |-> "Digest", name |-> name, complete |-> TRUE, ha1 |-> <<name, password>>]
NoHeader == [type |-> "none"]
Unusable == [type |-> "unusable"]
Undecodable == [type |-> "undecodable"]

On(method, path) == [method |-> method, path |-> path]
Move(path, dst, overwrite) == On("MOVE", path) @@ [dst |-> dst, overwrite |-> overwrite]
PutOf(path) == On("PUT", path) @@ [body |-> "new"]

Root == << >> :> Folder
HomeStores == {Root @@ (<<u1>> :> Folder) @@ (<<u1, a>> :> "old") @@ (<<u2>> :> Folder)}
Stores ==
    {Root @@ (<<a>> :> Folder) @@ (<<a, a>> :> "old"),
     Root @@ (<<a>> :> Folder) @@ (<<a, a>> :> "old") @@ (<<b>> :> "other")}

CachedBy(type, timeout) ==
    [accounts |-> FallbackOnly, anonymous |-> NoName, cache_type |-> type, cache_timeout |-> timeout,
     headers |-> {Basic(u1, "x"), Basic(u1, "y")}, passwords |-> {"x", "y"},
     home_dir |-> TRUE, requests |-> {On("HEAD", <<a>>)}, stores |-> HomeStores]

Cached ==
    {CachedBy("BYPASS", 0), CachedBy("MEMORY", 0)}
    \union {CachedBy("EXPIRING", timeout) : timeout \in {-1, 0, 1, 2}}

Homes ==
    {[CachedBy("MEMORY", 0) EXCEPT !.headers = {Basic(u1, "x"), Basic(u2, "x")}, !.passwords = {"x"},
                                   !.requests = {PutOf(<<a>>), On("DELETE", <<a>>), On("DELETE", << >>)}]}

Shared ==
    [accounts : {AllKinds}, anonymous : {hashed}, cache_type : {"BYPASS"}, cache_timeout : {0},
     headers : {{NoHeader, Basic(raw, "x")}}, passwords : {{"x"}}, home_dir : {FALSE},
     requests : {{PutOf(<<a>>), PutOf(<<b, a>>), On("MKCOL", <<b>>), On("DELETE", <<a>>),
                  Move(<<a>>, <<b>>, TRUE), Move(<<a>>, <<b>>, FALSE), Move(<<a>>, <<a>>, TRUE),
                  Move(<<a>>, <<a, a>>, TRUE), Move(<<a, a>>, <<a>>, TRUE)}},
     stores : {Stores}]

\* Every header, and the requests that change nothing.
Logins ==
    [accounts : {AllKinds}, anonymous : {NoName, hashed}, cache_type : {"BYPASS"}, cache_timeout : {0},
     headers : {{NoHeader, Unusable, Undecodable, Basic(raw, "x"), Basic(raw, "y"), Basic(hashed, "x"),
                 Basic(digest, "x"), Basic(bound, "x"), Basic(u1, "x"), Basic(u2, "x"), Digest(raw, "x"),
                 Digest(digest, "y"), [Digest(raw, "x") EXCEPT !.complete = FALSE]}},
     passwords : {{"x"}}, home_dir : {FALSE},
     requests : {{On("HEAD", <<a>>), On("PROPPATCH", <<a>>), On("COPY", <<a>>) @@ [dst |-> <<b>>]}},
     stores : {HomeStores}]

MCConfigs == Cached \union Homes \union Shared \union Logins
MCHeaders == UNION {c.headers : c \in MCConfigs}
TaskSymmetry == Permutations(Task)

(* What is old does not get older, and where nothing expires no time matters. *)
Expires == Lifetime # Forever /\ Lifetime # 0
Age(time, most) == IF time = Never THEN Never
                   ELSE IF Lifetime = Forever \/ now - time > most THEN most
                   ELSE now - time

AppView ==
    << config, username, hdfs, remote, seen, directory,
       [c \in DOMAIN cache |-> << cache[c].user, Age(cache[c].time, Lifetime) >>],
       [t \in Task |-> [f \in DOMAIN login[t] |->
           IF f = "begun" THEN Age(login[t].begun, CheckTime) ELSE login[t][f]]],
       [c \in Credential |-> IF IsRight(c) THEN 0 ELSE Age(last_right[c], MaxAge + 1)],
       \* always TRUE, but TLC has looked at every value before it stores the state
       cache = cache /\ last_right = last_right >>
===============================================================================
