-------------------------------- MODULE DAVApp --------------------------------
(***************************************************************************)
(* Requests from their Authorization header to their answer (class DAVApp  *)
(* of server.py), at a server that maps a WebHDFS provider: each is looked *)
(* at by DAVAuth, distributed by its user's permissions, and served by     *)
(* WebHDFSProvider; at every point at which one waits the others go on.    *)
(***************************************************************************)
EXTENDS WebHDFSProvider

\* A tree: whatever is there is in folders all the way up to the root.
IsTree(fs) ==
    /\ fs = [p \in DOMAIN fs |-> fs[p]] /\ DOMAIN fs \subseteq Seq(Segment)
    /\ IsFolder(fs, << >>)
    /\ \A p \in DOMAIN fs : \A q \in Above(p) : IsFolder(fs, q)

ASSUME AppAssumption ==
    /\ UserName \subseteq Segment    \* a home directory has the name of its user
    /\ \A c \in Configs :
         /\ \A fs \in c.stores : IsTree(fs)
         /\ \A r \in c.requests :
              /\ r.method \in {"MKCOL", "PROPPATCH", "DELETE", "PUT", "HEAD", "COPY", "MOVE"}
              /\ r.path \in Path /\ (r.method \in {"COPY", "MOVE"} => r.dst \in Path)
              \* do_move: the destination is below the prefix of the provider.
              /\ r.method = "MOVE" => r.overwrite \in BOOLEAN /\ r.dst # << >>
              \* Bound: HDFS keeps its root, whoever deletes it.
              /\ c.home_dir \/ r.method # "DELETE" \/ r.path # << >>

VARIABLE
    seen  \* history: what a request found, if it has been alone with it since

appVars == << authVars, hdfsVars, seen >>

-----------------------------------------------------------------------------
(* What a property says of a request: whether any other in progress with   *)
(* it touches what it is about, and what was there when it began.          *)

Related(path, other) == IsPrefix(path, other) \/ IsPrefix(other, path)
\* A PROPPATCH stores nothing, and a COPY is not implemented.
ChangesSomething(t) == Req(t).method \in {"MKCOL", "DELETE", "PUT", "MOVE"}

Conflict(t, u) ==
    /\ Busy(t) /\ Busy(u) /\ t # u
    /\ ChangesSomething(t) /\ ChangesSomething(u)
    /\ \E p \in Targets(t), q \in Targets(u) : Related(p, q)

Beside(t, fs) == Restrict(fs, {p \in DOMAIN fs : \E q \in Targets(t) : Related(p, q)})
Owned(t, fs) == Restrict(fs, {p \in DOMAIN fs : \E q \in Targets(t) : IsPrefix(q, p)})

Unseen == [alone |-> FALSE]

Watch ==
    seen' = [t \in Task |->
               IF \/ ~Busy(t)' \/ ~ChangesSomething(t)'
                  \/ Busy(t) /\ ~seen[t].alone
                  \/ \E u \in Task : Conflict(t, u)'
               THEN Unseen
               ELSE IF Busy(t) THEN seen[t]
               ELSE [alone |-> TRUE, before |-> Beside(t, hdfs)']]

-----------------------------------------------------------------------------
Init ==
    /\ InitAuth
    /\ hdfs \in config.stores
    /\ remote = [t \in Task |-> NotBusy]
    /\ reply = 0
    /\ seen = [t \in Task |-> Unseen]

FirstCall(r) ==
    CASE r.method \in {"MKCOL", "PROPPATCH", "DELETE", "PUT"} -> "parent"
      [] r.method = "HEAD" -> "head"
      [] r.method = "COPY" -> "copy"
      [] r.method = "MOVE" -> "dst_parent"

\* DAVUser.check_paths_permission
MayPass(user, r) ==
    {r.path} \union (IF r.method \in {"COPY", "MOVE"} THEN {r.dst} ELSE {})
        \subseteq config.accounts[user[1]].permissions

\* WebDAV.distribute: without home directories the user's permissions decide.
Distribute(t, r) ==
    /\ At(t, "accepted") /\ ~Busy(t)
    /\ IF config.home_dir \/ MayPass(login[t].user, r)
       THEN /\ remote' = [remote EXCEPT ![t] = [at |-> FirstCall(r), request |-> r,
                                                parent_exists |-> FALSE, file_exists |-> FALSE]]
            /\ UNCHANGED << login, reply >>
       ELSE /\ reply' = IF config.accounts[login[t].user[1]].anonymous THEN 401 ELSE 403
            /\ Refuse(t)
            /\ UNCHANGED remote
    /\ UNCHANGED << environment, username, cache, hdfs >>

\* DAVApp.handle: a message of pick_out_user is a 401, what it raises a 500.
Raises(t) == Arrived(t, "undecodable") \/ LdapFails(t)

Login(t) ==
    /\ PickOutUser(t)
    /\ reply' = IF login'[t] # Idle THEN reply ELSE IF Raises(t) THEN 500 ELSE 401
    /\ UNCHANGED << hdfs, remote >>

Serve(t) ==
    /\ Busy(t) /\ Step(t)
    /\ IF Busy(t)' THEN UNCHANGED authVars ELSE Leave(t)

Next ==
    /\ \/ \E t \in Task : \/ \E header \in config.headers : Arrive(t, header) /\ UNCHANGED hdfsVars
                          \/ Login(t)
                          \/ \E r \in config.requests : Distribute(t, r)
                          \/ Serve(t)
       \/ \E name \in Entry, password \in config.passwords :
             ChangePassword(name, password) /\ UNCHANGED hdfsVars
       \/ Tick /\ UNCHANGED hdfsVars
    /\ Watch

Spec == Init /\ [][Next]_appVars

-----------------------------------------------------------------------------
\* Whose name a header gives.
NameIn(header) ==
    CASE header.type = "Basic" -> header.credential.name
      [] header.type = "Digest" -> header.name
      [] OTHER -> config.anonymous

\* What the account of that name, or the fallback, is permitted.
PermittedTo(header) ==
    LET name == NameIn(header)
    IN  config.accounts[IF name \in DOMAIN config.accounts THEN name ELSE Fallback].permissions

Changed(fs, new) ==
    {p \in DOMAIN fs \union DOMAIN new :
        p \notin DOMAIN fs \/ p \notin DOMAIN new \/ fs[p] # new[p]}

\* Whatever changes in HDFS, some request changes it whose header names the owner of
\* that home directory; without home directories, one that is permitted the resource
\* it is about, of which what changes is a part, or a folder above.
ChangesOnlyOwn ==
    [][\A p \in Changed(hdfs, hdfs') : \E t \in Task :
         /\ remote'[t] # remote[t]
         /\ IF config.home_dir THEN p # << >> /\ p[1] = NameIn(login[t].header)
            ELSE \E q \in Targets(t) \intersect PermittedTo(login[t].header) : Related(p, q)]_appVars

Ends(t) == Busy(t) /\ remote'[t] = NotBusy

\* The tree of a source, at a destination.
Moved(fs, src, dst) ==
    [q \in {dst \o GetChild(p, src) : p \in Tree(fs, src)} |-> fs[src \o GetChild(q, dst)]]

\* What a request is to leave there of what it is about: a PUT its body, or, when its client
\* has gone before the end, the part that has come; a MOVE its source at the destination,
\* and nothing at its source.
Done(t, was, left) ==
    CASE Req(t).method = "MKCOL" -> left = Owned(t, PutAt(was, Src(t), Folder))
      [] Req(t).method = "DELETE" -> left = Owned(t, Without(was, Src(t)))
      [] Req(t).method = "PUT" ->
           \E what \in {Req(t).body, Part} : left = Owned(t, PutAt(was, Src(t), what))
      [] Req(t).method = "MOVE" -> left = Moved(was, Src(t), Dst(t))

\* What the code does not ask of a MOVE, and nothing is promised of one without: a source
\* that is there, a destination neither below it nor above it, nor below a file, and that
\* it was not refused the look at its destination, and so mistook it for missing.
CanMove(t) ==
    Req(t).method = "MOVE" =>
        /\ Src(t) \in DOMAIN seen[t].before /\ ~Related(Src(t), Dst(t))
        /\ CanHold(seen[t].before, Dst(t))
        /\ remote[t].file_exists = (Dst(t) \in DOMAIN seen[t].before)

\* An MKCOL, DELETE, PUT or MOVE that no other in progress with it disturbs, and that is
\* answered with success, has done in its calls the whole of what it is to do, and no more;
\* of a MOVE, if CanMove.  A PROPPATCH is not among them: it stores nothing whatever it is
\* answered.
SuccessIsDone ==
    [][\A t \in Task : Ends(t) /\ seen[t].alone /\ reply' \in 200 .. 299 /\ CanMove(t) =>
         Done(t, seen[t].before, Owned(t, hdfs'))]_appVars

\* One that is refused (answered 4xx) has left everything as it was; but for a MOVE that
\* was to overwrite: of its destination nothing may be left.  Of the 500 of a lost call,
\* which may have been carried out, this is not promised.
ErrorOnlyClears ==
    [][\A t \in Task : Ends(t) /\ seen[t].alone /\ reply' \in 400 .. 499 =>
         \/ Owned(t, hdfs') = Owned(t, seen[t].before)
         \/ /\ Req(t).method = "MOVE" /\ Req(t).overwrite /\ reply' = RefusedStatus
            /\ Owned(t, hdfs') = Owned(t, Without(seen[t].before, Dst(t)))]_appVars

\* At every call of a MOVE, also when one is refused or lost, what is moved is whole
\* at its source, or at its destination, or in it, when it is a folder that HDFS refused to
\* show; but for a MOVE onto a folder above its source, or onto what is in it, which are
\* deleted together.
MoveKeepsSource ==
    [][\A t \in Task :
         /\ Busy(t) /\ Req(t).method = "MOVE" /\ seen[t].alone
         /\ Src(t) = Dst(t) \/ ~Related(Src(t), Dst(t))
         => LET was == seen[t].before
                isAt(path) == \A p \in Tree(was, Src(t)) :
                                LET q == path \o GetChild(p, Src(t))
                                IN  q \in DOMAIN hdfs' /\ hdfs'[q] = was[p]
            IN  isAt(Src(t)) \/ isAt(Dst(t)) \/ isAt(Append(Dst(t), Name(Src(t))))]_appVars
===============================================================================
