-------------------------- MODULE FileSystemPromises --------------------------
(***************************************************************************)
(* What each request to the file system provider is to do, as one step on  *)
(* what a client can see, and the properties of the provider.              *)
(***************************************************************************)
EXTENDS FileSystemProvider

Outcome(status, files) == [status |-> status, files |-> files]

\* What a tree and its properties become under another name.
Image(files, names, src, dst) ==
    LET there == names \intersect DOMAIN files
    IN  [n \in {RenamedTo(m, src, dst) : m \in there} |->
            files[CHOOSE m \in there : RenamedTo(m, src, dst) = n]]

Without(files, names) == Restrict(files, DOMAIN files \ names)
Resource(path) == Tree(path) \union {PropertiesPath(path)}

\* The outcomes a request may have on what it found.
Outcomes(r, was) ==
    LET has(p)    == Self(p) \in DOMAIN was
        folder(p) == has(p) /\ was[Self(p)].folder
        refused(status) == {Outcome(status, was)}
        file(data) == [folder |-> FALSE, data |-> data]
        props == PropertiesPath(r.path)
        patched == IF props \in DOMAIN was THEN was[props].data ELSE NoProperties
        copied == (IF r.depth = "ZERO" THEN {Self(r.path)} ELSE Tree(r.path)) \union {props}
    IN  CASE r.method = "GET" -> refused(IF has(r.path) THEN 200 ELSE 404)
          [] r.method = "MKCOL" ->
               IF has(r.path) THEN refused(405)
               \* 500 when what is above is not a folder, however far above.
               ELSE IF ~has(Parent(r.path)) THEN refused(409) \union refused(500)
               ELSE IF ~folder(Parent(r.path)) THEN refused(500)
               ELSE {Outcome(201, With(was, Self(r.path), [folder |-> TRUE]))}
          [] r.method = "DELETE" ->
               IF has(r.path) THEN {Outcome(204, Without(was, Resource(r.path)))} ELSE refused(404)
          [] r.method = "PUT" ->
               IF folder(r.path) THEN refused(405)
               ELSE IF ~folder(Parent(r.path)) THEN refused(409)
               ELSE refused(403) \union
                    {Outcome(201, With(was, Self(r.path), file([i \in 1 .. k |-> r.body]))) :
                       k \in 0 .. MaxParts}
          [] r.method = "PROPPATCH" ->
               IF has(r.path)
               THEN {Outcome(207, With(was, props, file([patched EXCEPT ![r.key] = r.value])))}
               ELSE refused(404)
          [] r.method \in {"COPY", "MOVE"} ->
               IF ~has(r.path) THEN refused(403)
               ELSE IF ~has(Parent(r.dst)) THEN refused(409)
               ELSE IF has(r.dst) /\ ~r.overwrite THEN refused(412)
               ELSE IF ~folder(Parent(r.dst)) THEN refused(500)
               ELSE IF r.method = "COPY"
               THEN {Outcome(Success(r), Updated(was, Image(was, copied, r.path, r.dst)))}
               ELSE {Outcome(Success(r),
                       Updated(Without(was, Tree(r.dst) \union Resource(r.path)),
                               Image(was, Resource(r.path), r.path, r.dst)))}

\* A COPY over a resource of the other kind, of which nothing is promised.
Clash(r, was) ==
    /\ r.method = "COPY"
    /\ {Self(r.path), Self(r.dst)} \subseteq DOMAIN was
    /\ was[Self(r.path)].folder # was[Self(r.dst)].folder

-----------------------------------------------------------------------------
FilesTypeOK ==
    /\ DOMAIN disk.entry \subseteq FileName
    /\ \A n \in DOMAIN disk.entry :
         /\ n # Self(Root) => IsDir(disk, Parent(n[1]))
         /\ disk.entry[n] # Folder => disk.entry[n] \in DOMAIN disk.data
    /\ \A t \in Task : task[t].object # NoFile => task[t].object \in DOMAIN disk.data

Ends(t) == Busy(t) /\ task'[t] = IdleTask

\* A request whose resources no request in progress beside it touches does what it is
\* to do, in all its calls as if in one step; whatever goes on elsewhere.
EachActsAlone ==
    [][\A t \in Task : Ends(t) /\ task[t].alone /\ ~Clash(Req(t), task[t].before) =>
         Outcome(reply'.status, Shown(disk', Scope(Req(t)))) \in Outcomes(Req(t), task[t].before)]_fsVars

\* A GET that no PUT, DELETE or MOVE of its file runs into sends what is in the file,
\* and as much as it said it would.
GetSendsTheFile ==
    [][\A t \in Task :
         LET get == task[t]
         IN  Ends(t) /\ Req(t).method = "GET" /\ get.alone /\ get.object # NoFile =>
               /\ reply'.sent = get.before[Self(Req(t).path)].data
               /\ reply'.length = Len(reply'.sent)]_fsVars

\* A request that is refused has changed nothing, whatever ran beside it: but for a
\* COPY of Depth 0 whose source goes between the look at it and the copy.
RefusedHasNotWritten ==
    [][\A t \in Task : Ends(t) /\ reply'.status \in 400 .. 499 /\ ~At(t, "copy_dir") =>
         ~reply'.wrote]_fsVars

\* At every call of a MOVE, and so wherever the server may stop, each member of the
\* source and each of its property files is at the source or at the destination.
MoveLosesNothing ==
    \A t \in Task : Busy(t) /\ Req(t).method = "MOVE" /\ task[t].alone =>
        LET r == Req(t)
            now == Shown(disk, Scope(r))
            is(n, file) == n \in DOMAIN now /\ now[n] = file
        IN  \A n \in Resource(r.path) \intersect DOMAIN task[t].before :
              is(n, task[t].before[n]) \/ is(RenamedTo(n, r.path, r.dst), task[t].before[n])
=============================================================================
