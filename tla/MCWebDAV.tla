------------------------------- MODULE MCWebDAV -------------------------------
(* Small instances of WebDAV.  Two families of exchanges: every kind of GET of *)
(* files of 0 to 5 bytes at one provider; and a few requests to every mapping  *)
(* of up to three prefixes.  An empty file of WebHDFS has no piece to send and *)
(* no body: it is left out.                                                    *)
EXTENDS WebDAV, TLC

CONSTANTS a, b

MCSegment == {a, b}
MCPath == {<< >>, <<a>>, <<b>>, <<a, a>>, <<a, b>>}

Item(first, last) == [first |-> first, last |-> last]
File(size, compressible) == [kind |-> "file", size |-> size, compressible |-> compressible]
Folder == [kind |-> "folder", size |-> 0, compressible |-> FALSE]
Provider(prefix, type, home_dir, files) ==
    [prefix |-> prefix, type |-> type, home_dir |-> home_dir, files |-> files]

\* Every single range over 0 .. 6, and lists of two: the first of them
\* dropped, both kept, and one of them a suffix.
Headers ==
    {<< >>}
    \union {<< Item(x, y) >> : x \in Absent .. 6, y \in Absent .. 6}
    \union {<< Item(x, y), Item(1, 3) >> : x \in {0, 2}, y \in {1, 2, Absent}}
    \union {<< Item(1, 2), Item(Absent, 2) >>}

Request(method, path) ==
    [method |-> method, path |-> path, depth |-> "ZERO", body_is_parsed_success |-> TRUE,
     permissions |-> MCPath, anonymous |-> FALSE,
     ranges |-> << >>, if_range |-> "none", encodings |-> {}, browser |-> FALSE]

Gets ==
    {[Request("GET", <<a>>) EXCEPT !.ranges = header, !.if_range = if_range,
                                   !.encodings = encodings] :
        header \in Headers, if_range \in {"none", "matches", "differs"},
        encodings \in {{}, {"zstd"}, {"deflate", "gzip"}, {"gzip"}}}

Stores ==
    {Provider(<< >>, type, FALSE, (<< >> :> Folder) @@ (<<a>> :> File(size, compressible))) :
        type \in {"memory", "file_system"}, size \in 0 .. 5, compressible \in BOOLEAN}
    \union {Provider(<< >>, "webhdfs", FALSE, (<< >> :> Folder) @@ (<<a>> :> File(size, TRUE))) :
              size \in 1 .. 5}

\* A folder a with a member a, and b, below the prefix, as far as they are paths.
FilesBelow(prefix) ==
    [p \in {q \in {<< >>, <<a>>, <<b>>, <<a, a>>} : prefix \o q \in MCPath} |->
        IF p \in {<<b>>, <<a, a>>} THEN File(1, FALSE) ELSE Folder]

Providers ==
    {Provider(prefix, type, FALSE, FilesBelow(prefix)) :
        prefix \in {<< >>, <<a>>, <<a, b>>}, type \in {"memory", "file_system"}}
    \union {Provider(<< >>, "file_system", TRUE, FilesBelow(<< >>)),
            Provider(<<b>>, "memory", FALSE, << >> :> Folder),
            Provider(<<b>>, "unknown", FALSE, << >> :> Folder),
            Provider(<< >>, "webhdfs", FALSE, FilesBelow(<< >>)),
            Provider(<<a>>, "webhdfs", FALSE, FilesBelow(<<a>>)),
            Provider(<<b>>, "webhdfs", TRUE, (<< >> :> Folder) @@ (<<a>> :> File(1, FALSE)))}

MCHome == <<b, b>>

Mappings ==
    {m \in UNION {[1 .. n -> Providers] : n \in 1 .. 3} :
        \A i, j \in DOMAIN m : i # j => m[i].prefix # m[j].prefix}

Asked ==
    {[Request(method, path) EXCEPT !.depth = depth, !.permissions = permissions,
                                   !.anonymous = anonymous, !.browser = anonymous,
                                   !.body_is_parsed_success = parsed] :
        method \in {"GET", "PROPFIND"}, path \in MCPath,
        depth \in {"ZERO", "ONE", "INFINITY"}, anonymous \in BOOLEAN, parsed \in BOOLEAN,
        permissions \in {MCPath, MCPath \ {<<a>>}, MCPath \ {<<a, b>>, <<b>>}}}

MCExchanges ==
    [mapping : {<< s >> : s \in Stores}, request : Gets]
    \union [mapping : Mappings,
            request : {r \in Asked : /\ r.method = "GET" => r.depth = "ZERO"
                                     /\ r.method = "GET" => r.body_is_parsed_success
                                     /\ r.body_is_parsed_success \/ r.depth = "ZERO"}]
===============================================================================
