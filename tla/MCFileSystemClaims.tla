----------------------------- MODULE MCFileSystemClaims -----------------------------
(* The instance of MCFileSystem, for the claim: two folders (or files) a and b with *)
(* a member each.                                                              *)
EXTENDS FileSystemClaims

CONSTANTS a, b, k1, v1, none

MCSegment == {a, b}
MCPath == {<<a>>, <<b>>, <<a, a>>, <<b, a>>}

On(method, path) == [method |-> method, path |-> path]
Transfer(method, depth, overwrite) ==
    On(method, <<a>>) @@ [dst |-> <<b>>, depth |-> depth, overwrite |-> overwrite]

MCRequests ==
    { On("PROPPATCH", <<b>>) @@ [key |-> k1, value |-> v1],
      On("MKCOL", <<a>>), On("MKCOL", <<b>>), On("DELETE", <<a>>), On("DELETE", <<b>>),
      On("GET", <<a>>),
      On("PUT", <<a>>) @@ [body |-> "new"], On("PUT", <<a, a>>) @@ [body |-> "new"],
      On("PROPPATCH", <<a>>) @@ [key |-> k1, value |-> v1],
      Transfer("COPY", "INFINITY", TRUE), Transfer("COPY", "ZERO", FALSE),
      Transfer("MOVE", "INFINITY", TRUE), Transfer("MOVE", "INFINITY", FALSE) }

=============================================================================
