--------------------------- MODULE MCMemoryProvider ---------------------------
(* Small instances of MemoryProvider: a collection with a member, a copy or    *)
(* move of it, and requests with and without the token of a lock.              *)
EXTENDS MemoryProvider

CONSTANTS a, b, x0, x1, t1

MCSegment == {a, b}
MCPath == {<<a>>, <<b>>, <<a, a>>, <<b, a>>}
MCEmpty == [body |-> "none", parts |-> 0]
MCContent == {MCEmpty} \union [body : {"new"}, parts : 1 .. MaxParts]
MCTimeoutHeader == {[type |-> "Second", value |-> 1]}

On(method, path) == [method |-> method, path |-> path, tokens |-> {}]

MCRequests ==
    { On("MKCOL", <<a>>), On("DELETE", <<a>>), On("DELETE", Root),
      On("PUT", <<a, a>>) @@ [body |-> "new"],
      [On("PUT", <<a, a>>) EXCEPT !.tokens = {t1}] @@ [body |-> "new"],
      On("PROPPATCH", <<a, a>>) @@ [extra |-> x0],
      On("COPY", <<a>>) @@ [dst |-> <<b>>, depth |-> "INFINITY", overwrite |-> TRUE],
      On("MOVE", <<a>>) @@ [dst |-> <<b>>, overwrite |-> TRUE] }

(* For the liveness property: one resource, which is a file, a folder or not there. *)
OnePath == {<<a>>}
OneRequests == {On("MKCOL", <<a>>), On("DELETE", <<a>>), On("GET", <<a>>), On("PUT", <<a>>) @@ [body |-> "new"]}

(* The last responses do not matter to what comes next, nor the names of the *)
(* property objects.                                                         *)
ProviderView ==
    <<[p \in DOMAIN fs.data |->
         LET node == fs.data[p]
         IN  <<node.is_file, node.content, node.children, fs.props[node.props],
               {q \in DOMAIN fs.data : fs.data[q].props = node.props}>>],
      now, keeperVars, call, task, fs_lock>>
=============================================================================
