----------------------- MODULE MCMemoryProviderClaims -----------------------
(* The instance of MCMemoryProvider, for the claims. *)
EXTENDS MemoryProviderClaims

CONSTANTS a, b, x0, x1, t1

MCSegment == {a, b}
MCPath == {<<a>>, <<b>>, <<a, a>>, <<b, a>>}
MCEmpty == [body |-> "none", parts |-> 0]
MCContent == {MCEmpty} \union [body : {"new"}, parts : 1 .. MaxParts]
MCTimeoutHeader == {[type |-> "Second", value |-> 1]}

On(method, path) == [method |-> method, path |-> path, tokens |-> {}]

LockedRequests ==
    { On("MKCOL", <<a>>), On("DELETE", <<a>>),
      On("PUT", <<a, a>>) @@ [body |-> "new"],
      [On("PUT", <<a, a>>) EXCEPT !.tokens = {t1}] @@ [body |-> "new"],
      On("COPY", <<a>>) @@ [dst |-> <<b>>, depth |-> "INFINITY", overwrite |-> TRUE],
      On("MOVE", <<a>>) @@ [dst |-> <<b>>, overwrite |-> TRUE] }
=============================================================================
