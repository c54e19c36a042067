----------------------------- MODULE MCFileSystem -----------------------------
(* A small instance of FileSystemPromises: two folders (or files) a and b with *)
(* a member each.                                                              *)
EXTENDS FileSystemPromises

CONSTANTS a, b, k1, v1, none

MCSegment == {a, b}
MCPath == {<<a>>, <<b>>, <<a, a>>, <<b, a>>}

On(method, path) == [method |-> method, path |-> path]
Transfer(method, depth, overwrite) ==
    On(method, <<a>>) @@ [dst |-> <<b>>, depth |-> depth, overwrite |-> overwrite]

MCRequests ==
    { On("MKCOL", <<a>>), On("DELETE", <<a>>), On("DELETE", <<b>>),
      On("GET", <<a>>),
      On("PUT", <<a>>) @@ [body |-> "new"], On("PUT", <<a, a>>) @@ [body |-> "new"],
      On("PROPPATCH", <<a>>) @@ [key |-> k1, value |-> v1],
      Transfer("COPY", "INFINITY", TRUE), Transfer("COPY", "ZERO", FALSE),
      Transfer("MOVE", "INFINITY", TRUE), Transfer("MOVE", "INFINITY", FALSE) }

(* The names of file objects do not matter, only which names and tasks share one; *)
(* nor does what a request found, if it was not alone with it.                   *)
Sharing(object) ==
    IF object = NoFile THEN <<>>
    ELSE <<{n \in DOMAIN disk.entry : disk.entry[n] = object}, disk.data[object]>>

FSView ==
    <<Shown(disk, FileName),
      [t \in Task |-> [f \in DOMAIN task[t] |->
          CASE f = "object" -> Sharing(task[t].object)
            [] f = "before" /\ ~task[t].alone -> <<>>
            [] OTHER -> task[t][f]]]>>

TaskSymmetry == Permutations(Task)
=============================================================================
