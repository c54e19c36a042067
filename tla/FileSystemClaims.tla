--------------------------- MODULE FileSystemClaims ---------------------------
(***************************************************************************)
(* What a comment of provider/file_system.py says of MOVE.  It does not    *)
(* hold.                                                                   *)
(***************************************************************************)
EXTENDS FileSystemPromises

\* file_system.py:567-569: prior to a MOVE with Overwrite the destination is deleted,
\* so that nothing of it is left: the properties are those of the source.
OverwrittenIsDeleted ==
    [][\A t \in Task : Ends(t) /\ Req(t).method = "MOVE" /\ task[t].alone /\ reply'.status = 204 =>
         (Exists(disk', PropertiesPath(Req(t).dst))
            <=> PropertiesPath(Req(t).path) \in DOMAIN task[t].before)]_fsVars
=============================================================================
