----------------------------- MODULE DAVIfHeader -----------------------------
(***************************************************************************)
(* The If header of a request against the lock table: the check that PUT,  *)
(* PROPPATCH, COPY and MOVE make before they change anything               *)
(* (_check_request_ifs_with_res_paths of provider/common.py).              *)
(*                                                                         *)
(* The check calls the keeper once per resource and once per condition.    *)
(* Time passes between two calls, and at an ETag condition the handler may *)
(* suspend (a provider reads the ETag from a file system), so that other   *)
(* handlers run in the middle of the check.  `check` is the request that   *)
(* is being checked, with the local variables of the two methods.          *)
(***************************************************************************)
EXTENDS DAVLocking

CONSTANTS
    Etag,       \* the ETags a resource may have
    NoEtag,     \* a resource that is not mapped has none
    RequestIfs, \* parsed If headers: sequences of [res_path, conditions]
    ResPaths    \* the resources a request changes: sequences of paths

VARIABLES
    etag,   \* the ETag of the resource at each path
    check   \* the request being checked

checkVars == <<vars, etag, check>>

ConditionType == {"TOKEN", "ETAG", "NO_LOCK"}
Condition == [is_not : BOOLEAN, type : ConditionType,
              data : Token \union {BadToken, NoToken} \union Etag]
RequestIf == [res_path : Path, conditions : Seq(Seq(Condition))]

\* The parser leaves out a list without conditions, and a resource without lists.
ASSUME IfAssumption ==
    /\ NoEtag \notin Etag
    /\ ResPaths \subseteq Seq(Path) \ {<<>>}
    /\ RequestIfs \subseteq Seq(RequestIf)
    /\ \A ifs \in RequestIfs : \A i \in DOMAIN ifs :
         /\ ifs[i].conditions # <<>>
         /\ \A g \in DOMAIN ifs[i].conditions : ifs[i].conditions[g] # <<>>

NoCheck == [at |-> "none"]

\* The handler gave the event loop up: its file is being looked at, or it waits for
\* its turn to go on with what was read.
Suspended == check.at \in {"stat", "resume"}

\* Other handlers run when no check is being made, or while it is suspended.
OthersRun == check = NoCheck \/ Suspended

-----------------------------------------------------------------------------
(* Where the two loops over lists and conditions go on *)

CurrentIf == check.request_ifs[check.request_if]
CurrentCondition == CurrentIf.conditions[check.group][check.condition]

Done(ck) == [ck EXCEPT !.at = "done"]

\* One DAVRequestIf passed: its tokens are checked off, the next one is looked at.
PassedIf(ck) ==
    LET left == [ck EXCEPT !.unchecked = @ \ ck.checked, !.checked = {}]
    IN  IF ck.request_if < Len(ck.request_ifs)
        THEN [left EXCEPT !.request_if = @ + 1, !.group = 1, !.condition = 1]
        ELSE Done([left EXCEPT !.locked = left.unchecked # {}])

\* Mutant: the verdict of a list is kept when the next one is looked at.
KeepVerdict(ck) ==
    IF ~ck.locked /\ ~ck.failed
    THEN PassedIf(ck)
    ELSE IF ck.group < Len(ck.request_ifs[ck.request_if].conditions)
         THEN [ck EXCEPT !.group = @ + 1, !.condition = 1]
         ELSE Done(ck)

\* One list was looked at: any list will do; a failed one leaves its tokens checked.
EndOfGroup(ck) ==
    IF ~ck.locked /\ ~ck.failed
    THEN PassedIf(ck)
    ELSE IF ck.group < Len(ck.request_ifs[ck.request_if].conditions)
         THEN [ck EXCEPT !.group = @ + 1, !.condition = 1, !.locked = FALSE, !.failed = FALSE]
         ELSE Done(ck)

\* One condition was looked at: `stop` is the break out of the list.
EndOfCondition(ck, stop) ==
    IF ~stop /\ ck.condition < Len(ck.request_ifs[ck.request_if].conditions[ck.group])
    THEN [ck EXCEPT !.condition = @ + 1]
    ELSE EndOfGroup(ck)

-----------------------------------------------------------------------------
InitCheck ==
    /\ Init
    /\ etag \in [Path -> Etag \union {NoEtag}]
    /\ check = NoCheck

\* A request that changes the resources res_paths, with its If header.
Begin(ifs, res_paths) ==
    /\ NoneRunning
    /\ ~read_only
    /\ check = NoCheck
    /\ check' = [at |-> "collect", request_ifs |-> ifs, res_paths |-> res_paths, path |-> 1,
                 unchecked |-> {}, checked |-> {}, request_if |-> 1, group |-> 1,
                 condition |-> 1, locked |-> FALSE, failed |-> FALSE, etag |-> NoEtag,
                 ticked |-> FALSE, overtaken |-> FALSE]
    /\ UNCHANGED <<vars, etag>>

\* Mutant: the tokens of the last resource replace those of the one before.
CollectLast ==
    /\ check.at = "collect"
    /\ LET path == check.res_paths[check.path]
           ck   == [check EXCEPT !.unchecked = LockObjsFromPath(path)]
       IN  /\ GetLockObjsFromPath(path)
           /\ check' = IF check.path < Len(check.res_paths)
                       THEN [ck EXCEPT !.path = @ + 1]
                       ELSE IF check.request_ifs # <<>>
                            THEN [ck EXCEPT !.at = "condition"]
                            ELSE PassedIf(ck)
    /\ UNCHANGED <<now, read_only, call, reply, etag>>

\* The tokens of the locks that cover one of the resources.
Collect ==
    /\ check.at = "collect"
    /\ LET path == check.res_paths[check.path]
           ck   == [check EXCEPT !.unchecked = @ \union LockObjsFromPath(path)]
       IN  /\ GetLockObjsFromPath(path)
           /\ check' = IF check.path < Len(check.res_paths)
                       THEN [ck EXCEPT !.path = @ + 1]
                       ELSE IF check.request_ifs # <<>>
                            THEN [ck EXCEPT !.at = "condition"]
                            ELSE PassedIf(ck)
    /\ UNCHANGED <<now, read_only, call, reply, etag>>

\* Not <DAV:no-lock>: the resource must have a lock.
CheckNoLock ==
    /\ check.at = "condition" /\ CurrentCondition.type = "NO_LOCK"
    /\ LET none == LockObjsFromPath(CurrentIf.res_path) = {}
       IN  IF CurrentCondition.is_not
           THEN /\ GetLockObjsFromPath(CurrentIf.res_path)
                /\ check' = EndOfCondition([check EXCEPT !.locked = @ \/ none], none)
           ELSE /\ check' = EndOfCondition([check EXCEPT !.failed = TRUE], TRUE)
                /\ UNCHANGED keeperVars
    /\ UNCHANGED <<now, read_only, call, reply, etag>>

\* Not <token>: the break of a hit leaves the search, not the list.
CheckNotToken ==
    /\ check.at = "condition" /\ CurrentCondition.type = "TOKEN" /\ CurrentCondition.is_not
    /\ IF CurrentCondition.data = BadToken
       THEN /\ check' = EndOfCondition([check EXCEPT !.failed = TRUE], TRUE)
            /\ UNCHANGED keeperVars
       ELSE LET hit == CurrentCondition.data \in LockObjsFromPath(CurrentIf.res_path)
            IN  /\ GetLockObjsFromPath(CurrentIf.res_path)
                /\ check' = EndOfCondition([check EXCEPT !.locked = @ \/ hit], FALSE)
    /\ UNCHANGED <<now, read_only, call, reply, etag>>

\* <token>
CheckToken ==
    /\ check.at = "condition" /\ CurrentCondition.type = "TOKEN" /\ ~CurrentCondition.is_not
    /\ LET token == CurrentCondition.data
       IN  IF token = BadToken
           THEN /\ check' = EndOfCondition([check EXCEPT !.failed = TRUE], TRUE)
                /\ UNCHANGED keeperVars
           ELSE /\ CheckLockToken(token, CurrentIf.res_path)
                /\ check' = IF IsValidLockToken(token, CurrentIf.res_path)
                            THEN EndOfCondition([check EXCEPT !.checked = @ \union {token}], FALSE)
                            ELSE EndOfCondition([check EXCEPT !.locked = TRUE], TRUE)
    /\ UNCHANGED <<now, read_only, call, reply, etag>>

\* [etag]: the handler asks for the resource's ETag, and suspends ...
CheckEtag ==
    /\ check.at = "condition" /\ CurrentCondition.type = "ETAG"
    /\ check' = [check EXCEPT !.at = "stat"]
    /\ UNCHANGED <<vars, etag>>

\* ... a worker thread reads it ...
StatEtag ==
    /\ check.at = "stat"
    /\ check' = [check EXCEPT !.at = "resume", !.etag = etag[CurrentIf.res_path]]
    /\ UNCHANGED <<vars, etag>>

\* ... and the handler goes on with it.  For a missing resource there is no result,
\* only an exception, which ends the request.
ResumeEtag ==
    /\ NoneRunning
    /\ check.at = "resume"
    /\ LET failed == (check.etag = CurrentCondition.data) = CurrentCondition.is_not
           ck     == [check EXCEPT !.at = "condition", !.etag = NoEtag, !.failed = failed]
       IN  check' = IF check.etag = NoEtag
                    THEN [check EXCEPT !.at = "raised"]
                    ELSE EndOfCondition(ck, failed)
    /\ UNCHANGED <<vars, etag>>

\* The request is answered; a check that passed lets it change its resources.
Answer ==
    /\ NoneRunning
    /\ check.at \in {"done", "raised"}
    /\ check' = NoCheck
    /\ \/ UNCHANGED etag
       \/ /\ check.at = "done" /\ ~check.locked /\ ~check.failed
          /\ \E e \in Etag : etag' = [etag EXCEPT ![check.res_paths[1]] = e]
    /\ UNCHANGED vars

\* What other handlers do to the locks, and to the resources of the provider.
OtherHandler ==
    /\ OthersRun
    /\ LockRequest \/ UnlockRequest
    /\ check' = IF Suspended THEN [check EXCEPT !.overtaken = TRUE] ELSE check
    /\ UNCHANGED etag

OtherChange ==
    /\ Suspended
    /\ \E path \in Path, e \in Etag \union {NoEtag} : etag' = [etag EXCEPT ![path] = e]
    /\ check' = [check EXCEPT !.overtaken = TRUE]
    /\ UNCHANGED vars

TickCheck ==
    /\ Tick
    /\ check' = IF check = NoCheck THEN check ELSE [check EXCEPT !.ticked = TRUE]
    /\ UNCHANGED etag

CheckRequest ==
    \/ \E ifs \in RequestIfs, res_paths \in ResPaths : Begin(ifs, res_paths)
    \/ Collect
    \/ CheckNoLock
    \/ CheckNotToken
    \/ CheckToken
    \/ CheckEtag
    \/ StatEtag
    \/ ResumeEtag
    \/ Answer

NextCheck == CheckRequest \/ OtherHandler \/ OtherChange \/ TickCheck

SpecCheck == InitCheck /\ [][NextCheck]_checkVars
-----------------------------------------------------------------------------
(* What a verdict means *)

Passed == check.at = "done" /\ ~check.locked /\ ~check.failed

\* The live locks that cover one of the resources, now.
LocksOnResources == UNION {LockObjsFromPath(check.res_paths[i]) : i \in DOMAIN check.res_paths}

\* The tokens a list submits.
TokensOf(group) == {group[c].data : c \in {d \in DOMAIN group :
                                             group[d].type = "TOKEN" /\ ~group[d].is_not}}

\* The tokens submitted anywhere in the header for a resource they lock.
Submitted ==
    {t \in Token : \E i \in DOMAIN check.request_ifs :
        /\ t \in LockObjsFromPath(check.request_ifs[i].res_path)
        /\ \E g \in DOMAIN check.request_ifs[i].conditions :
             t \in TokensOf(check.request_ifs[i].conditions[g])}

\* A request that passes its check without suspending holds, at the moment it goes on
\* to change the resources, the token of every live lock on them: no lock slips in
\* between the collection and the verdict, and no group of the header hides one.
PassedHoldsAllLocks ==
    Passed /\ ~check.overtaken => LocksOnResources \subseteq Submitted

\* What the header says, read off the lock table: a condition, a list, all resources.
Holds(c, path) ==
    CASE c.type = "NO_LOCK" -> c.is_not /\ LockObjsFromPath(path) # {}
      [] c.type = "TOKEN" -> /\ c.data # BadToken
                             /\ c.is_not = (c.data \notin LockObjsFromPath(path))
      [] c.type = "ETAG" -> c.is_not = (c.data # etag[path])

ListHolds(group, path) == \A c \in DOMAIN group : Holds(group[c], path)

FirstList(request_if) ==
    CHOOSE g \in DOMAIN request_if.conditions :
        /\ ListHolds(request_if.conditions[g], request_if.res_path)
        /\ \A h \in 1 .. g - 1 : ~ListHolds(request_if.conditions[h], request_if.res_path)

HeaderHolds ==
    \A i \in DOMAIN check.request_ifs : \E g \in DOMAIN check.request_ifs[i].conditions :
        ListHolds(check.request_ifs[i].conditions[g], check.request_ifs[i].res_path)

TokensOfHeader ==
    UNION {TokensOf(check.request_ifs[i].conditions[FirstList(check.request_ifs[i])]) :
             i \in DOMAIN check.request_ifs}

\* In the absence of other events, the verdict is what the header says: a request
\* passes only if one list of every resource holds, and passes if moreover these
\* lists submit the tokens of all locks on its resources.  412 is answered only
\* when a condition other than a valid token's does not hold.
VerdictIsWhatHeaderSays ==
    check.at = "done" /\ ~check.overtaken /\ ~check.ticked =>
        /\ Passed => HeaderHolds
        /\ HeaderHolds /\ LocksOnResources \subseteq TokensOfHeader => Passed
        /\ check.failed =>
             \E i \in DOMAIN check.request_ifs :
                 LET request_if == check.request_ifs[i]
                     last       == request_if.conditions[Len(request_if.conditions)]
                 IN  \E c \in DOMAIN last :
                         /\ ~Holds(last[c], request_if.res_path)
                         /\ last[c].type = "TOKEN" => last[c].data = BadToken
=============================================================================
