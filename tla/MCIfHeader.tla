------------------------------ MODULE MCIfHeader ------------------------------
(* Small instances of DAVIfHeader: a collection and a member, two locks, and   *)
(* headers with one and two lists, one and two resources, every kind of        *)
(* condition, and conditions that come after one that does not hold.           *)
EXTENDS DAVIfHeader

CONSTANTS t1, t2, e1

MCSegment == {"a", "b"}
top == <<"a">>
member == <<"a", "b">>
MCPath == {top, member}
MCTimeoutHeader == {[type |-> "Second", value |-> 1], [type |-> "Second", value |-> 2]}

token(t) == [is_not |-> FALSE, type |-> "TOKEN", data |-> t]
notToken(t) == [is_not |-> TRUE, type |-> "TOKEN", data |-> t]
isEtag(e) == [is_not |-> FALSE, type |-> "ETAG", data |-> e]
notEtag(e) == [is_not |-> TRUE, type |-> "ETAG", data |-> e]
noLock(not) == [is_not |-> not, type |-> "NO_LOCK", data |-> NoToken]
for(path, lists) == [res_path |-> path, conditions |-> lists]

MCRequestIfs ==
    { <<>>,
      <<for(member, <<<<token(t1)>>>>)>>,
      <<for(member, <<<<token(t1)>>, <<token(t2)>>>>)>>,
      <<for(top, <<<<token(t1)>>>>), for(member, <<<<token(t2)>>>>)>>,
      <<for(member, <<<<token(t1), isEtag(e1)>>, <<noLock(TRUE)>>>>)>>,
      <<for(member, <<<<notToken(t1), notEtag(e1)>>, <<token(t1), token(t2)>>>>)>>,
      <<for(top, <<<<noLock(FALSE)>>, <<token(BadToken)>>>>)>>,
      <<for(member, <<<<notToken(BadToken)>>, <<token(t2)>>>>)>> }

(* The last response does not matter to what comes next. *)
WithoutReply == <<now, token2lock_obj, path2lock_obj_set, issued, read_only, call, etag, check>>

MCResPaths == {<<top>>, <<member>>, <<top, member>>}
=============================================================================
