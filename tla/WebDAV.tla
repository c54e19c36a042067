-------------------------------- MODULE WebDAV --------------------------------
(***************************************************************************)
(* A request from the mapping of prefixes to its response (class WebDAV of *)
(* web_dav.py): the provider is found and the user's permission looked at, *)
(* then a GET is answered as GetResponse says, and a PROPFIND with what    *)
(* the provider and those mapped directly below the path have to show.     *)
(***************************************************************************)
EXTENDS DAVPaths, GetResponse

CONSTANTS
    Exchanges,  \* what may be configured and asked: [mapping, request]
    Home        \* where the home directory of the user is in HDFS

RequestRange == [first : Nat \union {Absent}, last : Nat \union {Absent}]

ASSUME ExchangeAssumption ==
    \A e \in Exchanges :
        /\ e.request.path \in Path /\ e.request.depth \in {"ZERO", "ONE", "INFINITY"}
        /\ e.request.ranges \in Seq(RequestRange)
        /\ e.mapping \in Seq(Range(e.mapping))
        /\ \A item \in Range(e.mapping) :
             /\ item.prefix \in Path
             /\ item.type \in {"memory", "file_system", "webhdfs", "unknown"}
             \* What a provider keeps is a tree, below the folder it is mapped at.
             /\ << >> \in DOMAIN item.files
             /\ \A p \in DOMAIN item.files :
                  /\ item.files[p].kind \in {"file", "folder"} /\ item.files[p].size \in Nat
                  /\ p \in Seq(Segment)
                  /\ p # << >> => Parent(p) \in DOMAIN item.files
                  /\ ~item.home_dir => AddChild(item.prefix, p) \in Path
        \* Bound: no two providers are configured for one prefix.
        /\ \A i, j \in DOMAIN e.mapping :
             e.mapping[i].prefix = e.mapping[j].prefix => i = j

VARIABLES
    prefix_provider_mapping,  \* the providers: [prefix, type, home_dir, files]
    dav_properties            \* the paths the last PROPFIND shows

serverVars == << answerVars, prefix_provider_mapping, dav_properties >>

IsSupported(item) == item.type # "unknown"
Supported(config) == {item \in Range(config) : IsSupported(item)}

\* A mutant: the mapping stays in the order of the configuration.
MappingAsConfigured(config) == {SelectSeq(config, IsSupported)}

\* WebDAV.__init__: what no provider can be made for is skipped, and the rest sorted,
\* longer prefixes first.  Of two that are above one path the longer text is the one
\* with more segments; how others are sorted among themselves is left open.
Mapping(config) ==
    {m \in UNION {[1 .. n -> Supported(config)] : n \in 0 .. Len(config)} :
        /\ Range(m) = Supported(config) /\ IsInjective(m)
        /\ \A i, j \in DOMAIN m : i < j => Len(m[i].prefix) >= Len(m[j].prefix)}

\* WebDAV.match_provider: the first one above the path; the mapping is sorted.
Matching(path) ==
    {i \in DOMAIN prefix_provider_mapping :
        IsParentOfOrIsSelf(prefix_provider_mapping[i].prefix, path)}

MatchProvider(path) ==
    prefix_provider_mapping[CHOOSE i \in Matching(path) : \A j \in Matching(path) : i <= j]

\* What the provider has at the path.
FileAt(provider, path) ==
    LET child == GetChild(path, provider.prefix)
        there == provider.files[child]
    IN  IF child \in DOMAIN provider.files
        THEN [kind |-> there.kind, size |-> there.size, provider |-> provider.type,
              compressible |-> there.compressible]
        ELSE NoFile

MayPass(provider, path) == provider.home_dir \/ path \in request.permissions

-----------------------------------------------------------------------------
(* PROPFIND                                                                *)

Below(files, path, depth) ==
    {p \in DOMAIN files :
        /\ IsParentOf(path, p)
        /\ depth = "ONE" => Len(p) = Len(path) + 1}

\* At Depth 1 and infinity the members alone, without the resource itself.
MemoryPropfind(files, path, depth) ==
    IF depth = "ZERO" THEN {path} ELSE Below(files, path, depth)

FileSystemPropfind(files, path, depth) ==
    {path} \union (IF depth = "ZERO" THEN {} ELSE Below(files, path, depth))

\* WebHDFS names the members of a folder by their paths in HDFS, without its prefix.
\* Bound: HDFS refuses no look at what is there.
RemotePropfind(provider, path, depth) ==
    {path} \union
        (IF depth = "ZERO" THEN {}
         ELSE {AddChild(IF provider.home_dir THEN Home ELSE << >>, p) :
                 p \in Below(provider.files, GetChild(path, provider.prefix), "ONE")})

\* It lists no folder at depth infinity: NotImplementedError.
CanPropfind(provider, path, depth) ==
    ~(provider.type = "webhdfs" /\ depth = "INFINITY" /\ FileAt(provider, path).kind = "folder")

\* The paths a provider shows for itself.
ProviderPropfind(provider, path, depth) ==
    LET child == GetChild(path, provider.prefix)
        below(paths) == {AddChild(provider.prefix, p) : p \in paths}
    IN  IF child \notin DOMAIN provider.files THEN {}
        ELSE CASE provider.type = "memory" -> below(MemoryPropfind(provider.files, child, depth))
               [] provider.type = "file_system" -> below(FileSystemPropfind(provider.files, child, depth))
               [] provider.type = "webhdfs" -> RemotePropfind(provider, path, depth)

Depth1ChildProviders(path) ==
    {item \in Range(prefix_provider_mapping) :
        /\ IsParentOf(path, item.prefix)
        /\ Len(GetChild(item.prefix, path)) = 1}

\* A mutant: what is mapped below the path is not shown.
OwnPropfind(provider, path, depth) ==
    {p \in ProviderPropfind(provider, path, depth) : p \in request.permissions}

\* WebDAV._do_propfind: with what is mapped directly below, one level less deep,
\* and without what the user may not see; a home directory has no such things.
DoPropfind(provider, path, depth) ==
    LET less == IF depth = "INFINITY" THEN "ONE" ELSE "ZERO"
        children == IF depth = "ZERO" THEN {} ELSE Depth1ChildProviders(path)
        visible(item, paths) == {p \in paths : MayPass(item, p)}
    IN  IF provider.home_dir THEN ProviderPropfind(provider, path, depth)
        ELSE visible(provider, ProviderPropfind(provider, path, depth))
             \union UNION {visible(item, ProviderPropfind(item, item.prefix, less)) :
                             item \in children}

-----------------------------------------------------------------------------
Init ==
    \E exchange \in Exchanges :
        /\ prefix_provider_mapping \in Mapping(exchange.mapping)
        /\ request = exchange.request
        /\ dav_properties = {}
        /\ InitAnswer

\* A response without a file: an empty one, or a text the server makes.  Status 500
\* is the ASGI server's, for an exception nobody catches; its text is left out.
Refuse(status, size) ==
    /\ Respond(MakeResponse(request, status, IF size = 0 THEN "nothing" ELSE "page",
                            TRUE, size, NoRange))
    /\ UNCHANGED << file, dav_properties >>

\* WebDAV.distribute, when no provider is mapped above the path.
NotMapped ==
    /\ Matching(request.path) = {}
    /\ Refuse(404, PageSize)

NotAllowed ==
    /\ Matching(request.path) # {}
    /\ ~MayPass(MatchProvider(request.path), request.path)
    /\ Refuse(IF request.anonymous THEN 401 ELSE 403, 0)

Get(provider) ==
    /\ request.method = "GET"
    /\ file' = FileAt(provider, request.path)
    /\ Respond(DoGet(file', request))
    /\ UNCHANGED dav_properties

Propfind(provider) ==
    /\ request.method = "PROPFIND"
    /\ IF ~request.body_is_parsed_success
       THEN Refuse(400, 0)
       ELSE IF ~CanPropfind(provider, request.path, request.depth)
       THEN Refuse(500, 0)
       ELSE /\ dav_properties' = DoPropfind(provider, request.path, request.depth)
            /\ IF dav_properties' = {}
               THEN Respond(MakeResponse(request, 404, "nothing", TRUE, 0, NoRange))
               ELSE Respond(MakeResponse(request, 207, "page", TRUE, PageSize, NoRange))
            /\ UNCHANGED file

Distribute ==
    /\ response = NotYet
    /\ \/ NotMapped
       \/ NotAllowed
       \/ /\ Matching(request.path) # {}
          /\ LET provider == MatchProvider(request.path) IN
               /\ MayPass(provider, request.path)
               /\ Get(provider) \/ Propfind(provider)
    /\ UNCHANGED prefix_provider_mapping

Next ==
    \/ Distribute
    \/ Send /\ UNCHANGED << prefix_provider_mapping, dav_properties >>

Spec == Init /\ [][Next]_serverVars

-----------------------------------------------------------------------------
\* The one provider a path belongs to: of those mapped above it, the deepest.
Owner(path) ==
    CHOOSE item \in Range(prefix_provider_mapping) :
        /\ IsPrefix(item.prefix, path)
        /\ \A other \in Range(prefix_provider_mapping) :
             IsPrefix(other.prefix, path) => Len(other.prefix) <= Len(item.prefix)

IsThere(path) ==
    /\ \E item \in Range(prefix_provider_mapping) : IsPrefix(item.prefix, path)
    /\ FileAt(Owner(path), path) # NoFile

Answered(method, statuses) ==
    /\ response # NotYet /\ response.status \in statuses
    /\ request.method = method
    /\ Matching(request.path) # {}

\* The file a GET finds is that of the provider mapped deepest above its path, in
\* whatever order the configuration names them.
SentByOwner ==
    Answered("GET", {200, 206, 404}) =>
        file = FileAt(Owner(request.path), request.path)

\* A listing of Depth 0 or 1 shows exactly what a GET of the same user would find
\* there, each member at its own provider: nothing behind a prefix that hides it,
\* and nothing that is mapped left out.  The memory provider does not show the
\* resource itself next to its members, a home directory shows only its own, and
\* below a prefix WebHDFS names its members otherwise.
ListsWhatIsThere ==
    /\ Answered("PROPFIND", {207, 404})
    /\ request.depth # "INFINITY"
    /\ ~Owner(request.path).home_dir
    /\ Owner(request.path).type = "webhdfs" /\ request.depth = "ONE"
         => Owner(request.path).prefix = << >>
    => LET path == request.path
           self == IF request.depth = "ONE" /\ Owner(path).type = "memory"
                   THEN {} ELSE {path}
           members == IF request.depth = "ZERO" THEN {}
                      ELSE {p \in Path : IsParentOf(path, p) /\ Len(p) = Len(path) + 1}
       IN  dav_properties = {p \in self \union members :
                               IsThere(p) /\ MayPass(Owner(p), p)}
===============================================================================
