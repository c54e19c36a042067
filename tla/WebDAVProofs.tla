----------------------------- MODULE WebDAVProofs -----------------------------
(***************************************************************************)
(* What a client is sent, for any files, ranges, mappings and block sizes. *)
(*                                                                         *)
(* The promises about the body are not inductive: they say nothing of how  *)
(* far the generator and the sender are.  Sending relates what has been    *)
(* sent to "given", and "given" to the span of bytes the response has;     *)
(* Spanned says that this span is what the client asked for.               *)
(***************************************************************************)
EXTENDS WebDAV, DAVPathsProofs

-----------------------------------------------------------------------------
(* What is configured and asked does not change.                           *)

Configured ==
    \E e \in Exchanges : prefix_provider_mapping \in Mapping(e.mapping) /\ request = e.request

\* What the configuration gives the mapping, and a client the request.
LEMMA WhatIsConfigured ==
    ASSUME Configured
    PROVE  /\ DOMAIN prefix_provider_mapping \subseteq Nat
           /\ \A i \in DOMAIN prefix_provider_mapping :
                LET item == prefix_provider_mapping[i]
                IN  /\ item.prefix \in Seq(Segment)
                    /\ item.type \in {"memory", "file_system", "webhdfs"}
                    /\ \A p \in DOMAIN item.files :
                         item.files[p].kind \in {"file", "folder"} /\ item.files[p].size \in Nat
           /\ \A i, j \in DOMAIN prefix_provider_mapping :
                /\ i < j => Len(prefix_provider_mapping[i].prefix) >= Len(prefix_provider_mapping[j].prefix)
                /\ prefix_provider_mapping[i].prefix = prefix_provider_mapping[j].prefix
                     => prefix_provider_mapping[i] = prefix_provider_mapping[j]
           /\ request.path \in Seq(Segment)
           /\ request.ranges \in Seq(RequestRange)
<1>1. PICK e \in Exchanges : prefix_provider_mapping \in Mapping(e.mapping) /\ request = e.request
  BY DEF Configured
<1>2. PICK n \in 0 .. Len(e.mapping) : prefix_provider_mapping \in [1 .. n -> Supported(e.mapping)]
  BY <1>1 DEF Mapping
<1>3. \A i \in DOMAIN prefix_provider_mapping :
        /\ prefix_provider_mapping[i] \in Range(e.mapping)
        /\ prefix_provider_mapping[i].type # "unknown"
  BY <1>2 DEF Supported, IsSupported
<1>4. e.mapping \in Seq(Range(e.mapping))
  BY ExchangeAssumption
<1>5. DOMAIN prefix_provider_mapping \subseteq Nat
  BY <1>2, <1>4
<1>6. \A x, y \in Range(e.mapping) : x.prefix = y.prefix => x = y
  BY ExchangeAssumption DEF Range
<1>7. \A i \in DOMAIN prefix_provider_mapping :
        LET item == prefix_provider_mapping[i]
        IN  /\ item.prefix \in Seq(Segment)
            /\ item.type \in {"memory", "file_system", "webhdfs"}
            /\ \A p \in DOMAIN item.files :
                 item.files[p].kind \in {"file", "folder"} /\ item.files[p].size \in Nat
  BY <1>3, ExchangeAssumption, PathAssumption
<1>8. \A i, j \in DOMAIN prefix_provider_mapping :
        i < j => Len(prefix_provider_mapping[i].prefix) >= Len(prefix_provider_mapping[j].prefix)
  BY <1>1 DEF Mapping
<1>9. request.path \in Seq(Segment) /\ request.ranges \in Seq(RequestRange)
  BY <1>1, ExchangeAssumption, PathAssumption
<1> QED
  BY <1>3, <1>5, <1>6, <1>7, <1>8, <1>9

\* What a provider of the mapping keeps is a tree.
LEMMA WhatIsKept ==
    ASSUME Configured, NEW item \in Range(prefix_provider_mapping)
    PROVE  /\ item.prefix \in Path /\ item.prefix \in Seq(Segment)
           /\ item.type \in {"memory", "file_system", "webhdfs"}
           /\ << >> \in DOMAIN item.files
           /\ \A p \in DOMAIN item.files :
                /\ item.files[p].kind \in {"file", "folder"} /\ p \in Seq(Segment)
                /\ p # << >> => Parent(p) \in DOMAIN item.files
                /\ ~item.home_dir => AddChild(item.prefix, p) \in Path
<1>1. PICK e \in Exchanges : prefix_provider_mapping \in Mapping(e.mapping)
  BY DEF Configured
<1>2. item \in Range(e.mapping) /\ item.type # "unknown"
  BY <1>1 DEF Mapping, Supported, IsSupported
<1> QED
  BY <1>2, ExchangeAssumption, PathAssumption

\* What is asked for is a path, to one of three depths.
LEMMA WhatIsAsked ==
    ASSUME Configured
    PROVE  /\ request.path \in Path /\ request.path \in Seq(Segment)
           /\ request.depth \in {"ZERO", "ONE", "INFINITY"}
BY ExchangeAssumption, PathAssumption DEF Configured

\* The provider a request goes to is one of the mapping, the first above its path.
LEMMA MatchedProvider ==
    ASSUME Configured, NEW path, Matching(path) # {}
    PROVE  \E i \in Matching(path) :
             MatchProvider(path) = prefix_provider_mapping[i] /\ \A j \in Matching(path) : i <= j
<1>1. Matching(path) \in SUBSET Nat
  BY WhatIsConfigured DEF Matching
<1>2. \E i \in Matching(path) : \A j \in Matching(path) : i <= j
  BY <1>1, Smallest
<1> QED
  BY <1>2 DEF MatchProvider

\* What a provider has at a path is of the provider's type and has a size.
LEMMA FileIsTyped ==
    ASSUME Configured, NEW i \in DOMAIN prefix_provider_mapping, NEW path,
           NEW f, f = FileAt(prefix_provider_mapping[i], path)
    PROVE  \/ f.kind = "none"
           \/ /\ f.kind \in {"file", "folder"} /\ f.size \in Nat
              /\ f.provider \in {"memory", "file_system", "webhdfs"}
BY WhatIsConfigured DEF FileAt, NoFile

-----------------------------------------------------------------------------
(* What is answered.                                                       *)

\* The range that is answered is one the parser keeps.
LEMMA FirstRangeIsKept ==
    ASSUME NEW header \in Seq(RequestRange), HasRange(header)
    PROVE  FirstRange(header) \in RequestRange /\ ~IsDropped(FirstRange(header))
<1>1. KeptRanges(header) \in SUBSET Nat /\ KeptRanges(header) # {}
  BY DEF HasRange, KeptRanges
<1>2. \E i \in KeptRanges(header) : \A j \in KeptRanges(header) : i <= j
  BY <1>1, Smallest
<1>3. PICK i \in KeptRanges(header) : FirstRange(header) = header[i]
  BY <1>2 DEF FirstRange
<1> QED
  BY <1>3 DEF KeptRanges

\* The content range is what the header names.
LEMMA ContentRangeIsNamed ==
    ASSUME NEW header \in Seq(RequestRange), HasRange(header), NEW size \in Nat,
           NEW range, range = ContentRange(FirstRange(header), size), range # NoRange
    PROVE  /\ range[1] \in Nat /\ range[2] \in Nat /\ range[1] <= range[2]
           /\ range = << range[1], range[2] >>
           /\ Named(header, size) = range[1] .. range[2]
<1> DEFINE first_range == FirstRange(header)
<1>1. first_range \in RequestRange /\ ~IsDropped(first_range)
  BY FirstRangeIsKept
<1> HIDE DEF first_range
<1>2. Named(header, size) =
        {p \in 0 .. size - 1 :
           IF IsLastBytes(first_range) THEN p >= size - first_range.last
           ELSE p >= first_range.first /\ (first_range.last # Absent => p <= first_range.last)}
  BY DEF Named, first_range
<1>3. range = ContentRange(first_range, size)
  BY DEF first_range
<1>4. CASE IsLastBytes(first_range)
  <2>1. first_range.last \in Nat \ {0} /\ first_range.first = Absent
    BY <1>1, <1>4 DEF RequestRange, IsDropped, IsLastBytes, Absent
  <2>2. size - first_range.last >= 0 /\ range = << size - first_range.last, size - 1 >>
    BY <1>3, <1>4, <2>1 DEF ContentRange
  <2> QED
    BY <1>2, <1>4, <2>1, <2>2
<1>5. CASE ~IsLastBytes(first_range)
  <2>1. first_range.first \in Nat
    BY <1>1, <1>5 DEF RequestRange, IsLastBytes
  <2>2. CASE first_range.last = Absent
    <3>1. first_range.first < size - 1 /\ range = << first_range.first, size - 1 >>
      BY <1>3, <1>5, <2>1, <2>2 DEF ContentRange, Absent
    <3> QED
      BY <1>2, <1>5, <2>1, <2>2, <3>1
  <2>3. CASE first_range.last # Absent
    <3>1. first_range.last \in Nat /\ first_range.first < first_range.last
      BY <1>1, <1>5, <2>1, <2>3 DEF RequestRange, IsDropped, IsLastBytes
    <3>2. first_range.last <= size - 1 /\ range = << first_range.first, first_range.last >>
      BY <1>3, <1>5, <2>1, <2>3, <3>1 DEF ContentRange
    <3> QED
      BY <1>2, <1>5, <2>1, <2>3, <3>1, <3>2
  <2> QED
    BY <2>2, <2>3
<1> QED
  BY <1>4, <1>5

\* The response is to the bytes the client asked for, and announces them.
Spans(answer, asked) ==
    /\ answer.first \in Nat /\ answer.last \in Int /\ answer.first <= answer.last + 1
    /\ asked = answer.first .. answer.last
    /\ answer.headers.length # Absent => answer.headers.length = answer.last - answer.first + 1
    /\ answer.status = 206 =>
         /\ answer.headers.range = << answer.first, answer.last >>
         /\ answer.headers.range # NoRange

\* ... what it is a response to, read from its origin.
Asked(answer, f, r) ==
    CASE answer.of \in {"memory", "file_system", "webhdfs"} ->
            IF answer.status = 206 THEN Named(r.ranges, f.size) ELSE 0 .. f.size - 1
      [] answer.of = "page" -> 0 .. PageSize - 1
      [] OTHER -> {}

\* A response without a range is to the whole of what it is made of.
LEMMA WholeSpans ==
    ASSUME NEW r, NEW status, status # 206, NEW of, NEW compressible, NEW size \in Nat
    PROVE  Spans(MakeResponse(r, status, of, compressible, size, NoRange), 0 .. size - 1)
<1> DEFINE answer == MakeResponse(r, status, of, compressible, size, NoRange)
<1>1. /\ answer.status = status /\ answer.first = 0 /\ answer.last = size - 1
      /\ answer.headers.length \in {size, Absent}
  BY DEF MakeResponse, SenderHeaders
<1> HIDE DEF answer
<1>2. Spans(answer, 0 .. size - 1)
  BY <1>1 DEF Spans
<1> QED
  BY <1>2 DEF answer

\* One with a range is to that range, and sent raw.
LEMMA RangeSpans ==
    ASSUME NEW r, NEW status, NEW of, NEW compressible, NEW size \in Nat,
           NEW first \in Nat, NEW last \in Int, first <= last + 1
    PROVE  Spans(MakeResponse(r, status, of, compressible, size, << first, last >>), first .. last)
<1> DEFINE range == << first, last >>
           answer == MakeResponse(r, status, of, compressible, size, range)
<1>1. range # NoRange /\ range[1] = first /\ range[2] = last
  BY DEF NoRange
<1>2. MatchSender(r, compressible, size, range) = "raw"
  BY <1>1 DEF MatchSender
<1>3. /\ answer.first = first /\ answer.last = last
      /\ answer.headers.length = last - first + 1
      /\ answer.headers.range = range
  BY <1>1, <1>2 DEF MakeResponse, SenderHeaders
<1> HIDE DEF answer
<1>4. Spans(answer, first .. last)
  BY <1>1, <1>3 DEF Spans
<1> QED
  BY <1>4 DEF answer

\* A response the server makes itself is to an empty body or to a page.
EmptyResponse(r, status) == MakeResponse(r, status, "nothing", TRUE, 0, NoRange)
PageResponse(r, status) == MakeResponse(r, status, "page", TRUE, PageSize, NoRange)

LEMMA OwnResponseSpans ==
    ASSUME NEW r, NEW f, NEW status, status # 206
    PROVE  /\ Spans(EmptyResponse(r, status), Asked(EmptyResponse(r, status), f, r))
           /\ Spans(PageResponse(r, status), Asked(PageResponse(r, status), f, r))
<1>1. Spans(EmptyResponse(r, status), 0 .. 0 - 1) /\ Spans(PageResponse(r, status), 0 .. PageSize - 1)
  BY WholeSpans, BlockSizeAssumption, Zenon DEF EmptyResponse, PageResponse
<1>2. EmptyResponse(r, status).of = "nothing" /\ PageResponse(r, status).of = "page"
  BY DEF EmptyResponse, PageResponse, MakeResponse
<1>3. Asked(EmptyResponse(r, status), f, r) = 0 .. 0 - 1
  BY <1>2 DEF Asked
<1>4. Asked(PageResponse(r, status), f, r) = 0 .. PageSize - 1
  BY <1>2 DEF Asked
<1> QED
  BY <1>1, <1>3, <1>4

\* So is the response to a GET: to the whole file, to the part the header names, or
\* to what the server makes itself.
LEMMA GetSpans ==
    ASSUME NEW r, r.ranges \in Seq(RequestRange), NEW f,
           \/ f.kind = "none"
           \/ /\ f.kind \in {"file", "folder"} /\ f.size \in Nat
              /\ f.provider \in {"memory", "file_system", "webhdfs"}
    PROVE  Spans(DoGet(f, r), Asked(DoGet(f, r), f, r))
<1> DEFINE answer == ProviderGet(f, r)
           range == IF HasRange(r.ranges) THEN ContentRange(FirstRange(r.ranges), f.size)
                                          ELSE NoRange
<1>1. CASE f.kind = "none"
  <2>1. answer.status = 404 /\ ~answer.body
    BY <1>1 DEF ProviderGet
  <2>2. DoGet(f, r) = EmptyResponse(r, 404)
    BY <2>1 DEF DoGet, EmptyResponse
  <2> QED
    BY <2>2, OwnResponseSpans
<1>2. CASE answer.status \in {200, 416} /\ ~answer.body
  <2>1. DoGet(f, r) = EmptyResponse(r, 200) \/ DoGet(f, r) = PageResponse(r, 200)
    BY <1>2 DEF DoGet, EmptyResponse, PageResponse
  <2> QED
    BY <2>1, OwnResponseSpans
<1>3. CASE f.kind = "file" /\ answer.body
  <2>1. f.size \in Nat /\ f.provider \in {"memory", "file_system", "webhdfs"}
    BY <1>3
  <2> DEFINE made == MakeResponse(r, answer.status, f.provider, f.compressible, f.size, answer.range)
  <2>2. answer.status \in {200, 206} /\ DoGet(f, r) = made
    <3>1. answer.status \in {200, 206}
      BY <1>3 DEF ProviderGet
    <3> QED
      BY <1>3, <3>1 DEF DoGet
  <2>3. made.of = f.provider /\ made.status = answer.status
    BY DEF MakeResponse
  <2>4. CASE answer.status = 206
    <3>1. range # NoRange /\ answer.range = range
      BY <1>3, <2>4 DEF ProviderGet
    <3>2. HasRange(r.ranges) /\ range = ContentRange(FirstRange(r.ranges), f.size)
      BY <3>1
    <3>3. /\ range[1] \in Nat /\ range[2] \in Nat /\ range[1] <= range[2]
          /\ range = << range[1], range[2] >>
          /\ Named(r.ranges, f.size) = range[1] .. range[2]
      BY <2>1, <3>1, <3>2, ContentRangeIsNamed
    <3> HIDE DEF range
    <3>4. PICK first \in Nat, last \in Nat :
            first <= last /\ range = << first, last >> /\ Named(r.ranges, f.size) = first .. last
      BY <3>3
    <3>5. Spans(made, first .. last)
      BY <2>1, <3>1, <3>4, RangeSpans
    <3> HIDE DEF made
    <3>6. Asked(made, f, r) = first .. last
      BY <2>1, <2>3, <2>4, <3>4 DEF Asked
    <3> QED
      BY <2>2, <3>5, <3>6
  <2>5. CASE answer.status = 200
    <3>1. answer.range = NoRange \/ answer.range = << 0, f.size - 1 >>
      BY <1>3, <2>5 DEF ProviderGet
    <3>2. Spans(made, 0 .. f.size - 1)
      <4>1. CASE answer.range = NoRange
        BY <2>1, <2>5, <4>1, WholeSpans
      <4>2. CASE answer.range = << 0, f.size - 1 >>
        <5>1. Spans(MakeResponse(r, answer.status, f.provider, f.compressible, f.size, << 0, f.size - 1 >>),
                    0 .. f.size - 1)
          BY <2>1, RangeSpans
        <5> QED
          BY <4>2, <5>1
      <4> QED
        BY <3>1, <4>1, <4>2
    <3> HIDE DEF made
    <3>3. Asked(made, f, r) = 0 .. f.size - 1
      BY <2>1, <2>3, <2>5 DEF Asked
    <3> QED
      BY <2>2, <3>2, <3>3
  <2> QED
    BY <2>2, <2>4, <2>5
<1>4. \/ f.kind = "none"
      \/ answer.status \in {200, 416} /\ ~answer.body
      \/ f.kind = "file" /\ answer.body
  BY DEF ProviderGet
<1> QED
  BY <1>1, <1>2, <1>3, <1>4

-----------------------------------------------------------------------------
(* The invariant                                                           *)

\* The response is to what the client asked for.
Spanned == response # NotYet => Spans(response, BodyAsked)

\* How far the generator, the compressor and the client are.
Sending ==
    /\ sent \in Seq([from : Nat, to : Nat, more : BOOLEAN])
    /\ ended \in BOOLEAN
    /\ response = NotYet => sent = << >> /\ ~ended
    /\ response # NotYet =>
         /\ start \in Nat /\ given \in Nat
         /\ response.first <= given /\ given <= start /\ start <= response.last + 1
         /\ response.sender = "raw" => given = start
         /\ BytesSent = response.first .. given - 1
         /\ \A i \in DOMAIN sent : sent[i].to \in 0 .. given
         /\ InOrder
         /\ ended => given = response.last + 1
    /\ OnlyLastMessageEnds

\* The file of a GET is that of the provider the request was given to.
Found ==
    Answered("GET", {200, 206, 404}) =>
        file = FileAt(MatchProvider(request.path), request.path)

\* What a PROPFIND shows is what that provider and those below the path have to show.
Listed ==
    Answered("PROPFIND", {207, 404}) =>
        dav_properties = DoPropfind(MatchProvider(request.path), request.path, request.depth)

AnswerInv == Configured /\ Spanned /\ Sending /\ Found /\ Listed

LEMMA InitAnswerInv == Init => AnswerInv
<1> SUFFICES ASSUME Init PROVE AnswerInv
  OBVIOUS
<1>1. Configured /\ response = NotYet /\ sent = << >> /\ ~ended /\ ended \in BOOLEAN
  BY DEF Init, InitAnswer, Configured
<1>2. sent \in Seq([from : Nat, to : Nat, more : BOOLEAN]) /\ DOMAIN sent = {}
  BY <1>1
<1>3. Spanned /\ Found /\ Listed
  BY <1>1 DEF Spanned, Found, Listed, Answered
<1>4. OnlyLastMessageEnds
  BY <1>1, <1>2 DEF OnlyLastMessageEnds
<1> QED
  BY <1>1, <1>2, <1>3, <1>4 DEF AnswerInv, Sending

\* A listing depends on the mapping and the request alone.
LEMMA ListingStays ==
    ASSUME request' = request, prefix_provider_mapping' = prefix_provider_mapping,
           MatchProvider(request.path)' = MatchProvider(request.path)
    PROVE  DoPropfind(MatchProvider(request.path), request.path, request.depth)'
             = DoPropfind(MatchProvider(request.path), request.path, request.depth)
BY DEF DoPropfind, ProviderPropfind, RemotePropfind, MemoryPropfind, FileSystemPropfind, Below,
       Depth1ChildProviders, MayPass

\* Distribute gives a response of which nothing has been sent.
LEMMA Responded ==
    ASSUME AnswerInv, response = NotYet, NEW answer, Respond(answer),
           Spans(answer, Asked(answer, file', request))
    PROVE  Spanned' /\ Sending'
<1>1. /\ response' = answer /\ start' = answer.first /\ given' = answer.first
      /\ request' = request /\ sent' = << >> /\ ~ended' /\ ended' \in BOOLEAN
  BY DEF Respond, AnswerInv, Sending
<1>2. BodyAsked' = Asked(answer, file', request)
  BY <1>1 DEF BodyAsked, Asked
<1>3. Spanned'
  BY <1>1, <1>2 DEF Spanned
<1>4. answer.first \in Nat /\ answer.first <= answer.last + 1
  BY DEF Spans
<1>5. BytesSent' = {} /\ answer.first .. answer.first - 1 = {}
  BY <1>1, <1>4 DEF BytesSent
<1>6. sent' \in Seq([from : Nat, to : Nat, more : BOOLEAN]) /\ DOMAIN sent' = {}
  BY <1>1
<1>7. InOrder' /\ OnlyLastMessageEnds'
  BY <1>1, <1>6 DEF InOrder, OnlyLastMessageEnds
<1>8. Sending'
  BY <1>1, <1>4, <1>5, <1>6, <1>7 DEF Sending
<1> QED
  BY <1>3, <1>8

\* What the server makes itself is such a response.
LEMMA Refused ==
    ASSUME AnswerInv, response = NotYet, NEW status, status # 206, NEW size \in {0, PageSize},
           Refuse(status, size)
    PROVE  Spanned' /\ Sending' /\ response'.status = status
<1>1. \/ Respond(EmptyResponse(request, status))
      \/ Respond(PageResponse(request, status))
  BY DEF Refuse, EmptyResponse, PageResponse
<1>2. EmptyResponse(request, status).status = status /\ PageResponse(request, status).status = status
  BY DEF EmptyResponse, PageResponse, MakeResponse
<1>3. response'.status = status
  BY <1>1, <1>2 DEF Respond
<1>4. CASE Respond(EmptyResponse(request, status))
  BY <1>3, <1>4, OwnResponseSpans, Responded
<1>5. CASE Respond(PageResponse(request, status))
  BY <1>3, <1>5, OwnResponseSpans, Responded
<1> QED
  BY <1>1, <1>4, <1>5

\* The step that answers the request.
LEMMA DistributeInv ==
    ASSUME AnswerInv, Distribute
    PROVE  AnswerInv'
<1>1. response = NotYet /\ prefix_provider_mapping' = prefix_provider_mapping
  BY DEF Distribute
<1>2. ASSUME request' = request PROVE Configured' /\ Matching(request.path)' = Matching(request.path)
             /\ MatchProvider(request.path)' = MatchProvider(request.path)
  BY <1>1, <1>2 DEF AnswerInv, Configured, Matching, MatchProvider
<1>3. CASE NotMapped
  <2>1. Refuse(404, PageSize)
    BY <1>3 DEF NotMapped
  <2>2. request' = request
    BY <2>1 DEF Refuse, Respond
  <2>3. Spanned' /\ Sending'
    BY <1>1, <2>1, Refused
  <2> QED
    BY <1>2, <1>3, <2>2, <2>3 DEF NotMapped, AnswerInv, Found, Listed, Answered
<1>4. CASE NotAllowed
  <2>1. PICK status \in {401, 403} : Refuse(status, 0)
    BY <1>4 DEF NotAllowed
  <2>2. request' = request
    BY <2>1 DEF Refuse, Respond
  <2>3. Spanned' /\ Sending' /\ response'.status = status
    BY <1>1, <2>1, Refused
  <2> QED
    BY <1>2, <2>2, <2>3 DEF AnswerInv, Found, Listed, Answered
<1>5. ASSUME Matching(request.path) # {}, Get(MatchProvider(request.path))
      PROVE  AnswerInv'
  <2>1. request' = request /\ file' = FileAt(MatchProvider(request.path), request.path)
    BY <1>5 DEF Get, Respond
  <2>2. PICK i \in Matching(request.path) : MatchProvider(request.path) = prefix_provider_mapping[i]
    BY <1>5, MatchedProvider DEF AnswerInv
  <2>3. \/ file'.kind = "none"
        \/ /\ file'.kind \in {"file", "folder"} /\ file'.size \in Nat
           /\ file'.provider \in {"memory", "file_system", "webhdfs"}
    BY <2>1, <2>2, FileIsTyped DEF AnswerInv, Matching
  <2>4. request.ranges \in Seq(RequestRange)
    BY WhatIsConfigured DEF AnswerInv
  <2>5. Spans(DoGet(file', request), Asked(DoGet(file', request), file', request))
    BY <2>3, <2>4, GetSpans
  <2>6. Spanned' /\ Sending'
    BY <1>1, <1>5, <2>5, Responded DEF Get
  <2>7. file' = FileAt(MatchProvider(request.path), request.path)'
    BY <1>1, <1>2, <2>1 DEF FileAt
  <2>8. Listed'
    BY <1>5, <2>1 DEF Get, Listed, Answered
  <2> QED
    BY <1>2, <2>1, <2>6, <2>7, <2>8 DEF AnswerInv, Found
<1>6. ASSUME Propfind(MatchProvider(request.path)) PROVE AnswerInv'
  <2>1. request.method = "PROPFIND"
    BY <1>6 DEF Propfind
  <2>2. \/ \E status \in {400, 500} : Refuse(status, 0)
        \/ Respond(EmptyResponse(request, 404))
        \/ Respond(PageResponse(request, 207))
    BY <1>6 DEF Propfind, EmptyResponse, PageResponse
  <2>3. request' = request
    BY <2>2 DEF Refuse, Respond
  <2>4. Spanned' /\ Sending'
    <3>1. CASE \E status \in {400, 500} : Refuse(status, 0)
      BY <1>1, <3>1, Refused
    <3>2. CASE Respond(EmptyResponse(request, 404))
      BY <1>1, <3>2, Responded, OwnResponseSpans
    <3>3. CASE Respond(PageResponse(request, 207))
      BY <1>1, <3>3, Responded, OwnResponseSpans
    <3> QED
      BY <2>2, <3>1, <3>2, <3>3
  <2>5. \/ response'.status \in {400, 500}
        \/ dav_properties' = DoPropfind(MatchProvider(request.path), request.path, request.depth)
    <3>1. CASE \E status \in {400, 500} : Refuse(status, 0)
      BY <1>1, <3>1, Refused
    <3>2. CASE ~ \E status \in {400, 500} : Refuse(status, 0)
      BY <1>6, <3>2, ZenonT(30) DEF Propfind
    <3> QED
      BY <3>1, <3>2
  <2>6. Listed'
    <3>1. DoPropfind(MatchProvider(request.path), request.path, request.depth)'
            = DoPropfind(MatchProvider(request.path), request.path, request.depth)
      BY <1>1, <1>2, <2>3, ListingStays
    <3> QED
      BY <2>3, <2>5, <3>1 DEF Listed, Answered
  <2> QED
    BY <1>2, <2>1, <2>3, <2>4, <2>6 DEF AnswerInv, Found, Answered
<1> QED
  BY <1>3, <1>4, <1>5, <1>6 DEF Distribute

\* A generator's next part begins where it stands and ends within the span, and only
\* at its end is there no more.
LEMMA ChunkReaches ==
    ASSUME AnswerInv, response # NotYet, NEW chunk \in NextChunks
    PROVE  /\ chunk.to \in Nat /\ start <= chunk.to /\ chunk.to <= response.last + 1
           /\ chunk.more \in BOOLEAN
           /\ ~chunk.more => chunk.to = response.last + 1
<1>1. /\ start \in Nat /\ start <= response.last + 1 /\ response.last \in Int
      /\ BlockSize \in Nat \ {0}
  BY BlockSizeAssumption DEF AnswerInv, Sending, Spanned, Spans
<1>2. \/ chunk = FileChunk(start, response.last)
      \/ chunk \in RemoteChunks(start, response.last)
      \/ chunk = BytesChunk(start, response.last)
  BY DEF NextChunks
<1>3. CASE chunk = FileChunk(start, response.last)
  BY <1>1, <1>3 DEF FileChunk
<1>4. CASE chunk \in RemoteChunks(start, response.last)
  BY <1>1, <1>4 DEF RemoteChunks
<1>5. CASE chunk = BytesChunk(start, response.last)
  BY <1>1, <1>5 DEF BytesChunk
<1> QED
  BY <1>2, <1>3, <1>4, <1>5

\* A message carries on where the one before it ended.
LEMMA MessageCarriesOn ==
    ASSUME AnswerInv, response # NotYet, ~ended, NEW to \in Nat, NEW more \in BOOLEAN,
           given <= to, sent' = Append(sent, [from |-> given, to |-> to, more |-> more]),
           given' = to, ended' = ~more
    PROVE  /\ sent' \in Seq([from : Nat, to : Nat, more : BOOLEAN])
           /\ BytesSent' = response.first .. to - 1
           /\ \A i \in DOMAIN sent' : sent'[i].to \in 0 .. to
           /\ InOrder' /\ OnlyLastMessageEnds'
<1> DEFINE message == [from |-> given, to |-> to, more |-> more]
<1>1. /\ sent \in Seq([from : Nat, to : Nat, more : BOOLEAN]) /\ given \in Nat
      /\ response.first \in Nat /\ response.first <= given
      /\ BytesSent = response.first .. given - 1
      /\ \A i \in DOMAIN sent : sent[i].to \in 0 .. given
      /\ InOrder /\ OnlyLastMessageEnds
  BY DEF AnswerInv, Sending, Spanned, Spans
<1>2. message \in [from : Nat, to : Nat, more : BOOLEAN]
  BY <1>1
<1> HIDE DEF message
<1>3. /\ sent' \in Seq([from : Nat, to : Nat, more : BOOLEAN])
      /\ Len(sent') = Len(sent) + 1 /\ Len(sent) \in Nat
      /\ DOMAIN sent = 1 .. Len(sent) /\ DOMAIN sent' = 1 .. Len(sent')
      /\ \A i \in DOMAIN sent : sent'[i] = sent[i]
      /\ sent'[Len(sent')] = message
  BY <1>1, <1>2 DEF message
<1>4. message.from = given /\ message.to = to /\ message.more = more
  BY DEF message
<1>5. BytesSent' = response.first .. to - 1
  <2>1. ASSUME NEW p PROVE p \in BytesSent <=> \E i \in DOMAIN sent : p \in Bytes(sent[i])
    BY DEF BytesSent
  <2>2. ASSUME NEW p PROVE p \in BytesSent' <=> \E i \in DOMAIN sent' : p \in Bytes(sent'[i])
    BY DEF BytesSent, Bytes
  <2>3. ASSUME NEW p PROVE p \in BytesSent' <=> p \in BytesSent \/ p \in Bytes(message)
    <3>1. /\ Len(sent') \in DOMAIN sent'
          /\ \A i \in DOMAIN sent' : i \in DOMAIN sent \/ i = Len(sent')
          /\ DOMAIN sent \subseteq DOMAIN sent'
      BY <1>3
    <3> QED
      BY <1>3, <2>1, <2>2, <3>1
  <2>4. Bytes(message) = given .. to - 1
    BY <1>4 DEF Bytes
  <2>5. BytesSent' = BytesSent \union given .. to - 1
    BY <2>3, <2>4
  <2> QED
    BY <1>1, <2>5
<1>6. \A i \in DOMAIN sent' : sent'[i].to \in 0 .. to
  <2> SUFFICES ASSUME NEW i \in DOMAIN sent' PROVE sent'[i].to \in 0 .. to
    OBVIOUS
  <2>1. CASE i = Len(sent')
    BY <1>3, <1>4, <2>1
  <2>2. CASE i # Len(sent')
    <3>1. i \in DOMAIN sent
      BY <1>3, <2>2
    <3> QED
      BY <1>1, <1>3, <3>1
  <2> QED
    BY <2>1, <2>2
<1>7. InOrder'
  <2> SUFFICES ASSUME NEW i \in DOMAIN sent', NEW j \in DOMAIN sent', i < j
               PROVE  sent'[i].to <= sent'[j].from
    BY DEF InOrder
  <2>1. i \in DOMAIN sent /\ sent'[i] = sent[i]
    BY <1>3
  <2>2. CASE j = Len(sent')
    BY <1>1, <1>3, <1>4, <2>1, <2>2
  <2>3. CASE j # Len(sent')
    <3>1. j \in DOMAIN sent /\ sent'[j] = sent[j]
      BY <1>3, <2>3
    <3> QED
      BY <1>1, <2>1, <3>1 DEF InOrder
  <2> QED
    BY <2>2, <2>3
<1>8. OnlyLastMessageEnds'
  <2>1. \A i \in DOMAIN sent : sent'[i].more
    BY <1>1, <1>3 DEF OnlyLastMessageEnds
  <2>2. \A i \in DOMAIN sent' : ~sent'[i].more <=> (ended' /\ i = Len(sent'))
    <3> SUFFICES ASSUME NEW i \in DOMAIN sent'
                 PROVE  ~sent'[i].more <=> (ended' /\ i = Len(sent'))
      OBVIOUS
    <3>1. CASE i = Len(sent')
      BY <1>3, <1>4, <3>1
    <3>2. CASE i # Len(sent')
      BY <1>3, <2>1, <3>2
    <3> QED
      BY <3>1, <3>2
  <2>3. sent' # << >>
    BY <1>3
  <2> QED
    BY <2>2, <2>3 DEF OnlyLastMessageEnds
<1> QED
  BY <1>3, <1>5, <1>6, <1>7, <1>8

\* What was found stays what it was while the body is sent.
LEMMA FoundStays ==
    ASSUME Found, Listed,
           UNCHANGED << file, request, response, prefix_provider_mapping, dav_properties >>
    PROVE  Found' /\ Listed'
<1>1. Matching(request.path)' = Matching(request.path)
  BY DEF Matching
<1>2. MatchProvider(request.path)' = MatchProvider(request.path)
  BY <1>1 DEF MatchProvider
<1>3. FileAt(MatchProvider(request.path), request.path)' = FileAt(MatchProvider(request.path), request.path)
  BY <1>2 DEF FileAt
<1>4. DoPropfind(MatchProvider(request.path), request.path, request.depth)'
        = DoPropfind(MatchProvider(request.path), request.path, request.depth)
  BY <1>2, ListingStays
<1> QED
  BY <1>1, <1>3, <1>4 DEF Found, Listed, Answered

\* The step that sends a part of the body, or lets the compressor take it in.
LEMMA SendInv ==
    ASSUME AnswerInv, Send, UNCHANGED << prefix_provider_mapping, dav_properties >>
    PROVE  AnswerInv'
<1>1. /\ response # NotYet /\ ~ended
      /\ UNCHANGED << file, request, response, prefix_provider_mapping, dav_properties >>
  BY DEF Send, SendRaw, SendCompressed
<1>2. Configured' /\ Spanned' /\ Found' /\ Listed'
  <2>1. Configured'
    BY <1>1 DEF AnswerInv, Configured
  <2>2. Spanned'
    BY <1>1 DEF AnswerInv, Spanned, Spans, BodyAsked
  <2>3. Found' /\ Listed'
    BY <1>1, FoundStays DEF AnswerInv
  <2> QED
    BY <2>1, <2>2, <2>3
<1>3. /\ start \in Nat /\ given \in Nat /\ response.last \in Int
      /\ response.first \in Nat /\ response.first <= given /\ given <= start
      /\ start <= response.last + 1
      /\ response.sender = "raw" => given = start
  BY <1>1 DEF AnswerInv, Sending, Spanned, Spans
<1>4. PICK chunk \in NextChunks : \E to :
        /\ to = chunk.to \/ (chunk.more /\ to \in {given} \union given .. chunk.to)
        /\ start' = chunk.to /\ given' = to /\ ended' = ~chunk.more
        /\ \/ sent' = Append(sent, [from |-> given, to |-> to, more |-> chunk.more])
           \/ sent' = sent /\ ~(to > given) /\ chunk.more
        /\ response.sender = "raw" => to = chunk.to
  <2>1. CASE SendRaw
    <3>1. given = start /\ response.sender = "raw"
      BY <1>3, <2>1 DEF SendRaw
    <3> QED
      BY <2>1, <3>1 DEF SendRaw
  <2>2. CASE SendCompressed
    <3>1. response.sender # "raw"
      BY <2>2 DEF SendCompressed
    <3>2. PICK chunk \in NextChunks : \E to \in Compressed(chunk) :
            /\ sent' = IF HasData(chunk, to)
                       THEN Append(sent, [from |-> given, to |-> to, more |-> chunk.more])
                       ELSE sent
            /\ start' = chunk.to /\ given' = to /\ ended' = ~chunk.more
      BY <2>2 DEF SendCompressed
    <3>3. PICK to \in Compressed(chunk) :
            /\ sent' = IF HasData(chunk, to)
                       THEN Append(sent, [from |-> given, to |-> to, more |-> chunk.more])
                       ELSE sent
            /\ start' = chunk.to /\ given' = to /\ ended' = ~chunk.more
      BY <3>2
    <3>4. to = chunk.to \/ (chunk.more /\ to \in {given} \union given .. chunk.to)
      BY <3>3, Zenon DEF Compressed
    <3>5. \/ sent' = Append(sent, [from |-> given, to |-> to, more |-> chunk.more])
          \/ sent' = sent /\ ~(to > given) /\ chunk.more
      BY <3>3 DEF HasData
    <3> QED
      BY <3>1, <3>3, <3>4, <3>5
  <2> QED
    BY <2>1, <2>2 DEF Send
<1>5. /\ chunk.to \in Nat /\ start <= chunk.to /\ chunk.to <= response.last + 1
      /\ chunk.more \in BOOLEAN
      /\ ~chunk.more => chunk.to = response.last + 1
  BY <1>1, ChunkReaches
<1> PICK to :
        /\ to = chunk.to \/ (chunk.more /\ to \in {given} \union given .. chunk.to)
        /\ start' = chunk.to /\ given' = to /\ ended' = ~chunk.more
        /\ \/ sent' = Append(sent, [from |-> given, to |-> to, more |-> chunk.more])
           \/ sent' = sent /\ ~(to > given) /\ chunk.more
        /\ response.sender = "raw" => to = chunk.to
  BY <1>4
<1>6. to \in Nat /\ given <= to /\ to <= chunk.to
  BY <1>3, <1>5
<1>10. ended' = ~chunk.more
  OBVIOUS
<1>11. ended' \in BOOLEAN /\ (ended' <=> ~chunk.more)
  BY <1>10, Zenon
<1>7. /\ start' \in Nat /\ given' \in Nat
      /\ response'.first <= given' /\ given' <= start' /\ start' <= response'.last + 1
      /\ response'.sender = "raw" => given' = start'
      /\ ended' => given' = response'.last + 1
  BY <1>1, <1>3, <1>5, <1>6, <1>11
<1>8. CASE sent' = Append(sent, [from |-> given, to |-> to, more |-> chunk.more])
  <2>1. /\ sent' \in Seq([from : Nat, to : Nat, more : BOOLEAN])
        /\ BytesSent' = response.first .. to - 1
        /\ \A i \in DOMAIN sent' : sent'[i].to \in 0 .. to
        /\ InOrder' /\ OnlyLastMessageEnds'
    BY <1>1, <1>5, <1>6, <1>8, MessageCarriesOn
  <2>2. Sending'
    BY <1>1, <1>7, <1>11, <2>1 DEF Sending
  <2> QED
    BY <1>2, <2>2 DEF AnswerInv
<1>9. CASE sent' = sent /\ ~(to > given) /\ chunk.more
  <2>1. given' = given /\ ~ended'
    BY <1>3, <1>6, <1>9, <1>11
  <2>2. BytesSent' = BytesSent /\ (InOrder' <=> InOrder)
    BY <1>9 DEF BytesSent, InOrder
  <2>3. OnlyLastMessageEnds'
    BY <1>1, <1>9, <2>1 DEF AnswerInv, Sending, OnlyLastMessageEnds
  <2>4. Sending'
    BY <1>1, <1>7, <1>9, <1>11, <2>1, <2>2, <2>3 DEF AnswerInv, Sending
  <2> QED
    BY <1>2, <2>4 DEF AnswerInv
<1> QED
  BY <1>8, <1>9

\* The invariant is inductive.
LEMMA NextAnswerInv == AnswerInv /\ [Next]_serverVars => AnswerInv'
<1> SUFFICES ASSUME AnswerInv, [Next]_serverVars PROVE AnswerInv'
  OBVIOUS
<1>1. CASE Distribute
  BY <1>1, DistributeInv
<1>2. CASE Send /\ UNCHANGED << prefix_provider_mapping, dav_properties >>
  BY <1>2, SendInv
<1>3. CASE UNCHANGED serverVars
  <2>1. UNCHANGED << file, request, response, start, given, ended, sent,
                     prefix_provider_mapping, dav_properties >>
    BY <1>3 DEF serverVars, answerVars
  <2>2. Configured' /\ Found' /\ Listed'
    BY <2>1, FoundStays DEF AnswerInv, Configured
  <2>3. Spanned'
    BY <2>1 DEF AnswerInv, Spanned, Spans, BodyAsked
  <2>4. Sending'
    BY <2>1 DEF AnswerInv, Sending, BytesSent, InOrder, OnlyLastMessageEnds
  <2> QED
    BY <2>2, <2>3, <2>4 DEF AnswerInv
<1> QED
  BY <1>1, <1>2, <1>3 DEF Next

\* From the start on, the response is to what was asked, and what is sent of it, found
\* and listed agrees with it.
THEOREM AnswerInvariant == Spec => []AnswerInv
BY InitAnswerInv, NextAnswerInv, PTL DEF Spec

-----------------------------------------------------------------------------
(* What a client is promised.                                              *)

\* The messages of every GET are the bytes asked for, in order and each once, and at
\* any moment a beginning of them.
THEOREM AlwaysSendsTheSlice == Spec => []SendsTheSlice
<1>1. ASSUME AnswerInv PROVE SendsTheSlice
  <2> SUFFICES ASSUME response # NotYet
               PROVE  /\ InOrder
                      /\ BytesSent \subseteq BodyAsked
                      /\ \A p \in BodyAsked, q \in BytesSent : p < q => p \in BytesSent
                      /\ ended => BytesSent = BodyAsked
    BY DEF SendsTheSlice
  <2>1. /\ BodyAsked = response.first .. response.last
        /\ response.first \in Nat /\ response.last \in Int
    BY <1>1 DEF AnswerInv, Spanned, Spans
  <2>2. /\ BytesSent = response.first .. given - 1 /\ InOrder /\ given \in Nat
        /\ given <= response.last + 1
        /\ ended => given = response.last + 1
    BY <1>1, <2>1 DEF AnswerInv, Sending
  <2> QED
    BY <2>1, <2>2
<1> QED
  BY <1>1, AnswerInvariant, PTL

\* The last message of a body, and no other, says that no more follows.
THEOREM OnlyLastAlwaysEnds == Spec => []OnlyLastMessageEnds
<1>1. AnswerInv => OnlyLastMessageEnds
  BY DEF AnswerInv, Sending
<1> QED
  BY <1>1, AnswerInvariant, PTL

\* How many bytes a span has.
LEMMA IntervalSize ==
    \A a, b \in Int : a <= b + 1 => Cardinality(a .. b) = b - a + 1
<1> SUFFICES ASSUME NEW a \in Int, NEW b \in Int, a <= b + 1
             PROVE  Cardinality(a .. b) = b - a + 1
  OBVIOUS
<1>1. Cardinality(a .. b) = IF a > b THEN 0 ELSE b - a + 1
  BY FS_Interval, Zenon
<1> QED
  BY <1>1

\* An announced length is that of the body.
THEOREM LengthAlwaysKept == Spec => []LengthIsKept
<1>1. ASSUME AnswerInv PROVE LengthIsKept
  <2> SUFFICES ASSUME ended, response.headers.length # Absent
               PROVE  InOrder /\ response.headers.length = Cardinality(BytesSent)
    BY DEF LengthIsKept
  <2>1. response # NotYet
    BY <1>1 DEF AnswerInv, Sending
  <2>2. /\ response.first \in Nat /\ response.last \in Int /\ response.first <= response.last + 1
        /\ response.headers.length = response.last - response.first + 1
    BY <1>1, <2>1 DEF AnswerInv, Spanned, Spans
  <2>3. BytesSent = response.first .. response.last /\ InOrder
    BY <1>1, <2>1, <2>2 DEF AnswerInv, Sending
  <2>4. Cardinality(response.first .. response.last) = response.last - response.first + 1
    BY <2>2, IntervalSize
  <2> QED
    BY <2>2, <2>3, <2>4
<1> QED
  BY <1>1, AnswerInvariant, PTL

\* A 206 names the bytes of its body.
THEOREM PartAlwaysNamed == Spec => []PartIsNamed
<1>1. ASSUME AnswerInv PROVE PartIsNamed
  <2> SUFFICES ASSUME ended, response.status = 206
               PROVE  /\ response.headers.range # NoRange
                      /\ BytesSent = response.headers.range[1] .. response.headers.range[2]
    BY DEF PartIsNamed
  <2>1. response # NotYet
    BY <1>1 DEF AnswerInv, Sending
  <2>2. /\ response.first \in Nat /\ response.last \in Int
        /\ response.headers.range = << response.first, response.last >>
        /\ response.headers.range # NoRange
    BY <1>1, <2>1 DEF AnswerInv, Spanned, Spans
  <2>3. BytesSent = response.first .. response.last
    BY <1>1, <2>1, <2>2 DEF AnswerInv, Sending
  <2> QED
    BY <2>2, <2>3
<1> QED
  BY <1>1, AnswerInvariant, PTL

\* The provider mapped deepest above a path is its owner, since no two prefixes are
\* the same.
LEMMA DeepestIsOwner ==
    ASSUME Configured, NEW path \in Seq(Segment), NEW first \in Range(prefix_provider_mapping),
           IsPrefix(first.prefix, path),
           \A other \in Range(prefix_provider_mapping) :
             IsPrefix(other.prefix, path) => Len(other.prefix) <= Len(first.prefix)
    PROVE  Owner(path) = first
<1> DEFINE Deepest(item) ==
              /\ IsPrefix(item.prefix, path)
              /\ \A other \in Range(prefix_provider_mapping) :
                   IsPrefix(other.prefix, path) => Len(other.prefix) <= Len(item.prefix)
<1>1. ASSUME NEW item \in Range(prefix_provider_mapping), Deepest(item) PROVE item = first
  <2>1. item.prefix \in Seq(Segment) /\ first.prefix \in Seq(Segment)
    BY WhatIsKept
  <2>2. Len(item.prefix) = Len(first.prefix)
    BY <1>1, <2>1
  <2>3. \A k \in 1 .. Len(first.prefix) : item.prefix[k] = first.prefix[k]
    BY <1>1, <2>1, <2>2, PrefixBySegment
  <2>4. item.prefix = first.prefix
    BY <2>1, <2>2, <2>3
  <2> QED
    BY <2>4, WhatIsConfigured DEF Range
<1>2. Deepest(first)
  OBVIOUS
<1>3. first = CHOOSE item \in Range(prefix_provider_mapping) : Deepest(item)
  BY <1>1, <1>2
<1> QED
  BY <1>3 DEF Owner

\* The first provider of the mapping that is above a path is the deepest one, since
\* the mapping is sorted.
LEMMA FirstIsOwner ==
    ASSUME Configured, NEW path \in Seq(Segment), Matching(path) # {}
    PROVE  /\ MatchProvider(path) = Owner(path)
           /\ Owner(path) \in Range(prefix_provider_mapping)
           /\ IsPrefix(Owner(path).prefix, path)
           /\ \A other \in Range(prefix_provider_mapping) :
                IsPrefix(other.prefix, path) => Len(other.prefix) <= Len(Owner(path).prefix)
<1>1. PICK i \in Matching(path) :
        MatchProvider(path) = prefix_provider_mapping[i] /\ \A j \in Matching(path) : i <= j
  BY MatchedProvider
<1> DEFINE first == prefix_provider_mapping[i]
<1>2. /\ DOMAIN prefix_provider_mapping \subseteq Nat
      /\ \A j \in DOMAIN prefix_provider_mapping :
           prefix_provider_mapping[j].prefix \in Seq(Segment)
      /\ \A j, k \in DOMAIN prefix_provider_mapping :
           j < k => Len(prefix_provider_mapping[j].prefix) >= Len(prefix_provider_mapping[k].prefix)
  BY WhatIsConfigured
<1>3. i \in DOMAIN prefix_provider_mapping /\ IsPrefix(first.prefix, path)
  BY DEF Matching, IsParentOfOrIsSelf
<1>4. \A j \in DOMAIN prefix_provider_mapping :
        IsPrefix(prefix_provider_mapping[j].prefix, path)
          => Len(prefix_provider_mapping[j].prefix) <= Len(first.prefix)
  <2> SUFFICES ASSUME NEW j \in DOMAIN prefix_provider_mapping,
                      IsPrefix(prefix_provider_mapping[j].prefix, path)
               PROVE  Len(prefix_provider_mapping[j].prefix) <= Len(first.prefix)
    OBVIOUS
  <2>1. i <= j /\ i \in Nat /\ j \in Nat
    BY <1>1, <1>2, <1>3 DEF Matching, IsParentOfOrIsSelf
  <2>2. Len(first.prefix) \in Nat
    BY <1>2, <1>3
  <2> QED
    BY <1>2, <1>3, <2>1, <2>2
<1>5. /\ first \in Range(prefix_provider_mapping)
      /\ \A other \in Range(prefix_provider_mapping) :
           IsPrefix(other.prefix, path) => Len(other.prefix) <= Len(first.prefix)
  BY <1>3, <1>4 DEF Range
<1>6. Owner(path) = first
  BY <1>3, <1>5, DeepestIsOwner
<1> QED
  BY <1>1, <1>3, <1>5, <1>6

\* The file of a GET is the deepest provider's, in whatever order the configuration
\* names the providers.
THEOREM AlwaysSentByOwner == Spec => []SentByOwner
<1>1. ASSUME AnswerInv PROVE SentByOwner
  <2> SUFFICES ASSUME Answered("GET", {200, 206, 404})
               PROVE  file = FileAt(Owner(request.path), request.path)
    BY DEF SentByOwner
  <2>1. Matching(request.path) # {}
    BY DEF Answered
  <2>2. MatchProvider(request.path) = Owner(request.path)
    BY <1>1, <2>1, FirstIsOwner, WhatIsConfigured DEF AnswerInv
  <2> QED
    BY <1>1, <2>2 DEF AnswerInv, Found
<1> QED
  BY <1>1, AnswerInvariant, PTL

-----------------------------------------------------------------------------
(* Listings                                                                *)

\* The paths directly below a path.
Members(path) == {p \in Path : IsParentOf(path, p) /\ Len(p) = Len(path) + 1}

\* What a provider has at a path, by the name it has there.
Keeps(item, path) == GetChild(path, item.prefix) \in DOMAIN item.files

\* There is something at a path when its owner keeps it.
LEMMA ThereIfKept ==
    ASSUME Configured, NEW path, NEW item \in Range(prefix_provider_mapping),
           Owner(path) = item, IsPrefix(item.prefix, path)
    PROVE  IsThere(path) <=> Keeps(item, path)
<1>1. Keeps(item, path) => item.files[GetChild(path, item.prefix)].kind \in {"file", "folder"}
  BY WhatIsKept DEF Keeps
<1>2. Keeps(item, path) => FileAt(item, path) # NoFile
  BY <1>1 DEF FileAt, Keeps, NoFile
<1>3. ~Keeps(item, path) => FileAt(item, path) = NoFile
  BY DEF FileAt, Keeps
<1> QED
  BY <1>2, <1>3 DEF IsThere

\* A member of a folder belongs to the provider mapped at it, or to the folder's.
LEMMA MemberOwner ==
    ASSUME Configured, NEW path \in Seq(Segment), Matching(path) # {},
           NEW p \in Seq(Segment), IsParentOf(path, p), Len(p) = Len(path) + 1
    PROVE  \/ Owner(p) \in Depth1ChildProviders(path) /\ Owner(p).prefix = p
           \/ /\ Owner(p) = Owner(path) /\ IsPrefix(Owner(path).prefix, p)
              /\ \A child \in Depth1ChildProviders(path) : child.prefix # p
<1>1. \A item \in Range(prefix_provider_mapping) : item.prefix \in Seq(Segment)
  BY WhatIsKept
<1>2. IsPrefix(path, p)
  BY DEF IsParentOf, IsStrictPrefix
<1>3. CASE \E item \in Range(prefix_provider_mapping) : item.prefix = p
  <2>1. PICK item \in Range(prefix_provider_mapping) : item.prefix = p
    BY <1>3
  <2>2. \A other \in Range(prefix_provider_mapping) :
          IsPrefix(other.prefix, p) => Len(other.prefix) <= Len(p)
    BY <1>1, PrefixBySegment
  <2>3. IsPrefix(p, p)
    BY PrefixBySegment
  <2>4. Owner(p) = item
    BY <2>1, <2>2, <2>3, DeepestIsOwner
  <2>5. Len(GetChild(p, path)) = 1
    <3>1. Len(GetChild(p, path)) = Len(p) - Len(path)
      BY <1>2, AddedChild
    <3> QED
      BY <3>1
  <2> QED
    BY <2>1, <2>4, <2>5 DEF Depth1ChildProviders
<1>4. CASE \A item \in Range(prefix_provider_mapping) : item.prefix # p
  <2> DEFINE owner == Owner(path)
  <2>1. /\ owner \in Range(prefix_provider_mapping) /\ IsPrefix(owner.prefix, path)
        /\ \A other \in Range(prefix_provider_mapping) :
             IsPrefix(other.prefix, path) => Len(other.prefix) <= Len(owner.prefix)
    BY FirstIsOwner
  <2>2. IsPrefix(owner.prefix, p)
    BY <1>1, <1>2, <2>1, PrefixTransitive
  <2>3. ASSUME NEW other \in Range(prefix_provider_mapping), IsPrefix(other.prefix, p)
        PROVE  Len(other.prefix) <= Len(owner.prefix)
    <3>1. other.prefix \in Seq(Segment) /\ other.prefix # p
      BY <1>1, <1>4
    <3>2. Len(other.prefix) <= Len(p) /\ \A i \in 1 .. Len(other.prefix) : other.prefix[i] = p[i]
      BY <2>3, <3>1, PrefixBySegment
    <3>3. Len(other.prefix) # Len(p)
      BY <3>1, <3>2, SameSequence
    <3>4. Len(other.prefix) <= Len(path)
      BY <3>1, <3>2, <3>3
    <3>5. \A i \in 1 .. Len(path) : path[i] = p[i]
      BY <1>2, PrefixBySegment
    <3>6. IsPrefix(other.prefix, path)
      BY <3>1, <3>2, <3>4, <3>5, PrefixBySegment
    <3> QED
      BY <2>1, <3>6
  <2>4. Owner(p) = owner
    BY <2>1, <2>2, <2>3, DeepestIsOwner
  <2> QED
    BY <1>4, <2>2, <2>4 DEF Depth1ChildProviders
<1> QED
  BY <1>3, <1>4

\* What is mapped directly below a path is a member of it.
LEMMA ChildIsMember ==
    ASSUME Configured, NEW path \in Seq(Segment), NEW child \in Depth1ChildProviders(path)
    PROVE  child.prefix \in Members(path)
<1>1. /\ child \in Range(prefix_provider_mapping) /\ IsParentOf(path, child.prefix)
      /\ Len(GetChild(child.prefix, path)) = 1
  BY DEF Depth1ChildProviders
<1>2. child.prefix \in Path /\ child.prefix \in Seq(Segment)
  BY <1>1, WhatIsKept
<1>3. Len(GetChild(child.prefix, path)) = Len(child.prefix) - Len(path)
  BY <1>1, <1>2, AddedChild DEF IsParentOf, IsStrictPrefix
<1>4. Len(child.prefix) \in Nat /\ Len(path) \in Nat
  BY <1>2
<1>5. Len(child.prefix) = Len(path) + 1
  <2>1. Len(child.prefix) - Len(path) = 1
    BY <1>1, <1>3
  <2> QED
    BY <1>4, <2>1
<1> QED
  BY <1>1, <1>2, <1>5 DEF Members

\* The members a provider keeps are those it keeps directly below its name of the path.
LEMMA MembersKept ==
    ASSUME Configured, NEW item \in Range(prefix_provider_mapping), ~item.home_dir,
           NEW path \in Seq(Segment), IsPrefix(item.prefix, path)
    PROVE  {AddChild(item.prefix, q) : q \in Below(item.files, GetChild(path, item.prefix), "ONE")}
             = {p \in Members(path) : Keeps(item, p)}
<1> DEFINE child == GetChild(path, item.prefix)
<1>1. item.prefix \in Seq(Segment) /\ DOMAIN item.files \subseteq Seq(Segment)
  BY WhatIsKept
<1>2. child \in Seq(Segment) /\ AddChild(item.prefix, child) = path
  BY <1>1, AddedChild
<1>3. /\ Len(path) \in Nat /\ Len(item.prefix) \in Nat /\ Len(child) \in Nat
      /\ Len(path) = Len(item.prefix) + Len(child)
  <2>1. Len(path) \in Nat /\ Len(item.prefix) \in Nat
    BY <1>1
  <2>2. Len(child) = Len(path) - Len(item.prefix) /\ Len(child) \in Nat
    <3>1. Len(child) = Len(path) - Len(item.prefix)
      BY <1>1, AddedChild
    <3>2. Len(child) \in Nat
      <4> HIDE DEF child
      <4> QED
        BY <1>2
    <3> QED
      BY <3>1, <3>2
  <2> HIDE DEF child
  <2> QED
    BY <2>1, <2>2
<1> HIDE DEF child
<1>6. /\ Len(item.prefix) + (Len(child) + 1) = Len(path) + 1
      /\ (Len(path) + 1) - Len(item.prefix) = Len(child) + 1
  <2>1. \A k, m, n \in Nat : n = k + m => k + (m + 1) = n + 1 /\ (n + 1) - k = m + 1
    OBVIOUS
  <2> QED
    BY <1>3, <2>1, Zenon
<1>4. ASSUME NEW q \in Below(item.files, child, "ONE")
      PROVE  AddChild(item.prefix, q) \in Members(path) /\ Keeps(item, AddChild(item.prefix, q))
  <2>1. /\ q \in DOMAIN item.files /\ q \in Seq(Segment)
        /\ IsParentOf(child, q) /\ Len(q) = Len(child) + 1
    BY <1>1 DEF Below
  <2>2. IsParentOf(path, AddChild(item.prefix, q))
    <3>1. IsParentOf(AddChild(item.prefix, child), AddChild(item.prefix, q))
      BY <1>1, <1>2, <2>1, MemberFrom
    <3> QED
      BY <1>2, <3>1
  <2>3. /\ Len(AddChild(item.prefix, q)) = Len(item.prefix) + Len(q)
        /\ GetChild(AddChild(item.prefix, q), item.prefix) = q
    BY <1>1, <2>1, ChildOfAdded
  <2>4. Len(AddChild(item.prefix, q)) = Len(path) + 1
    <3>1. Len(AddChild(item.prefix, q)) = Len(item.prefix) + (Len(child) + 1)
      BY <2>1, <2>3
    <3> QED
      BY <1>6, <3>1
  <2>5. AddChild(item.prefix, q) \in Path
    BY <2>1, WhatIsKept
  <2> QED
    BY <2>1, <2>2, <2>3, <2>4, <2>5 DEF Members, Keeps
<1>5. ASSUME NEW p \in Members(path), Keeps(item, p)
      PROVE  \E q \in Below(item.files, child, "ONE") : p = AddChild(item.prefix, q)
  <2> DEFINE q == GetChild(p, item.prefix)
  <2>1. p \in Seq(Segment) /\ IsParentOf(path, p) /\ Len(p) = Len(path) + 1
    BY PathAssumption DEF Members
  <2>2. IsPrefix(item.prefix, p)
    BY <1>1, <2>1, PrefixTransitive DEF IsParentOf, IsStrictPrefix
  <2>3. q \in Seq(Segment) /\ Len(q) = Len(p) - Len(item.prefix) /\ AddChild(item.prefix, q) = p
    BY <1>1, <2>1, <2>2, AddedChild
  <2>7. q = GetChild(p, item.prefix)
    OBVIOUS
  <2> HIDE DEF q
  <2>4. IsParentOf(AddChild(item.prefix, child), AddChild(item.prefix, q))
    BY <1>2, <2>1, <2>3
  <2>5. IsParentOf(child, q)
    BY <1>1, <1>2, <2>3, <2>4, MemberFrom
  <2>6. Len(q) = Len(child) + 1
    <3>1. Len(q) = (Len(path) + 1) - Len(item.prefix)
      BY <2>1, <2>3
    <3> QED
      BY <1>6, <3>1
  <2> QED
    BY <1>5, <2>3, <2>5, <2>6, <2>7 DEF Below, Keeps
<1> QED
  BY <1>4, <1>5 DEF child

\* Who keeps a member of a path keeps the path.
LEMMA FolderOfKept ==
    ASSUME Configured, NEW item \in Range(prefix_provider_mapping),
           NEW path \in Seq(Segment), IsPrefix(item.prefix, path),
           NEW q \in Below(item.files, GetChild(path, item.prefix), "ONE")
    PROVE  Keeps(item, path)
<1> DEFINE child == GetChild(path, item.prefix)
<1>1. item.prefix \in Seq(Segment)
  BY WhatIsKept
<1>2. child \in Seq(Segment)
  BY <1>1, AddedChild
<1>3. /\ q \in DOMAIN item.files /\ IsPrefix(child, q) /\ Len(q) = Len(child) + 1
  BY DEF Below, IsParentOf, IsStrictPrefix
<1>4. q \in Seq(Segment) /\ (q # << >> => Parent(q) \in DOMAIN item.files)
  BY <1>3, WhatIsKept
<1>5. q # << >>
  BY <1>2, <1>3
<1>6. child = SubSeq(q, 1, Len(child))
  BY <1>2, <1>3, <1>4, PrefixIsFirst
<1>7. Len(q) - 1 = Len(child)
  BY <1>2, <1>3
<1>8. Parent(q) = child
  BY <1>6, <1>7 DEF Parent
<1> QED
  BY <1>4, <1>5, <1>8 DEF Keeps
\* What a provider shows of a path and its members is what it keeps of them.
LEMMA OwnListing ==
    ASSUME Configured, NEW item \in Range(prefix_provider_mapping), ~item.home_dir,
           NEW path \in Seq(Segment), IsPrefix(item.prefix, path),
           NEW depth \in {"ZERO", "ONE"},
           item.type = "webhdfs" /\ depth = "ONE" => item.prefix = << >>
    PROVE  ProviderPropfind(item, path, depth)
             = {p \in (IF depth = "ONE" /\ item.type = "memory" THEN {} ELSE {path})
                        \union (IF depth = "ZERO" THEN {} ELSE Members(path)) : Keeps(item, p)}
<1> DEFINE child == GetChild(path, item.prefix)
           below == {AddChild(item.prefix, q) : q \in Below(item.files, child, "ONE")}
<1>1. item.type \in {"memory", "file_system", "webhdfs"} /\ item.prefix \in Seq(Segment)
  BY WhatIsKept
<1>2. AddChild(item.prefix, child) = path
  BY <1>1, AddedChild
<1>3. below = {p \in Members(path) : Keeps(item, p)}
  BY MembersKept
<1>4. Keeps(item, path) <=> child \in DOMAIN item.files
  BY DEF Keeps
<1>5. below # {} => Keeps(item, path)
  BY FolderOfKept
<1>6. CASE ~Keeps(item, path)
  <2>1. ProviderPropfind(item, path, depth) = {}
    BY <1>4, <1>6 DEF ProviderPropfind
  <2>2. \A p \in Members(path) : ~Keeps(item, p)
    BY <1>3, <1>5, <1>6
  <2> QED
    BY <1>6, <2>1, <2>2
<1>7. CASE Keeps(item, path) /\ depth = "ZERO"
  <2>1. ProviderPropfind(item, path, depth) = {path}
    <3>1. CASE item.type = "webhdfs"
      BY <1>4, <1>7, <3>1 DEF ProviderPropfind, RemotePropfind
    <3>2. CASE item.type = "memory"
      BY <1>2, <1>4, <1>7, <3>2 DEF ProviderPropfind, MemoryPropfind
    <3>3. CASE item.type = "file_system"
      BY <1>2, <1>4, <1>7, <3>3 DEF ProviderPropfind, FileSystemPropfind
    <3> QED
      BY <1>1, <3>1, <3>2, <3>3
  <2> QED
    BY <1>7, <2>1
<1>8. CASE Keeps(item, path) /\ depth = "ONE"
  <2>1. CASE item.type = "memory"
    <3>1. ProviderPropfind(item, path, depth) = below
      BY <1>4, <1>8, <2>1 DEF ProviderPropfind, MemoryPropfind
    <3> QED
      BY <1>3, <1>8, <2>1, <3>1
  <2>2. CASE item.type = "file_system"
    <3>1. ProviderPropfind(item, path, depth) = {path} \union below
      BY <1>2, <1>4, <1>8, <2>2 DEF ProviderPropfind, FileSystemPropfind
    <3> QED
      BY <1>3, <1>8, <2>2, <3>1
  <2>3. CASE item.type = "webhdfs"
    <3>1. ProviderPropfind(item, path, depth) = {path} \union below
      BY <1>4, <1>8, <2>3 DEF ProviderPropfind, RemotePropfind
    <3> QED
      BY <1>3, <1>8, <2>3, <3>1
  <2> QED
    BY <1>1, <2>1, <2>2, <2>3
<1> QED
  BY <1>6, <1>7, <1>8

\* A provider shows the folder it is mapped at, and keeps it.
LEMMA ChildListing ==
    ASSUME Configured, NEW item \in Range(prefix_provider_mapping)
    PROVE  /\ ProviderPropfind(item, item.prefix, "ZERO") = {item.prefix}
           /\ Keeps(item, item.prefix) /\ IsPrefix(item.prefix, item.prefix)
<1>1. /\ item.type \in {"memory", "file_system", "webhdfs"} /\ item.prefix \in Seq(Segment)
      /\ << >> \in DOMAIN item.files
  BY WhatIsKept
<1>2. GetChild(item.prefix, item.prefix) = << >>
  BY <1>1 DEF GetChild
<1>3. IsPrefix(item.prefix, item.prefix)
  BY <1>1, PrefixBySegment
<1>4. AddChild(item.prefix, << >>) = item.prefix
  BY <1>1, <1>2, <1>3, AddedChild
<1>5. ProviderPropfind(item, item.prefix, "ZERO") = {item.prefix}
  <2>1. CASE item.type = "webhdfs"
    BY <1>1, <1>2, <2>1 DEF ProviderPropfind, RemotePropfind
  <2>2. CASE item.type = "memory"
    BY <1>1, <1>2, <1>4, <2>2 DEF ProviderPropfind, MemoryPropfind
  <2>3. CASE item.type = "file_system"
    BY <1>1, <1>2, <1>4, <2>3 DEF ProviderPropfind, FileSystemPropfind
  <2> QED
    BY <1>1, <2>1, <2>2, <2>3
<1> QED
  BY <1>1, <1>2, <1>3, <1>5 DEF Keeps

\* What a listing of Depth 0 or 1 shows, for any mapping of any providers.
LEMMA ListingIsWhatIsThere ==
    ASSUME Configured, NEW path \in Seq(Segment), NEW depth \in {"ZERO", "ONE"},
           Matching(path) # {}, ~Owner(path).home_dir,
           Owner(path).type = "webhdfs" /\ depth = "ONE" => Owner(path).prefix = << >>
    PROVE  DoPropfind(Owner(path), path, depth)
             = {p \in (IF depth = "ONE" /\ Owner(path).type = "memory" THEN {} ELSE {path})
                        \union (IF depth = "ZERO" THEN {} ELSE Members(path)) :
                  IsThere(p) /\ MayPass(Owner(p), p)}
<1> DEFINE owner == Owner(path)
           self == IF depth = "ONE" /\ owner.type = "memory" THEN {} ELSE {path}
           members == IF depth = "ZERO" THEN {} ELSE Members(path)
           children == IF depth = "ZERO" THEN {} ELSE Depth1ChildProviders(path)
<1>1. owner \in Range(prefix_provider_mapping) /\ IsPrefix(owner.prefix, path)
  BY FirstIsOwner
<1>2. ProviderPropfind(owner, path, depth) = {p \in self \union members : Keeps(owner, p)}
  BY <1>1, OwnListing
<1>3. \A child \in children : ProviderPropfind(child, child.prefix, "ZERO") = {child.prefix}
  BY ChildListing DEF Depth1ChildProviders
<1>4. ASSUME NEW p
      PROVE  p \in DoPropfind(owner, path, depth) <=>
               \/ p \in self \union members /\ Keeps(owner, p) /\ MayPass(owner, p)
               \/ \E child \in children : p = child.prefix /\ MayPass(child, p)
  <2>1. ~owner.home_dir
    OBVIOUS
  <2> HIDE DEF owner, self, members
  <2>2. DoPropfind(owner, path, depth) =
          {x \in ProviderPropfind(owner, path, depth) : MayPass(owner, x)}
          \union UNION {{x \in ProviderPropfind(item, item.prefix, "ZERO") : MayPass(item, x)} :
                          item \in children}
    BY <2>1 DEF DoPropfind
  <2> HIDE DEF children
  <2>3. p \in UNION {{x \in ProviderPropfind(item, item.prefix, "ZERO") : MayPass(item, x)} :
                        item \in children}
          <=> \E child \in children : p = child.prefix /\ MayPass(child, p)
    <3>1. \A child \in children :
            p \in ProviderPropfind(child, child.prefix, "ZERO") <=> p = child.prefix
      BY <1>3
    <3>2. \A child \in children :
            p \in {x \in ProviderPropfind(child, child.prefix, "ZERO") : MayPass(child, x)}
              <=> p = child.prefix /\ MayPass(child, p)
      BY <3>1
    <3>3. p \in UNION {{x \in ProviderPropfind(item, item.prefix, "ZERO") : MayPass(item, x)} :
                          item \in children}
            <=> \E child \in children :
                  p \in {x \in ProviderPropfind(child, child.prefix, "ZERO") : MayPass(child, x)}
      <4> DEFINE shown(item) == {x \in ProviderPropfind(item, item.prefix, "ZERO") : MayPass(item, x)}
      <4> HIDE DEF shown
      <4>1. p \in UNION {shown(item) : item \in children} <=> \E child \in children : p \in shown(child)
        OBVIOUS
      <4> QED
        BY <4>1 DEF shown
    <3> QED
      BY <3>2, <3>3
  <2> QED
    BY <1>2, <2>2, <2>3
<1>5. ASSUME NEW p \in self
      PROVE  p \in DoPropfind(owner, path, depth) <=> IsThere(p) /\ MayPass(Owner(p), p)
  <2>1. p = path
    OBVIOUS
  <2>2. \A child \in children : p # child.prefix
    BY <2>1 DEF Depth1ChildProviders, IsParentOf, IsStrictPrefix
  <2>3. IsThere(p) <=> Keeps(owner, p)
    BY <1>1, <2>1, ThereIfKept
  <2> QED
    BY <1>4, <2>1, <2>2, <2>3
<1>6. ASSUME NEW p \in members
      PROVE  p \in DoPropfind(owner, path, depth) <=> IsThere(p) /\ MayPass(Owner(p), p)
  <2>1. /\ depth = "ONE" /\ p \in Seq(Segment)
        /\ IsParentOf(path, p) /\ Len(p) = Len(path) + 1
    BY PathAssumption DEF Members
  <2>2. CASE Owner(p) \in Depth1ChildProviders(path) /\ Owner(p).prefix = p
    <3>1. Owner(p) \in children /\ Owner(p) \in Range(prefix_provider_mapping)
      BY <2>1, <2>2 DEF Depth1ChildProviders
    <3>2. IsThere(p)
      BY <2>2, <3>1, ChildListing, ThereIfKept
    <3>3. MayPass(owner, p) => MayPass(Owner(p), p)
      BY DEF MayPass
    <3>4. \A child \in children : p = child.prefix => child = Owner(p)
      BY <2>2, <3>1, WhatIsConfigured DEF Depth1ChildProviders, Range
    <3> QED
      BY <1>4, <2>2, <3>1, <3>2, <3>3, <3>4
  <2>3. CASE /\ Owner(p) = owner /\ IsPrefix(owner.prefix, p)
             /\ \A child \in Depth1ChildProviders(path) : child.prefix # p
    <3>1. IsThere(p) <=> Keeps(owner, p)
      BY <1>1, <2>3, ThereIfKept
    <3> QED
      BY <1>4, <2>1, <2>3, <3>1
  <2> QED
    BY <2>1, <2>2, <2>3, MemberOwner
<1>7. ASSUME NEW p \in DoPropfind(owner, path, depth)
      PROVE  p \in self \union members
  <2>1. \A child \in children : child.prefix \in members
    BY ChildIsMember
  <2> QED
    BY <1>4, <1>7, <2>1
<1> QED
  BY <1>5, <1>6, <1>7

\* A listing of Depth 0 or 1 shows exactly what a GET of the same user would find.
THEOREM AlwaysListsWhatIsThere == Spec => []ListsWhatIsThere
<1>1. ASSUME AnswerInv PROVE ListsWhatIsThere
  <2> DEFINE path == request.path
             owner == Owner(path)
  <2> SUFFICES ASSUME Answered("PROPFIND", {207, 404}), request.depth # "INFINITY", ~owner.home_dir,
                      owner.type = "webhdfs" /\ request.depth = "ONE" => owner.prefix = << >>
               PROVE  dav_properties =
                        {p \in (IF request.depth = "ONE" /\ owner.type = "memory" THEN {} ELSE {path})
                                 \union (IF request.depth = "ZERO" THEN {} ELSE Members(path)) :
                           IsThere(p) /\ MayPass(Owner(p), p)}
    BY DEF ListsWhatIsThere, Members
  <2>1. Configured /\ Matching(path) # {}
    BY <1>1 DEF AnswerInv, Answered
  <2>2. path \in Seq(Segment) /\ request.depth \in {"ZERO", "ONE"}
    BY <2>1, WhatIsAsked
  <2>3. MatchProvider(path) = owner
    BY <2>1, <2>2, FirstIsOwner
  <2>4. dav_properties = DoPropfind(owner, path, request.depth)
    BY <1>1, <2>3 DEF AnswerInv, Listed
  <2> QED
    BY <2>1, <2>2, <2>4, ListingIsWhatIsThere
<1> QED
  BY <1>1, AnswerInvariant, PTL
===============================================================================
