---------------------------- MODULE GetResponse ----------------------------
(***************************************************************************)
(* The answer to one request, and to a GET above all, from the Range       *)
(* header to the last message of the body: request.py parses the ranges,   *)
(* the provider picks what it answers, web_dav.py builds the response,     *)
(* response.py chooses a sender and the sender forwards what the body      *)
(* generator yields.  Which resource is asked for, WebDAV decides.         *)
(*                                                                         *)
(* The bytes of a body are the positions 0 .. size - 1, so that a message  *)
(* is an interval [from, to) and the flag more_body.  What a compressor    *)
(* puts out is modelled by the bytes a client can decode from it.          *)
(***************************************************************************)
EXTENDS Integers, Sequences, FiniteSets

CONSTANTS
    BlockSize,            \* RESPONSE_DATA_BLOCK_SIZE
    CompressionMinimum,   \* DEFAULT_COMPRESSION_CONTENT_MINIMUM_LENGTH
    PageSize              \* the length of a page or an XML body the server makes

Absent == -1              \* a number that is not in the header
NoRange == << >>

ASSUME BlockSizeAssumption ==
    BlockSize \in Nat \ {0} /\ CompressionMinimum \in Nat /\ PageSize \in Nat

VARIABLES
    request,    \* its ranges, If-Range, Accept-Encoding, user agent, and target
    file,       \* what is at the path: kind, size, provider, compressible
    response,   \* the DAVResponse and its sender's headers, NotYet before
    start,      \* where the body generator stands
    given,      \* how much of it the sender has passed on
    ended,      \* the generator has yielded its last part
    sent        \* the http.response.body messages

answerVars == << file, request, response, start, given, ended, sent >>

NotYet == [status |-> 0]
NoFile == [kind |-> "none", size |-> 0, provider |-> "none", compressible |-> FALSE]

-----------------------------------------------------------------------------
(* The Range header.                                                       *)

IsLastBytes(range) == range.first = Absent

\* A range the parser passes over in silence.
IsDropped(range) ==
    \/ range.first # Absent /\ range.last # Absent /\ range.first >= range.last
    \/ IsLastBytes(range) /\ range.last \in {0, Absent}

KeptRanges(header) == {i \in DOMAIN header : ~IsDropped(header[i])}

\* Of several ranges none may be a suffix, or all are passed over.
HasRange(header) ==
    LET kept == KeptRanges(header)
    IN  kept # {} /\ \A i, j \in kept : IsLastBytes(header[i]) => i = j

\* The only one that is answered.
FirstRange(header) ==
    header[CHOOSE i \in KeptRanges(header) : \A j \in KeptRanges(header) : i <= j]

\* The bytes to answer with, NoRange when the file has no such part.  A range
\* that begins with the last byte, or ends behind it, counts as none.
ContentRange(range, size) ==
    LET max == size - 1
        first == IF IsLastBytes(range) THEN size - range.last ELSE range.first
        last == IF IsLastBytes(range) \/ range.last = Absent THEN max ELSE range.last
    IN  IF \/ size <= 1
           \/ IsLastBytes(range) /\ first < 0
           \/ ~IsLastBytes(range) /\ (first >= max \/ last > max)
        THEN NoRange
        ELSE << first, last >>

-----------------------------------------------------------------------------
(* The provider's answer.  The memory and the file system provider take    *)
(* the same decisions; WebHDFS knows no If-Range, and gives a range always. *)

ProviderGet(f, r) ==
    LET range == IF HasRange(r.ranges) THEN ContentRange(FirstRange(r.ranges), f.size)
                                       ELSE NoRange
        Answer(status, body, range_) ==
            [status |-> status, body |-> body, range |-> range_]
        whole == IF f.provider = "webhdfs" THEN << 0, f.size - 1 >> ELSE NoRange
        changed == f.provider # "webhdfs" /\ r.if_range = "differs"
    IN  CASE f.kind = "none"   -> Answer(404, FALSE, NoRange)
          [] f.kind = "folder" -> Answer(200, FALSE, NoRange)
          [] OTHER -> IF range = NoRange THEN Answer(200, TRUE, whole)
                      ELSE IF changed THEN Answer(416, FALSE, range)
                      ELSE Answer(206, TRUE, range)

-----------------------------------------------------------------------------
(* The response and its sender.                                            *)

\* A mutant: a part of a file is compressed like the whole.
SenderOfAnything(r, compressible, size, range) ==
    IF ~compressible \/ size < CompressionMinimum \/ r.encodings = {}
    THEN "raw"
    ELSE CHOOSE name \in {"zstd", "deflate", "gzip"} : name \in r.encodings

MatchSender(r, compressible, size, range) ==
    CASE range # NoRange \/ size < CompressionMinimum \/ ~compressible -> "raw"
      [] OTHER -> IF "zstd" \in r.encodings THEN "zstd"
                  ELSE IF "deflate" \in r.encodings THEN "deflate"
                  ELSE IF "gzip" \in r.encodings THEN "gzip"
                  ELSE "raw"

\* A mutant: Content-Length is that of the file also when a part is sent.
WholeLengthHeaders(sender, size, range) ==
    [length |-> IF sender = "raw" THEN size ELSE Absent,
     range  |-> IF sender = "raw" THEN range ELSE NoRange]

\* Content-Length and Content-Range, as the sender's constructor sets them.
SenderHeaders(sender, size, range) ==
    [length |-> CASE sender # "raw"   -> Absent
                  [] range = NoRange  -> size
                  [] OTHER            -> range[2] - range[1] + 1,
     range  |-> IF sender = "raw" THEN range ELSE NoRange]

\* The response whose body is the bytes first .. last of `of'.
MakeResponse(r, status, of, compressible, size, range) ==
    LET sender == MatchSender(r, compressible, size, range)
    IN  [status  |-> status,
         of      |-> of,
         first   |-> IF range = NoRange THEN 0 ELSE range[1],
         last    |-> IF range = NoRange THEN size - 1 ELSE range[2],
         sender  |-> sender,
         headers |-> SenderHeaders(sender, size, range)]

\* DAV.do_get.  An answer without a body that is not an error is taken for a
\* folder's, whatever its status.
DoGet(f, r) ==
    LET answer == ProviderGet(f, r) IN
    CASE answer.status \notin {200, 206, 416} ->
            MakeResponse(r, answer.status, "nothing", TRUE, 0, NoRange)
      [] answer.body ->
            MakeResponse(r, answer.status, f.provider, f.compressible, f.size,
                         answer.range)
      [] ~answer.body /\ answer.status # 404 /\ ~r.browser ->
            MakeResponse(r, 200, "nothing", TRUE, 0, NoRange)
      [] OTHER ->
            MakeResponse(r, 200, "page", TRUE, PageSize, NoRange)

-----------------------------------------------------------------------------
(* The body generators: what the next part reaches to, and more_body.      *)

\* A mutant: the last part is content[start : end], without its last byte.
BytesChunkShort(from, last) ==
    IF from + BlockSize - 1 >= last THEN [to |-> last, more |-> FALSE]
    ELSE [to |-> from + BlockSize, more |-> TRUE]

\* get_response_body_generator: content that is held in memory.
BytesChunk(from, last) ==
    IF from + BlockSize - 1 >= last THEN [to |-> last + 1, more |-> FALSE]
    ELSE [to |-> from + BlockSize, more |-> TRUE]

\* _dav_response_body_generator: a file that is read as it is sent.  A full
\* part is never the last one, with a range and without.
FileChunk(from, last) ==
    IF last - from + 1 < BlockSize THEN [to |-> last + 1, more |-> FALSE]
    ELSE [to |-> from + BlockSize, more |-> TRUE]

\* _dav_response_data_generator: what the remote server sends, in pieces of its
\* choice, the last of them known because the generator holds one piece back.
RemoteChunks(from, last) ==
    {chunk \in [to : from + 1 .. last + 1, more : BOOLEAN] : chunk.more <=> chunk.to <= last}

NextChunks ==
    CASE response.of = "file_system" -> {FileChunk(start, response.last)}
      [] response.of = "webhdfs"     -> RemoteChunks(start, response.last)
      [] OTHER                       -> {BytesChunk(start, response.last)}

\* How far a client can decode what the compressor has put out when it has
\* taken in the next part: gzip keeps all until the flush, the others choose.
Compressed(chunk) ==
    IF ~chunk.more THEN {chunk.to}
    ELSE IF response.sender = "gzip" THEN {given} ELSE given .. chunk.to

\* A mutant: the compressor is not flushed, it puts out no end of its stream.
UnflushedHasData(chunk, to) == to > given

\* Whether there is anything to send: the flush always ends the stream, and deflate
\* begins it, with a header, at the first part.
HasData(chunk, to) ==
    to > given \/ ~chunk.more \/ (response.sender = "deflate" /\ start = response.first)

-----------------------------------------------------------------------------
InitAnswer ==
    /\ file = NoFile
    /\ response = NotYet
    /\ start = 0
    /\ given = 0
    /\ ended = FALSE
    /\ sent = << >>

\* The handler returns its response.
Respond(answer) ==
    /\ response' = answer
    /\ start' = answer.first
    /\ given' = answer.first
    /\ UNCHANGED << request, ended, sent >>

SendRaw ==
    /\ response # NotYet /\ ~ended
    /\ response.sender = "raw"
    /\ \E chunk \in NextChunks :
         /\ sent' = Append(sent, [from |-> start, to |-> chunk.to,
                                  more |-> chunk.more])
         /\ start' = chunk.to
         /\ given' = chunk.to
         /\ ended' = ~chunk.more
    /\ UNCHANGED << file, request, response >>

\* DAVSenderCompressionAbc.send_it: a part the compressor keeps is no message.
SendCompressed ==
    /\ response # NotYet /\ ~ended
    /\ response.sender # "raw"
    /\ \E chunk \in NextChunks : \E to \in Compressed(chunk) :
         /\ sent' = IF HasData(chunk, to)
                    THEN Append(sent, [from |-> given, to |-> to,
                                       more |-> chunk.more])
                    ELSE sent
         /\ start' = chunk.to
         /\ given' = to
         /\ ended' = ~chunk.more
    /\ UNCHANGED << file, request, response >>

Send == SendRaw \/ SendCompressed

-----------------------------------------------------------------------------
(* What a client is promised.                                              *)

Bytes(message) == message.from .. message.to - 1
BytesSent == UNION {Bytes(sent[i]) : i \in DOMAIN sent}

\* The positions that the header's first usable range names, read from the
\* header's definition: between the two ends, or among the last so many.
Named(header, size) ==
    LET range == FirstRange(header)
    IN  {p \in 0 .. size - 1 :
           IF IsLastBytes(range) THEN p >= size - range.last
           ELSE p >= range.first /\ (range.last # Absent => p <= range.last)}

BodyAsked ==
    CASE response.of \in {"memory", "file_system", "webhdfs"} ->
            IF response.status = 206 THEN Named(request.ranges, file.size)
                                     ELSE 0 .. file.size - 1
      [] response.of = "page" -> 0 .. PageSize - 1
      [] OTHER                   -> {}

\* The messages are sent in the order of their bytes, and none repeats a byte.
InOrder == \A i, j \in DOMAIN sent : i < j => sent[i].to <= sent[j].from

\* The body that is sent is, byte for byte and in order, the whole resource
\* under 200 and the first range of the request under 206, for each of the
\* generators and senders; and at every moment it is a beginning of that.
SendsTheSlice ==
    response # NotYet =>
        /\ InOrder
        /\ BytesSent \subseteq BodyAsked
        /\ \A p \in BodyAsked, q \in BytesSent : p < q => p \in BytesSent
        /\ ended => BytesSent = BodyAsked

\* Exactly the last message says that no more follows, and an exchange that
\* has ended has such a message: a client neither stops early nor waits on.
OnlyLastMessageEnds ==
    /\ \A i \in DOMAIN sent : ~sent[i].more <=> (ended /\ i = Len(sent))
    /\ ended => sent # << >>

\* A Content-Length that is announced is the number of bytes that are sent,
\* which an HTTP client relies on to find the next response.
LengthIsKept ==
    ended /\ response.headers.length # Absent =>
        InOrder /\ response.headers.length = Cardinality(BytesSent)

\* A 206 names, in Content-Range, the very bytes its body consists of: such a
\* response is never given to a compressing sender, which would leave it out.
PartIsNamed ==
    ended /\ response.status = 206 =>
        /\ response.headers.range # NoRange
        /\ BytesSent = response.headers.range[1] .. response.headers.range[2]
=============================================================================
