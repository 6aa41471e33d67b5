--------------------------- MODULE HttpResponses ---------------------------
(***************************************************************************)
(* Responses on the wire.  HttpResponse writes those of the engine's       *)
(* server; HttpsClientResponseParser and HttpsClientChunkParser take       *)
(* responses out of the bytes an HTTPS connection delivers.                *)
(*                                                                         *)
(* The text is a sequence of cells.  CR and LF are cells of their own, for *)
(* data may be cut between them; a status line, a header line, the size    *)
(* line of a chunk (its hexadecimal number and extensions) and a byte of a *)
(* body are one cell each, <<kind, number>>.  The parsers look into a line *)
(* only when its CR LF has arrived.                                        *)
(***************************************************************************)
EXTENDS Integers, SequencesExt

CR == <<"CR", 0>>
LF == <<"LF", 0>>
CRLF == <<CR, LF>>
EndOfHeader == CRLF \o CRLF

StatusLine(code)   == <<"status", code>>
ContentLength(n)   == <<"Content-Length", n>>
TransferChunked    == <<"Transfer-Encoding", 0>>
OtherHeader        == <<"header", 0>>
SizeLine(n)        == <<"size", n>>
BadSizeLine        == <<"size", -1>>
Byte(b)            == <<"byte", b>>

Lines(cells) == FoldLeft(LAMBDA text, c : text \o <<c>> \o CRLF, << >>, cells)

(* Where pattern first starts in text, 0 when it does not occur.           *)
Find(text, pattern) ==
    LET hits == {i \in 1 .. Len(text) - Len(pattern) + 1 :
                    SubSeq(text, i, i + Len(pattern) - 1) = pattern}
    IN  IF hits = {} THEN 0 ELSE Min(hits)

Erase(text, n) == SubSeq(text, n + 1, Len(text))

-----------------------------------------------------------------------------
(* Server: custom headers, four CORS headers, the content type of JSON and *)
(* known files, the name of an attachment, the length, the content.        *)

get_response_in_string(code, customs, typed, named, content) ==
    Lines(<< StatusLine(code) >>
          \o [i \in 1 .. customs |-> OtherHeader]
          \o [i \in 1 .. 4 |-> OtherHeader]
          \o (IF typed THEN << OtherHeader >> ELSE << >>)
          \o (IF named THEN << OtherHeader >> ELSE << >>)
          \o << ContentLength(Len(content)) >>)
        \o CRLF \o content

(* A response of an exchange whose length is not known in advance.         *)
ChunkedText(code, chunks, trailers) ==
    Lines(<< StatusLine(code), TransferChunked >>) \o CRLF
        \o FoldLeft(LAMBDA t, c : t \o << SizeLine(Len(c)) >> \o CRLF \o c \o CRLF,
                    << >>, chunks)
        \o Lines(<< SizeLine(0) >> \o [i \in 1 .. trailers |-> OtherHeader]) \o CRLF

(* The answer to a websocket upgrade: no body, no length.                  *)
build_websocket_upgrade_response ==
    Lines(<< StatusLine(101), OtherHeader, OtherHeader, OtherHeader >>) \o CRLF

-----------------------------------------------------------------------------
(* Client: the parser between two calls.  "result" is what the chunk       *)
(* parser returned last; while it is "Continue" the loops go on.           *)

NoResponse == [status |-> 0, body |-> << >>]

ResponseParser ==
    [buffer |-> << >>, header_parsed |-> FALSE, content_length |-> 0,
     is_chunked |-> FALSE, chunk_state |-> "ReadSizeLine", remaining |-> 0,
     current |-> NoResponse, responses |-> << >>, result |-> "Continue"]

append_data(p, data) == [p EXCEPT !.buffer = @ \o data]

Stop(p, result) == [p EXCEPT !.result = result]

reset_state(p) ==
    [p EXCEPT !.header_parsed = FALSE, !.content_length = 0, !.is_chunked = FALSE,
              !.chunk_state = "ReadSizeLine", !.remaining = 0, !.current = NoResponse]

Complete(p) ==
    reset_state([p EXCEPT !.responses = Append(@, p.current)])

(* Headers in their order: a length after the chunked encoding is kept but *)
(* not used.                                                               *)
parse_header(p, block) ==
    FoldLeft(LAMBDA q, c :
                 CASE c[1] = "status" -> [q EXCEPT !.current.status = c[2]]
                   [] c[1] = "Content-Length" -> [q EXCEPT !.content_length = c[2]]
                   [] c[1] = "Transfer-Encoding" ->
                          [q EXCEPT !.is_chunked = TRUE, !.content_length = 0]
                   [] OTHER -> q,
             p, block)

ParseHeaderBlock(p) ==
    LET pos == Find(p.buffer, EndOfHeader)
        q == [parse_header(p, SubSeq(p.buffer, 1, pos - 1))
                EXCEPT !.buffer = Erase(@, pos + 3), !.header_parsed = TRUE]
    IN  IF pos = 0 THEN Stop(p, "NeedMoreData")
        ELSE IF ~q.is_chunked /\ q.content_length = 0 THEN Complete(q)
        ELSE q

ParseLengthBody(p) ==
    IF Len(p.buffer) < p.content_length
    THEN Stop(p, "NeedMoreData")
    ELSE Complete([p EXCEPT !.current.body = SubSeq(p.buffer, 1, p.content_length),
                            !.buffer = Erase(@, p.content_length)])

(* The four states of HttpsClientChunkParser, of which Done is left at     *)
(* once by the response parser.                                            *)
ReadSizeLine(p) ==
    LET rn == Find(p.buffer, CRLF)
        line == SubSeq(p.buffer, 1, rn - 1)
        q == [p EXCEPT !.buffer = Erase(@, rn + 1)]
    IN  IF rn = 0 THEN Stop(p, "NeedMoreData")
        ELSE IF Len(line) # 1 \/ line[1][1] # "size" \/ line[1][2] < 0
        THEN Stop(q, "Error")
        ELSE [q EXCEPT !.remaining = line[1][2],
                       !.chunk_state = IF line[1][2] = 0 THEN "ReadTrailers" ELSE "ReadData"]

ReadData(p) ==
    IF Len(p.buffer) < p.remaining
    THEN Stop(p, "NeedMoreData")
    ELSE [p EXCEPT !.current.body = @ \o SubSeq(p.buffer, 1, p.remaining),
                   !.buffer = Erase(@, p.remaining),
                   !.chunk_state = "ReadDataCRLF"]

ReadDataCRLF(p) ==
    IF Len(p.buffer) < 2 THEN Stop(p, "NeedMoreData")
    ELSE IF SubSeq(p.buffer, 1, 2) # CRLF THEN Stop(p, "Error")
    ELSE [p EXCEPT !.buffer = Erase(@, 2), !.chunk_state = "ReadSizeLine", !.remaining = 0]

ReadTrailers(p) ==
    LET end == Find(p.buffer, EndOfHeader)
    IN  IF Len(p.buffer) < 2 THEN Stop(p, "NeedMoreData")
        ELSE IF SubSeq(p.buffer, 1, 2) = CRLF
        THEN Complete([p EXCEPT !.buffer = Erase(@, 2)])
        ELSE IF end = 0 THEN Stop(p, "NeedMoreData")
        ELSE Complete([p EXCEPT !.buffer = Erase(@, end + 3)])

parse_chunked_body(p) ==
    CASE p.chunk_state = "ReadSizeLine" -> ReadSizeLine(p)
      [] p.chunk_state = "ReadData"     -> ReadData(p)
      [] p.chunk_state = "ReadDataCRLF" -> ReadDataCRLF(p)
      [] p.chunk_state = "ReadTrailers" -> ReadTrailers(p)

(* All complete responses that the buffer holds, and the parser then.      *)
RECURSIVE parse_all(_)
parse_all(p) ==
    IF p.result # "Continue" THEN [p EXCEPT !.result = "Continue"]
    ELSE parse_all(IF ~p.header_parsed THEN ParseHeaderBlock(p)
                   ELSE IF p.is_chunked THEN parse_chunked_body(p)
                   ELSE ParseLengthBody(p))

=============================================================================
