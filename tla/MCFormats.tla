----------------------------- MODULE MCFormats -----------------------------
(***************************************************************************)
(* The wire formats under arbitrary cuts.  One text of one format is sent; *)
(* it arrives in pieces of any size, each given to the parser as it comes. *)
(***************************************************************************)
EXTENDS WebsocketFrame, HttpResponses, HttpRequests, JsonText, Base64

VARIABLES
    kind,     \* the format
    sent,     \* what the sender meant
    wire,     \* the text that stands for it
    fed,      \* cells that have arrived
    parser,   \* the receiver's parser
    got       \* what the receiver has taken out

vars == <<kind, sent, wire, fed, parser, got>>

-----------------------------------------------------------------------------
(* What is sent.                                                           *)

Keys == {NoKey, <<1, 0, 1, 1>>}

Payloads == { << >>, <<1>>, <<0, 1>>, <<1, 1, 0>>, <<1, 0, 0, 1, 1>> }

SentFrames ==
    {f \in {build_text(p, fin, k) : p \in Payloads, fin \in BOOLEAN, k \in Keys}
        \cup {build_binary(p, TRUE, k) : p \in Payloads, k \in Keys}
        \cup {build_ping(p, k) : p \in Payloads, k \in Keys}
        \cup {build_pong(<<1>>, k) : k \in Keys}
        \cup {build_close(2, << >>, NoKey)} : Buildable(f)}

Bodies == { << >>, <<Byte(1)>>, CRLF, EndOfHeader \o <<Byte(1)>> }

(* A response that is sent: its text and what it says.                     *)
Sent(status, body, text) == [says |-> [status |-> status, body |-> body], text |-> text]

SentResponses ==
    {Sent(200, b, get_response_in_string(200, 0, TRUE, FALSE, b)) : b \in Bodies}
    \cup {Sent(404, b, get_response_in_string(404, 1, FALSE, TRUE, b)) : b \in Bodies}
    \cup {Sent(200, b \o c, ChunkedText(200, <<b, c>>, t)) :
             b \in Bodies \ {<< >>}, c \in Bodies \ {<< >>}, t \in {0, 1}}
    \cup {Sent(200, << >>, ChunkedText(200, << >>, t)) : t \in {0, 1}}
    \cup {Sent(101, << >>, build_websocket_upgrade_response)}

(* A response whose second chunk has no readable size; the data of that    *)
(* chunk may read as a size itself.                                        *)
BrokenText(data) ==
    Lines(<< StatusLine(200), TransferChunked >>) \o CRLF
        \o << SizeLine(1) >> \o CRLF \o << Byte(1) >> \o CRLF
        \o << BadSizeLine >> \o CRLF \o << data >> \o CRLF
        \o << SizeLine(0) >> \o CRLF \o CRLF

UnreadData == {Byte(1), SizeLine(0), SizeLine(1)}

Truncated == [status |-> 200, body |-> << Byte(1) >>]

Queries == { << >>, << <<"a", "1">> >>, << <<"a", "1">>, <<"b", "2">> >> }

SentBodies ==
    { << >>, << <<"a", "1">> >>, << <<"a", "1">>, <<"b", "2">>, <<"c", "3">> >>,
      [i \in 1 .. 6 |-> << <<"a", "b", "c", "d", "e", "f">>[i], "1" >>],
      << <<"form-data", "a", "1">>, <<"form-data", "b", "2">> >> }

AuthHeaders ==
    { << >>, << Header("authorization", <<"Bearer", "t">>) >>,
      << Header("cookie", << <<"theme", "x">>, <<"accessToken", "t">> >>) >> }

SentRequests ==
    [method : {"GET"}, query : Queries, body : { << >> }]
    \cup [method : Posted, query : Queries, body : SentBodies]

Numbers ==
    {Int64(<<"1">>), Int64(<<"-", "2">>), Int64(<<"1", "2", "0">>),
     Double(<<"1">>), Double(<<"0", ".", "1">>), Double(<<"-", "1", "e", "-", "0", "5">>),
     Double(<<"1", ".", "5", "e", "-", "0", "5">>), Double(<<"1", "e", "+", "2", "0">>),
     Double(<<"1", ".", "5", "e", "+", "2", "0">>), Double(<<"1", "2", "0">>)}

Scalars ==
    Numbers \cup
    {Null, Bool(TRUE), Bool(FALSE), Str(<< >>), Str(<<"a">>), Str(<<"{">>), Str(<<"]", ",">>),
     Str(<<Escape, Quote>>), Str(<<Escape, Escape>>)}

(* Strings that cannot be written as they are.                             *)
Unwritable == {Str(<<Quote>>), Str(<<Escape>>), Str(<<Quote, "]">>)}

Level1 ==
    {Arr(<< >>), Obj(<< >>)}
    \cup {Arr(<<v>>) : v \in Scalars}
    \cup {Obj([k \in {"a"} |-> v]) : v \in Scalars}

SentJson ==
    Level1
    \cup {Arr(<<v>>) : v \in Unwritable} \cup {Arr(<<Str(<<"a">>), v>>) : v \in Unwritable}
    \cup {Arr(<<v, w>>) : v \in Scalars \cup Level1, w \in Scalars}
    \cup {Obj([k \in {"a", "b"} |-> IF k = "a" THEN v ELSE w]) :
             v \in Level1, w \in {Null, Arr(<< >>), Arr(<<Str(<<"]", ",">>)>>),
                                 Obj([k \in {"a"} |-> Int64(<<"1">>)])}}

SentBytes == UNION {[1 .. n -> {0, 63, 165, 255}] : n \in 0 .. 4}

(* The scalars that a value holds.                                         *)
RECURSIVE Parts(_)
Parts(v) ==
    CASE v.t = "arr" -> UNION {Parts(v.items[i]) : i \in DOMAIN v.items}
      [] v.t = "obj" -> UNION {Parts(v.fields[k]) : k \in DOMAIN v.fields}
      [] OTHER -> {v}

(* Strings that can be written as they are: every quote in them is escaped *)
(* and no escape is left over for the quote that ends them.                *)
WellEscaped(s) ==
    LET odd(i) == (i - 1 - Max({0} \cup {j \in 1 .. i - 1 : s[j] # Escape})) % 2 = 1
    IN  /\ \A i \in DOMAIN s : s[i] = Quote => odd(i)
        /\ ~odd(Len(s) + 1)

(* The digits and the sign of the exponent of what to_chars wrote.         *)
Mantissa(s) == SubSeq(s, 1, SkipTo(s, 1, {"e"}) - 1)

IsWhole(p) == p.t \in {"int", "double"} /\ "." \notin Range(p.s)
IsLarge(p) == p.t = "double" /\ "+" \in Range(p.s)

(* Whole numbers that an int64 can hold.                                   *)
Fits(p) == IsWhole(p) => Len(DigitsOf(Mantissa(p.s))) <= Int64Digits

(* What comes back.  The empty containers have no elements that would tell *)
(* an array from an object, and come back as null.  A double that is       *)
(* written without a fraction comes back as an integer and without its     *)
(* exponent, one with a positive exponent without that exponent.           *)
RECURSIVE Normal(_)
Normal(v) ==
    CASE IsWhole(v) -> Int64(Mantissa(v.s))
      [] ~IsWhole(v) /\ IsLarge(v) -> Double(Mantissa(v.s))
      [] v.t = "arr" /\ v.items = << >> -> Null
      [] v.t = "obj" /\ DOMAIN v.fields = {} -> Null
      [] v.t = "arr" /\ v.items # << >> ->
             Arr([i \in DOMAIN v.items |-> Normal(v.items[i])])
      [] v.t = "obj" /\ DOMAIN v.fields # {} ->
             Obj([k \in DOMAIN v.fields |-> Normal(v.fields[k])])
      [] OTHER -> v

-----------------------------------------------------------------------------

InitFrames ==
    \E f \in SentFrames, g \in SentFrames :
        /\ kind = "frames" /\ sent = <<f, g>>
        /\ wire = build_frame(f) \o build_frame(g)
        /\ parser = ParserInit

InitResponses ==
    \E r \in SentResponses, q \in SentResponses :
        /\ kind = "responses" /\ sent = <<r.says, q.says>>
        /\ wire = r.text \o q.text
        /\ parser = ResponseParser

InitBroken ==
    \E r \in SentResponses, data \in UnreadData :
        /\ kind = "broken" /\ sent = <<r.says, Truncated>>
        /\ wire = r.text \o BrokenText(data)
        /\ parser = ResponseParser

InitRequests ==
    \E r \in SentRequests :
        /\ kind = "requests" /\ sent = << r >>
        /\ wire = send_request(r.method, "/url", r.query, r.body, << >>)
        /\ parser = << >>

InitUpgrade ==
    \E a \in AuthHeaders, leftover \in { << >>, << BodyPart(<<"frame">>) >> } :
        /\ kind = "upgrade" /\ sent = <<a, leftover>>
        /\ wire = send_request("GET", "/orders", << >>, << >>, a \o switch_protocol_headers)
                      \o leftover
        /\ parser = << >>

InitJson ==
    \E v \in SentJson :
        /\ kind = "json" /\ sent = << v >>
        /\ wire = write_string_value(v)
        /\ parser = << >>

InitBase64 ==
    \E b \in SentBytes :
        /\ kind = "base64" /\ sent = << b >>
        /\ wire = base64_encode(b)
        /\ parser = << >>

Init ==
    /\ fed = 0 /\ got = << >>
    /\ \/ InitFrames \/ InitResponses \/ InitBroken
       \/ InitRequests \/ InitUpgrade \/ InitJson \/ InitBase64

-----------------------------------------------------------------------------

Arrives(n) == SubSeq(wire, fed + 1, fed + n)

(* wait_for_tcp_data of a websocket session.                               *)
ReceiveFrames(n) ==
    LET r == parse_frames(feed(parser, Arrives(n)))
    IN  parser' = r.parser /\ got' = got \o r.frames

(* wait_for_tcp_data of an HTTPS client.                                   *)
ReceiveResponses(n) ==
    LET p == parse_all(append_data(parser, Arrives(n)))
    IN  parser' = [p EXCEPT !.responses = << >>] /\ got' = got \o p.responses

(* handle_read of the HTTPS server: what is no request is answered 404,    *)
(* which cleans the save buffer; else the text is kept until the request   *)
(* is valid, and is then handled.                                          *)
ReceiveRequest(n) ==
    LET text == parser \o Arrives(n)
        request == CreateNewHttpRequest(text)
        handled == Append(got, [at |-> fed + n, request |-> request])
    IN  IF request = NoRequest \/ is_valid_format(request)
        THEN got' = handled /\ parser' = << >>
        ELSE parser' = text /\ UNCHANGED got

(* handle_http_upgrade_bytes.                                              *)
ReceiveUpgrade(n) ==
    LET text == parser \o Arrives(n)
        found == try_extract_http_request(text)
    IN  /\ parser' = text
        /\ got' = IF ~found.found THEN << >>
                  ELSE << [accepted |-> is_websocket_upgrade_request(found.request),
                           request |-> upgrade_request(found.request),
                           leftover |-> found.leftover] >>

(* Json::parse and base64_decode of what there is.                         *)
ReceiveText(n) ==
    LET text == parser \o Arrives(n)
    IN  /\ parser' = text
        /\ got' = << IF kind = "json" THEN parse(text) ELSE base64_decode(text) >>

Receive(n) ==
    /\ fed + n <= Len(wire)
    /\ fed' = fed + n
    /\ \/ kind = "frames" /\ ReceiveFrames(n)
       \/ kind \in {"responses", "broken"} /\ ReceiveResponses(n)
       \/ kind = "requests" /\ ReceiveRequest(n)
       \/ kind = "upgrade" /\ ReceiveUpgrade(n)
       \/ kind \in {"json", "base64"} /\ ReceiveText(n)
    /\ UNCHANGED <<kind, sent, wire>>

Next == \E n \in 1 .. Len(wire) : Receive(n)

Spec == Init /\ [][Next]_vars

Arrived == fed = Len(wire)

-----------------------------------------------------------------------------
(* However the bytes of a websocket connection are cut, the parser returns *)
(* the frames that were built, in their order, each as soon as its last    *)
(* byte is there, and its buffer holds exactly the bytes of the frame that *)
(* is still coming: the shifts of the buffer lose and repeat nothing.      *)
FramesWhole ==
    kind = "frames" =>
        LET size == Len(FlattenSeq([i \in DOMAIN got |-> build_frame(sent[i])]))
        IN  /\ IsPrefix(got, sent)
            /\ Arrived => got = sent
            /\ SubSeq(parser.buffer, parser.offset + 1, Len(parser.buffer))
                   = SubSeq(wire, size + 1, fed)

(* Pipelined responses come out of the client's parser as they were sent,  *)
(* whichever way the bytes are cut: with a length, in chunks, with         *)
(* trailers, without a body, with bodies that contain empty lines.  When   *)
(* the size of a chunk cannot be read, the response before comes out       *)
(* whole, and at most one more: the parser goes on at a later line that    *)
(* reads as a size, and may complete the response with the chunks that it  *)
(* had read, never with the data of the unreadable one.                    *)
ResponsesWhole ==
    /\ kind = "responses" => IsPrefix(got, sent) /\ (Arrived => got = sent)
    /\ kind = "broken" => IsPrefix(got, sent) /\ (Arrived => got # << >>)

(* The server handles a request before it has all arrived only when a      *)
(* piece ends inside its header: before the Content-Length line (a request *)
(* without a body has none), or where the header so far, taken for the     *)
(* body, has that very length.  What arrives of it later is answered 404.  *)
HandledEarly(r) ==
    LET text == SubSeq(wire, 1, r.at)
    IN  /\ EmptyLine \notin Range(text)
        /\ get_header_value(text, "content-length") \in { << >>, << Len(text) >> }

(* Apart from that a request that the server handles is the one that was   *)
(* sent, and is handled once: its parameters are all there, and its body   *)
(* is complete, however many pieces it came in.  Of an upgrade request the *)
(* path, the token (of either header) and the bytes of the first frames    *)
(* are what the client sent.                                               *)
RequestsWhole ==
    /\ kind = "requests" /\ Arrived => got # << >>
    /\ kind = "requests" => \A i \in DOMAIN got \ {1} : got[i].request = NoRequest
    /\ kind = "requests" /\ got # << >> /\ ~HandledEarly(got[1]) =>
        LET r == got[1].request s == sent[1]
            meant(pairs) == [k \in {pairs[i][1] : i \in DOMAIN pairs} |->
                                CHOOSE v \in {"1", "2", "3"} : <<k, v>> \in Range(pairs)]
            fields == IF Multipart(s.body) THEN [i \in DOMAIN s.body |-> Tail(s.body[i])] ELSE s.body
        IN  /\ Arrived /\ Len(got) = 1
            /\ r.method = s.method
            /\ r.params = [k \in DOMAIN meant(s.query) |-> <<meant(s.query)[k]>>]
            /\ r.form = meant(fields)
    /\ kind = "upgrade" /\ got # << >> =>
        LET r == got[1].request
        IN  /\ r.path = "/orders"
            /\ {r.bearer, r.access} = IF sent[1] = << >> THEN {""} ELSE {"", "t"}
            /\ Arrived => got[1].leftover = sent[2]


(* Of a value whose strings can be written as they are: a JSON text that   *)
(* has been cut short is never taken for a value; the whole text gives the *)
(* value back, but for what Normal says of empty containers and of doubles *)
(* without a fraction or with a positive exponent; and a whole number that *)
(* no int64 holds makes the whole text null, never part of it.             *)
JsonWhole ==
    LET parts == Parts(sent[1])
    IN  /\ kind = "json" /\ got # << >>
        /\ \A p \in parts : p.t = "str" => WellEscaped(p.s)
        => got[1] = IF Arrived /\ (\A p \in parts : Fits(p)) THEN Normal(sent[1]) ELSE Null

(* Both encoders agree, and decoding gives the bytes back.                 *)
Base64Inverse ==
    kind = "base64" =>
        /\ wire = utils_base64_encode(sent[1])
        /\ Arrived => (got = << >> /\ wire = << >>) \/ got = sent

(* What is encoded and written is what is read and decoded, with the       *)
(* losses that JsonWhole names: JSON, Base64.                              *)
RoundTrips == JsonWhole /\ Base64Inverse

(* The engine's websocket server accepts the request that the engine's     *)
(* websocket client sends, and reads its path and token.                   *)
OwnHandshake ==
    kind = "upgrade" /\ got # << >> => got[1].accepted

=============================================================================
