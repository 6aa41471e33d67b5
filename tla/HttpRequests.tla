---------------------------- MODULE HttpRequests ----------------------------
(***************************************************************************)
(* Requests on the wire.  HttpsClientRequest::send_request writes them;    *)
(* HttpRequest and its subclasses read those of the HTTPS server, and      *)
(* HttpWebsocketConnectionIO those that ask for a websocket.               *)
(*                                                                         *)
(* A request is a sequence of cells: its first line, one cell per header,  *)
(* the empty line, the parts of the body.  A first line keeps its query as *)
(* the list of what stands between the ampersands, each the list of what   *)
(* stands between the equal signs; a header value and a form field are     *)
(* lists of what their own separators divide.                              *)
(***************************************************************************)
EXTENDS Integers, SequencesExt

RequestLine(method, url, query, version) ==
    [kind |-> "line", method |-> method, url |-> url, query |-> query, version |-> version]
Header(name, parts)  == [kind |-> "header", name |-> name, parts |-> parts]
EmptyLine            == [kind |-> "end"]
BodyPart(field)      == [kind |-> "body", field |-> field]  \* of a form or of a multipart body
Multipart(body)      == \E i \in DOMAIN body : body[i][1] = "form-data"

Methods == {"GET", "POST", "PUT", "DELETE", "OPTIONS", "HEAD", "PATCH"}

-----------------------------------------------------------------------------
(* Client.                                                                 *)

send_request(method, url, query, body, customs) ==
    << RequestLine(method, url, query, "HTTP/1.1"),
       Header("host", <<"engine">>), Header("connection", <<"keep-alive">>),
       Header("user-agent", <<"engine">>), Header("accept", <<"any">>) >>
    \o (IF body = << >> THEN << >>
        ELSE << Header("content-length", << Len(body) >>),
                Header("content-type", <<"json">>) >>)
    \o customs
    \o << EmptyLine >>
    \o [i \in DOMAIN body |-> BodyPart(body[i])]

switch_protocol_headers ==
    << Header("upgrade", <<"websocket">>), Header("connection", <<"upgrade">>),
       Header("sec-websocket-key", <<"key">>), Header("sec-websocket-version", <<"13">>) >>

-----------------------------------------------------------------------------
(* Server: HttpRequest.                                                    *)

Cells(text, kind) == SelectSeq(text, LAMBDA c : c.kind = kind)

(* Parameters up to the first without an equal sign; of equal keys the     *)
(* first is kept, and everything after its first equal sign is the value.  *)
deserialize_query_params(query) ==
    LET bad == {i \in DOMAIN query : Len(query[i]) < 2}
        used == SubSeq(query, 1, IF bad = {} THEN Len(query) ELSE Min(bad) - 1)
        keys == {used[i][1] : i \in DOMAIN used}
        first(k) == used[Min({i \in DOMAIN used : used[i][1] = k})]
    IN  [k \in keys |-> Tail(first(k))]

(* Headers whose text has exactly one ": "; of equal names the first.      *)
deserialize_header_params(text) ==
    LET hs == SelectSeq(Cells(text, "header"), LAMBDA h : Len(h.parts) = 1)
        names == {hs[i].name : i \in DOMAIN hs}
        first(n) == hs[Min({i \in DOMAIN hs : hs[i].name = n})]
    IN  [n \in names |-> first(n).parts[1]]

(* What follows the empty line.  Where there is none yet, npos + 4 is 3,   *)
(* and the header itself is the body.                                      *)
deserialize_body(text) ==
    LET cells == Cells(text, "body")
    IN  IF EmptyLine \in Range(text)
        THEN [i \in DOMAIN cells |-> cells[i].field]
        ELSE [i \in DOMAIN text |-> <<"header">>]

(* A body that is no JSON is a form: of equal keys the last is kept, and   *)
(* what follows a second equal sign is dropped.                            *)
deserialize_body_raw_data(body) ==
    LET fields == SelectSeq(body, LAMBDA f : Len(f) >= 2)
        keys == {fields[i][1] : i \in DOMAIN fields}
        last(k) == fields[Max({i \in DOMAIN fields : fields[i][1] = k})]
    IN  [k \in keys |-> last(k)[2]]

(* The parts of a multipart body, each "form-data", its name and the lines *)
(* of its value, of which the first is taken.                              *)
deserialize_body_form_data(body) ==
    [k \in {body[i][2] : i \in DOMAIN body} |->
        body[Max({i \in DOMAIN body : body[i][2] = k})][3]]

NoRequest == [method |-> "none"]

Posted == {"POST", "PUT", "DELETE"}    \* HttpRequestPost and what derives from it

CreateNewHttpRequest(text) ==
    IF text = << >> \/ text[1].kind # "line" \/ text[1].method \notin Methods
    THEN NoRequest
    ELSE LET posted == text[1].method \in Posted
         IN  [method  |-> text[1].method,
              url     |-> text[1].url,
              params  |-> deserialize_query_params(text[1].query),
              headers |-> deserialize_header_params(text),
              body    |-> IF posted THEN deserialize_body(text) ELSE << >>,
              form    |-> LET body == deserialize_body(text)
                          IN  IF ~posted THEN << >>
                              ELSE IF Multipart(body) THEN deserialize_body_form_data(body)
                              ELSE deserialize_body_raw_data(body)]

(* A request with a body waits for the rest of it; the others never wait.  *)
is_valid_format(request) ==
    request.method \in Posted /\ "content-length" \in DOMAIN request.headers
        => request.headers["content-length"] \in {0, Len(request.body)}

-----------------------------------------------------------------------------
(* Server: the request for a websocket.                                    *)

try_extract_http_request(text) ==
    LET ends == {i \in DOMAIN text : text[i].kind = "end"}
    IN  IF ends = {} THEN [found |-> FALSE]
        ELSE [found |-> TRUE,
              request |-> SubSeq(text, 1, Min(ends)),
              leftover |-> SubSeq(text, Min(ends) + 1, Len(text))]

(* The first header of the name.                                           *)
get_header_value(text, name) ==
    LET hits == {i \in DOMAIN text : text[i].kind = "header" /\ text[i].name = name}
    IN  IF hits = {} THEN << >> ELSE text[Min(hits)].parts

(* Of equal cookies the last.                                              *)
parse_cookie_header(pairs) ==
    [k \in {pairs[i][1] : i \in DOMAIN pairs} |->
        pairs[Max({i \in DOMAIN pairs : pairs[i][1] = k})][2]]

upgrade_request(text) ==
    LET authorization == get_header_value(text, "authorization")
        cookies == parse_cookie_header(get_header_value(text, "cookie"))
    IN  [path   |-> text[1].url,
         bearer |-> IF Len(authorization) = 2 /\ authorization[1] = "Bearer"
                    THEN authorization[2] ELSE "",
         access |-> IF "accessToken" \in DOMAIN cookies THEN cookies["accessToken"] ELSE ""]

is_websocket_upgrade_request(text) ==
    /\ text[1].kind = "line"
    /\ text[1].method = "GET"
    /\ text[1].version = "HTTP/1.1"
    /\ get_header_value(text, "upgrade") = <<"websocket">>
    /\ "upgrade" \in Range(get_header_value(text, "connection"))
    /\ get_header_value(text, "sec-websocket-version") = <<"13">>
    /\ get_header_value(text, "sec-websocket-key") # << >>

=============================================================================
