------------------------------ MODULE HttpMsg -------------------------------
(***************************************************************************)
(* The HTTP messages of srv_async: what a header parses to, which status   *)
(* and which persistence a request gets, and what the response says about  *)
(* both, for a sequence of requests on one connection after the other.     *)
(*                                                                         *)
(* A header is abstracted to what the parser tells apart: whether it is    *)
(* larger than MAX_HTTP_HDR_SZIE, whether its first line splits into three *)
(* parts, those parts, and its fields.  The value of a field is the        *)
(* decimal number it is, or -1 if it is none, and the options it contains  *)
(* in any case of letters.                                                 *)
(***************************************************************************)
EXTENDS Integers, Sequences, FiniteSets

CONSTANTS
    MaxBody,    \* MAX_HTTP_BODY_SIZE
    SizeTMax,   \* the largest number that a size_t holds
    Requests    \* the headers that clients may send

\* enum http_status, and the size of http_status_text.
NONE == 0
OK == 200
BAD_REQUEST == 400
NOT_FOUND == 404
METHOD_NOT_ALLOWED == 405
LENGTH_REQUIRED == 411
PAYLOAD_TOO_LARGE == 413
HEADER_FIELDS_TOO_LARGE == 431
NOT_IMPLEMENTED == 501
StatusTextSize == HEADER_FIELDS_TOO_LARGE + 1

Fields == [colon : BOOLEAN, name : STRING, num : Int, opts : SUBSET STRING]
ASSUME HttpBounds ==
    /\ MaxBody \in Nat /\ SizeTMax \in Nat /\ MaxBody <= SizeTMax
    /\ \A r \in Requests :
         /\ r.large \in BOOLEAN /\ r.line \in {"three parts", "no space", "other"}
         /\ r.method \in STRING /\ r.target \in STRING /\ r.version \in STRING
         /\ r.fields \in Seq(Fields)

VARIABLES
    phase,      \* where handle_one_client_request() is; "closed": no connection
    sent, req,  \* the header a client sent, and what it was parsed to
    resp,       \* the response to it
    consumed    \* how many bytes of body recv_http_msg() took for it
httpVars == <<phase, sent, req, resp, consumed>>

-----------------------------------------------------------------------------
(***************************************************************************)
(* Requests.                                                               *)
(***************************************************************************)

\* http_request_msg::methods_info.
MethodsInfo == [GET |-> FALSE, HEAD |-> FALSE, POST |-> TRUE, PUT |-> TRUE,
                DELETE |-> FALSE, PATCH |-> TRUE]
MethodHasBody(method) == method \in DOMAIN MethodsInfo /\ MethodsInfo[method]

\* Names are compared without regard to case; a wrong variant compares them as is.
AsItIs(name) == name
ToLower(name) == CASE name = "Content-Length" -> "content-length"
                   [] name = "Connection"     -> "connection"
                   [] OTHER                   -> name

\* A value is stored with its type: size_t for a length, else string.
AddHeader(msg, name, value) ==
    [msg EXCEPT !.headers = [x \in DOMAIN msg.headers \cup {ToLower(name)} |->
                               IF x = ToLower(name) THEN value ELSE msg.headers[x]]]
HasHeader(msg, name) == ToLower(name) \in DOMAIN msg.headers
GetHeaderValue(msg, name) == msg.headers[ToLower(name)]

Request(error, method) == [error |-> error, method |-> method, target |-> "",
                           version |-> "", headers |-> <<>>]
Fail(msg, status) == [msg EXCEPT !.error = status]

\* What from_chars() converts to a size_t as a whole; a number that is too
\* large for one is an error, as anything that is no number.
IsSizeT(num) == num \in 0..SizeTMax

\* A wrong variant of ParseField: any length is accepted, with any method.
AnyMethodLength(msg, f) ==
    IF msg.error # NONE THEN msg
    ELSE IF ToLower(f.name) # "content-length"
         THEN AddHeader(msg, f.name, [type |-> "string", num |-> f.num, opts |-> f.opts])
    ELSE AddHeader(msg, f.name, [type |-> "size_t", num |-> f.num, opts |-> {}])

\* One round of the loop over the fields; the loop ends with the first failure.
ParseField(msg, f) ==
    IF msg.error # NONE THEN msg
    ELSE IF ~f.colon THEN Fail(msg, BAD_REQUEST)
    ELSE IF ToLower(f.name) # "content-length"
         THEN AddHeader(msg, f.name, [type |-> "string", num |-> f.num, opts |-> f.opts])
    ELSE IF ~MethodHasBody(msg.method) \/ ~IsSizeT(f.num) THEN Fail(msg, BAD_REQUEST)
    ELSE IF f.num > MaxBody THEN Fail(msg, PAYLOAD_TOO_LARGE)
    ELSE AddHeader(msg, f.name, [type |-> "size_t", num |-> f.num, opts |-> {}])

\* The message after each round of that loop.
FieldsParsed(h) ==
    LET parsed[k \in 0..Len(h.fields)] ==
          IF k = 0 THEN [Request(NONE, h.method) EXCEPT !.target = h.target,
                                                        !.version = h.version]
          ELSE ParseField(parsed[k - 1], h.fields[k])
    IN  parsed

\* The request line, the fields, and the length that some methods require.
ParseRequestHeader(h) ==
    LET parsed == FieldsParsed(h)[Len(h.fields)]
    IN  IF h.line # "three parts" THEN Request(BAD_REQUEST, "")
        ELSE IF /\ parsed.error = NONE /\ MethodHasBody(h.method)
                /\ ~HasHeader(parsed, "Content-Length")
             THEN Fail(parsed, LENGTH_REQUIRED)
        ELSE parsed

\* The method is what comes before the first space.
MethodToken(h) == IF h.line = "no space" THEN "" ELSE h.method
Create(method) == IF method \in DOMAIN MethodsInfo THEN Request(NONE, method)
                  ELSE Request(METHOD_NOT_ALLOWED, method)

\* recv_http_msg(), when header and body arrive.
RecvHttpMsg(h) ==
    IF h.large THEN Request(HEADER_FIELDS_TOO_LARGE, "")
    ELSE IF Create(MethodToken(h)).error # NONE THEN Create(MethodToken(h))
    ELSE ParseRequestHeader(h)

\* AsSizeT() of the length; the body is read up to it.
AnnouncedBody(msg) == IF msg.error = NONE /\ MethodHasBody(msg.method)
                THEN GetHeaderValue(msg, "Content-Length").num ELSE 0

\* A wrong variant of WantKeepAlive: the version is decisive.
KeepAliveByVersion(msg) == msg.error = NONE /\ msg.version # "HTTP/1.0"

WantKeepAlive(msg) ==
    LET opts == IF HasHeader(msg, "Connection") THEN GetHeaderValue(msg, "Connection").opts
                ELSE {}
    IN  /\ msg.error = NONE
        /\ "close" \notin opts
        /\ "keep-alive" \in opts \/ msg.version # "HTTP/1.0"

-----------------------------------------------------------------------------
(***************************************************************************)
(* Responses.                                                              *)
(***************************************************************************)

\* The length of a page is 1; "body" is what goes over the wire of it.
MakePageResponse(code, msg, omitBody) ==
    [code |-> code, connection |-> IF WantKeepAlive(msg) THEN "keep-alive" ELSE "close",
     length |-> 1, body |-> IF omitBody THEN 0 ELSE 1, allow |-> FALSE]
MakeErrorResponse(code, msg) ==
    [MakePageResponse(code, msg, FALSE) EXCEPT !.allow = (code = METHOD_NOT_ALLOWED)]
MakeMainPageResponse(msg, omitBody) ==
    MakePageResponse(IF msg.target \in {"/", "/index.html"} THEN OK ELSE NOT_FOUND,
                     msg, omitBody)

\* A wrong variant of MakeOkResponse: HEAD is answered like GET.
HeadLikeGet(msg) ==
    IF msg.method \in {"GET", "HEAD"} THEN MakeMainPageResponse(msg, FALSE)
    ELSE MakePageResponse(NOT_IMPLEMENTED, msg, FALSE)

\* MakeOkResponse() of the class of each method.
MakeOkResponse(msg) ==
    IF msg.method \in {"GET", "HEAD"} THEN MakeMainPageResponse(msg, msg.method = "HEAD")
    ELSE MakePageResponse(NOT_IMPLEMENTED, msg, FALSE)

MakeResponse(msg) == IF msg.error # NONE THEN MakeErrorResponse(msg.error, msg)
                     ELSE MakeOkResponse(msg)

-----------------------------------------------------------------------------
(***************************************************************************)
(* A connection.                                                           *)
(***************************************************************************)
NoHeader == [large |-> FALSE, line |-> "three parts", method |-> "GET", target |-> "/",
             version |-> "HTTP/1.1", fields |-> <<>>]

HttpInit ==
    /\ phase = "open" /\ sent = NoHeader /\ consumed = 0
    /\ req = Request(NONE, "GET") /\ resp = MakeOkResponse(req)

\* handle_one_client_request(): recv_http_msg(), with header and body ...
Receive(h) ==
    /\ phase = "open" /\ phase' = "received"
    /\ sent' = h /\ req' = RecvHttpMsg(h) /\ consumed' = AnnouncedBody(req')
    /\ UNCHANGED resp

\* What handle_one_client_request() returns, on which handle_one_connection()
\* goes on.  Nothing of the request is left.
Returns(goOn) ==
    /\ phase' = IF goOn THEN "open" ELSE "closed"
    /\ sent' = NoHeader /\ consumed' = 0
    /\ req' = Request(NONE, "GET") /\ resp' = MakeOkResponse(req')

\* ... which may give none: the client is gone, or its body is late or short.
ReceiveFails == phase = "open" /\ Returns(FALSE)

\* ... MakeResponse() and send_http_msg(), which sends all of it ...
Answer ==
    /\ phase = "received" /\ phase' = "answered"
    /\ resp' = MakeResponse(req)
    /\ UNCHANGED <<sent, req, consumed>>

\* ... or does not, when the client has gone or takes too long to read.
SendFails == phase = "received" /\ Returns(FALSE)

\* A wrong variant of Return: errors do not close.
ReturnTrueOnError == phase = "answered" /\ Returns(WantKeepAlive(req) \/ req.error # NONE)

\* ... and what is returned after a response.
Return == phase = "answered" /\ Returns(WantKeepAlive(req))

\* The client, or another one, connects again.
Connect == phase = "closed" /\ phase' = "open" /\ UNCHANGED <<sent, req, resp, consumed>>

HttpNext ==
    \/ Connect \/ ReceiveFails \/ Answer \/ SendFails \/ Return
    \/ \E h \in Requests : Receive(h)
HttpSpec == HttpInit /\ [][HttpNext]_httpVars

-----------------------------------------------------------------------------
(***************************************************************************)
(* Correctness.                                                            *)
(***************************************************************************)
ErrorCodes == {BAD_REQUEST, METHOD_NOT_ALLOWED, LENGTH_REQUIRED, PAYLOAD_TOO_LARGE,
               HEADER_FIELDS_TOO_LARGE}

\* The lengths a client announces, and all that is wrong with its header.
Lengths(h) == {i \in DOMAIN h.fields : h.fields[i].colon /\ ToLower(h.fields[i].name) = "content-length"}
Defects(h) ==
    IF h.large THEN {HEADER_FIELDS_TOO_LARGE}
    ELSE IF h.line = "no space" \/ h.method \notin DOMAIN MethodsInfo THEN {METHOD_NOT_ALLOWED}
    ELSE IF h.line # "three parts" THEN {BAD_REQUEST}
    ELSE {BAD_REQUEST : i \in {i \in DOMAIN h.fields :
                                 \/ ~h.fields[i].colon
                                 \/ i \in Lengths(h) /\ (~MethodsInfo[h.method] \/ h.fields[i].num \notin 0..SizeTMax)}}
         \cup {PAYLOAD_TOO_LARGE : i \in {i \in Lengths(h) :
                 MethodsInfo[h.method] /\ h.fields[i].num \in MaxBody + 1..SizeTMax}}
         \cup (IF MethodsInfo[h.method] /\ Lengths(h) = {} THEN {LENGTH_REQUIRED} ELSE {})

(***************************************************************************)
(* The status of a response names a defect that the header has, whatever   *)
(* the order of its fields, and every header without a defect is served by *)
(* its method (the cases of run_http_tests.sh:65-119, ParseRequestHeader,  *)
(* Create and MakeResponse).                                               *)
(***************************************************************************)
StatusNamesADefect ==
    phase = "answered" =>
    IF Defects(sent) # {} THEN resp.code \in Defects(sent)
    ELSE resp.code = IF sent.method \notin {"GET", "HEAD"} THEN NOT_IMPLEMENTED
                     ELSE IF sent.target \in {"/", "/index.html"} THEN OK ELSE NOT_FOUND

(***************************************************************************)
(* A response that was sent as a whole tells the client the truth about    *)
(* the connection: it says "keep-alive" (make_page_response) exactly when  *)
(* the server then reads on (handle_one_client_request).  And the server   *)
(* reads on a connection only after such a response that is no error:      *)
(* neither after a request that did not arrive nor after a response that   *)
(* did not leave, whatever that response announced.                        *)
(***************************************************************************)
PersistenceAsAnnounced ==
    [][/\ phase = "answered" => (resp.connection = "keep-alive") = (phase' = "open")
       /\ phase # "closed" /\ phase' = "open" =>
            phase = "answered" /\ resp.code \notin ErrorCodes]_httpVars

(***************************************************************************)
(* On a connection that stays open, client and server agree where this     *)
(* message ends and the next begins: the client reads the announced length *)
(* of the response except after HEAD, and the server has read the body the *)
(* client announced, if it announced one.                                  *)
(***************************************************************************)
MessagesStayInSync ==
    [][phase = "answered" /\ phase' = "open" =>
         /\ resp.body = IF sent.method = "HEAD" THEN 0 ELSE resp.length
         /\ \A i \in Lengths(sent) : Cardinality(Lengths(sent)) = 1 =>
                                        consumed = sent.fields[i].num]_httpVars

(***************************************************************************)
(* "Transformation always succeeds, because valid checks are done when     *)
(* header fields are added" (srv_http_msg.h:62-64): AsSizeT() of a length  *)
(* and AsString() of the connection find the type they expect, in whatever *)
(* case and how often the client wrote the name.                           *)
(***************************************************************************)
TransformationsSucceed ==
    req.error = NONE =>
        /\ MethodHasBody(req.method) =>
             /\ HasHeader(req, "Content-Length")
             /\ GetHeaderValue(req, "Content-Length").type = "size_t"
             /\ GetHeaderValue(req, "Content-Length").num \in 0..MaxBody
        /\ HasHeader(req, "Connection") => GetHeaderValue(req, "Connection").type = "string"

(***************************************************************************)
(* The persistence of a valid request is the one of HTTP (comment at       *)
(* srv_http_msg.h:120-121): "close" wins over all, "keep-alive" over the   *)
(* version, and the last Connection field over those before it.            *)
(***************************************************************************)
KeepAliveLogic ==
    LET conn == {i \in DOMAIN sent.fields : ToLower(sent.fields[i].name) = "connection"}
        opts == IF conn = {} THEN {}
                ELSE sent.fields[CHOOSE i \in conn : \A j \in conn : j <= i].opts
    IN  phase = "answered" /\ Defects(sent) = {} =>
            (resp.connection = "keep-alive") =
                CASE "close" \in opts -> FALSE
                  [] "close" \notin opts /\ "keep-alive" \in opts -> TRUE
                  [] OTHER -> sent.version # "HTTP/1.0"

\* The inductive invariant: the cycle keeps its request and response from
\* one part to the next, and nothing of them after it.
HttpIInv ==
    /\ phase \in {"open", "received", "answered", "closed"}
    /\ phase \in {"open", "closed"} => req = Request(NONE, "GET")
    /\ phase \in {"received", "answered"} =>
         sent \in Requests /\ req = RecvHttpMsg(sent) /\ consumed = AnnouncedBody(req)
    /\ phase = "answered" => resp = MakeResponse(req)

(***************************************************************************)
(* Claims of the source that the code does not keep.                       *)
(***************************************************************************)

\* "Size is greater than the maximum used code, so that any http_status value
\* is a valid index" (srv_http_msg.cpp:56-57), of every response made.
StatusTextHasIndex == phase = "answered" => resp.code < StatusTextSize

\* "HEAD requests: same as GET, but without body in response"
\* (srv_http_request_head.cpp:1).
HeadWithoutBody == phase = "answered" /\ req.method = "HEAD" => resp.body = 0
=============================================================================
