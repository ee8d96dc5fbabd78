------------------------------ MODULE RecvBuf -------------------------------
(***************************************************************************)
(* The receive buffer of one connection context, byte by byte: how         *)
(* recv_http_hdr() and recv_http_msg() cut the stream of a client into     *)
(* requests, what is_http_message_end() sees while they do, and what the   *)
(* next client of the same context finds.                                  *)
(*                                                                         *)
(* The end of the header is the four characters of the source; all other   *)
(* characters are payload, of which the first of a header stands for what  *)
(* ParseRequestHeader() makes of it (HttpMsg.tla): a request without a     *)
(* body ("g"), one that asks to close ("c"), one with a body of a certain  *)
(* length (DOMAIN Body), or, for any other, one answered by an error.      *)
(***************************************************************************)
EXTENDS Integers, SequencesExt

CONSTANTS
    BufSize,    \* RECV_BUF_SIZE
    MaxHdr,     \* MAX_HTTP_HDR_SZIE
    Body,       \* Content-Length of each kind of request that has one
    Streams,    \* what a client may send: sequences of characters
    MaxClients  \* bound: clients served one after the other by the context

TermSeq == <<"r", "n", "r", "n">>   \* "\r\n\r\n"

Char    == {"0"} \cup UNION {ToSet(s) : s \in Streams}

ASSUME RecvBufBounds == /\ MaxHdr \in Nat /\ BufSize \in Nat /\ MaxClients \in Nat
                        /\ 4 <= MaxHdr /\ MaxHdr < BufSize
                        /\ \A k \in DOMAIN Body : Body[k] \in Nat
                        /\ Streams \subseteq Seq(Char)

VARIABLES
    buf,        \* recv_buf_p[0 .. recv_buf_size - 1]
    have,       \* recv_buf_have
    curr,       \* recv_buf_curr
    pc,         \* where handle_one_client_request() is; "idle": no connection
    n0, n,      \* prev_n_recv and n_recv of recv_from_curr_conn()
    msg,        \* the request being received
    client,     \* the number of the current client, from 1
    stream, pos, \* what it sends, and how much of that has been read
    handed,     \* history: requests that recv_http_msg() returned to it
    inherited,  \* history: recv_buf_have # recv_buf_curr when it was accepted
    why         \* history: what ended the last connection

fields == <<have, curr>>
peer   == <<client, stream, pos, inherited>>
vars   == <<buf, have, curr, pc, n0, n, msg, client, stream, pos, handed, inherited, why>>

\* A byte remembers which client sent it, and where in its stream.
NulByte == [c |-> "0", cl |-> 0, at |-> 0]
ByteAt(q) == [c |-> stream[q], cl |-> client, at |-> q]
Sent(from, to) == [j \in 1..(to - from + 1) |-> ByteAt(from + j - 1)]
Slice(b, from, to) == [j \in 1..(to - from) |-> b[from + j - 1]]  \* b[from .. to - 1]
NoMsg == [hdr |-> <<>>, body |-> <<>>]

Init ==
    /\ buf = [p \in 0..BufSize - 1 |-> NulByte]
    /\ have = 0 /\ curr = 0
    /\ pc = "idle" /\ n0 = 0 /\ n = 0 /\ msg = NoMsg
    /\ client = 0 /\ stream = <<>> /\ pos = 0
    /\ handed = <<>> /\ inherited = FALSE /\ why = "none"

-----------------------------------------------------------------------------
(***************************************************************************)
(* Finding the end of a header.                                            *)
(***************************************************************************)

\* A wrong variant of Match that compares the length of one line end only.
MatchLine(b, p) == \A k \in 0..1 : p + k < BufSize /\ b[p + k].c = TermSeq[k + 1]

\* !strncmp(b + p, term_seq, 4), where nothing beyond the buffer compares.
Match(b, p) == \A k \in 0..3 : p + k < BufSize /\ b[p + k].c = TermSeq[k + 1]

\* The same strncmp() goes on into the guard page behind the buffer.
TouchesGuard(b, p) ==
    \E k \in 1..3 : p + k = BufSize /\ \A j \in 0..k - 1 : b[p + j].c = TermSeq[j + 1]

\* A wrong variant of IsHttpMessageEnd: no search on the boundary of two chunks.
NoBoundaryEnd(b, prev, m) ==
    m >= 4 /\ (Match(b, m - 4) \/ \E p \in prev..m - 4 : Match(b, p))

\* is_http_message_end(recv_buf, prev_n_recv, n_recv): at the end of what was
\* received, across the start of the current chunk, or in the chunk.
IsHttpMessageEnd(b, prev, m) ==
    /\ m >= 4
    /\ \/ Match(b, m - 4)
       \/ \E i \in 1..3 : prev >= i /\ Match(b, prev - i)
       \/ \E p \in prev..m - 4 : Match(b, p)

\* The comparison across the start of the chunk leaves the buffer.
Segfaults(b, prev, m) ==
    /\ m >= 4 /\ ~Match(b, m - 4)
    /\ \E i \in 1..3 : /\ prev >= i /\ TouchesGuard(b, prev - i)
                       /\ \A i2 \in i + 1..3 : prev >= i2 => ~Match(b, prev - i2)

\* find_http_headers_end() of a sequence: the size of the header with its
\* terminator, or 0.
FindHeadersEnd(s) ==
    LET ends == {e \in 4..Len(s) : \A k \in 1..4 : s[e - 4 + k].c = TermSeq[k]}
    IN  IF ends = {} THEN 0 ELSE CHOOSE e \in ends : \A f \in ends : e <= f

-----------------------------------------------------------------------------
(***************************************************************************)
(* The request cycle.                                                      *)
(***************************************************************************)

\* What the header makes of the request (ParseRequestHeader, WantKeepAlive).
TooLarge(hdr) == Len(hdr) > MaxHdr
BodyLen(hdr)  == IF ~TooLarge(hdr) /\ hdr[1].c \in DOMAIN Body THEN Body[hdr[1].c] ELSE 0
KeepsAlive(hdr) == ~TooLarge(hdr) /\ hdr[1].c \in DOMAIN Body \cup {"g"}

Least(a, b) == IF a < b THEN a ELSE b

\* init_new_conn_ctx() of a context that a former client may have used: it
\* leaves the buffer and its two fields alone.
InitNewConnCtx == UNCHANGED fields

\* A connection is accepted for this context.
Accept ==
    /\ pc = "idle" /\ client < MaxClients
    /\ client' = client + 1 /\ stream' \in Streams /\ pos' = 0
    /\ pc' = "request" /\ handed' = <<>> /\ inherited' = (have # curr)
    /\ InitNewConnCtx
    /\ UNCHANGED <<buf, n0, n, msg, why>>

\* handle_one_connection() ends, and the context returns to the cache.
Closes(reason) ==
    /\ pc' = "idle" /\ why' = reason
    /\ msg' = NoMsg /\ n0' = 0 /\ n' = 0

\* recv_http_msg() returns a request, which is then answered.
Hand(m) ==
    /\ handed' = Append(handed, m) /\ msg' = m
    /\ pc' = "reply" /\ n0' = 0 /\ n' = 0
    /\ UNCHANGED why

\* Wrong variants of Received: one forgets to store recv_buf_have, the other
\* that the bytes of the body are used up.
ForgetsHave(b, from, size, m) ==
    /\ curr' = from + size /\ UNCHANGED have
    /\ Hand([hdr |-> Slice(b, from, from + size), body |-> <<>>])
ForgetsBody(b, from, size, m) ==
    LET hdr == Slice(b, from, from + size)
        got == Least(m - from - size, BodyLen(hdr))
        req == [hdr |-> hdr, body |-> Slice(b, from + size, from + size + got)]
    IN  /\ have' = m /\ curr' = from + size
        /\ IF got < BodyLen(hdr)
           THEN pc' = "body" /\ msg' = req /\ n0' = 0 /\ n' = 0 /\ UNCHANGED <<handed, why>>
           ELSE Hand(req)

\* recv_http_msg() once recv_http_hdr() has found a header of this size at
\* "from" in the m bytes of b: what is there of the body is taken along.
Received(b, from, size, m) ==
    LET hdr  == Slice(b, from, from + size)
        got  == Least(m - from - size, BodyLen(hdr))
        end  == from + size + got
        req  == [hdr |-> hdr, body |-> Slice(b, from + size, end)]
        used == hdr[1].c \in DOMAIN Body /\ ~TooLarge(hdr) /\ end = m
    IN  /\ have' = (IF used THEN 0 ELSE m) /\ curr' = (IF used THEN 0 ELSE end)
        /\ IF got < BodyLen(hdr) THEN /\ pc' = "body" /\ msg' = req
                                      /\ n0' = 0 /\ n' = 0 /\ UNCHANGED <<handed, why>>
           ELSE Hand(req)

\* recv_http_hdr(): the header is in the buffer already.
NextHdrBuffered ==
    LET size == FindHeadersEnd(Slice(buf, curr, have))
    IN  /\ pc = "request" /\ size > 0
        /\ Received(buf, curr, size, have)
        /\ UNCHANGED <<buf, peer>>

\* A wrong variant of Moved that forgets the memmove().
NotMoved == buf

\* memmove() of what is left to the start of the buffer.
Moved == [p \in 0..BufSize - 1 |-> IF p < have - curr THEN buf[curr + p] ELSE buf[p]]

\* ... or it is not: recv_from_curr_conn() is called for the rest.  With no
\* room left it reads nothing, and 0 is taken for the end of the connection.
RecvHdr ==
    /\ pc = "request" /\ FindHeadersEnd(Slice(buf, curr, have)) = 0
    /\ buf' = Moved
    /\ IF have - curr < BufSize
       THEN /\ pc' = "header" /\ n0' = have - curr /\ n' = have - curr
            /\ UNCHANGED <<msg, why>>
       ELSE Closes("no header")
    /\ UNCHANGED <<fields, peer, handed>>

\* recv_from_curr_conn() returned with m > n0 bytes in b.
HdrReturns(b, m, reason) ==
    LET size == FindHeadersEnd(Slice(b, 0, m))
    IN  IF size > 0 THEN Received(b, 0, size, m)
        ELSE have' = m /\ curr' = 0 /\ Closes(reason) /\ UNCHANGED handed

\* read() of k bytes to b + n.
Filled(k) == [p \in 0..BufSize - 1 |-> IF p \in n..n + k - 1 THEN Sent(pos + 1, pos + k)[p - n + 1]
                                       ELSE buf[p]]
Read(k) == /\ pos + k <= Len(stream) /\ pos' = pos + k
           /\ buf' = Filled(k)
           /\ UNCHANGED <<client, stream, inherited>>

\* One round of the loop of recv_from_curr_conn() for a header.
HdrRead(k) ==
    /\ pc = "header" /\ n + k <= BufSize
    /\ Read(k)
    /\ IF Segfaults(Filled(k), n, n + k)
       THEN pc' = "crashed" /\ n' = n + k /\ UNCHANGED <<fields, n0, msg, handed, why>>
       ELSE IF IsHttpMessageEnd(Filled(k), n, n + k) \/ n + k = BufSize
       THEN HdrReturns(Filled(k), n + k, "no header")
       ELSE n' = n + k /\ UNCHANGED <<fields, pc, n0, msg, handed, why>>

\* read() returns 0 for a header: the client has closed.
HdrEof ==
    /\ pc = "header"
    /\ IF n > n0 THEN HdrReturns(buf, n, "eof")
       ELSE Closes("eof") /\ UNCHANGED <<fields, handed>>
    /\ UNCHANGED <<buf, peer>>

\* One round of the loop of recv_from_curr_conn() for a chunk of the body; the
\* operation may time out with each.
ToRecv == Least(BodyLen(msg.hdr) - Len(msg.body), BufSize)
BodyRead(k) ==
    LET more == [msg EXCEPT !.body = @ \o Slice(Filled(k), 0, ToRecv)]
    IN  /\ pc = "body" /\ n + k <= ToRecv
        /\ Read(k)
        /\ \/ /\ n + k < ToRecv
              /\ \/ n' = n + k /\ UNCHANGED <<pc, n0, msg, handed, why>>
                 \/ Closes("timeout") /\ UNCHANGED handed
           \/ /\ n + k = ToRecv
              /\ IF Len(more.body) < BodyLen(msg.hdr)
                 THEN n' = 0 /\ msg' = more /\ UNCHANGED <<pc, n0, handed, why>>
                 ELSE Hand(more)
        /\ UNCHANGED fields

BodyEof ==
    /\ pc = "body" /\ Closes("eof")
    /\ UNCHANGED <<buf, fields, peer, handed>>

\* read() or write() fails, or the response is not taken in time.
Fails ==
    /\ pc \in {"header", "body", "reply"} /\ Closes("error")
    /\ UNCHANGED <<buf, fields, peer, handed>>

\* send_http_msg(), and the return of handle_one_client_request().
Reply ==
    /\ pc = "reply"
    /\ IF KeepsAlive(msg.hdr)
       THEN pc' = "request" /\ msg' = NoMsg /\ UNCHANGED <<n0, n, why>>
       ELSE Closes("answered")
    /\ UNCHANGED <<buf, fields, peer, handed>>

Next ==
    \/ Accept \/ NextHdrBuffered \/ RecvHdr \/ HdrEof \/ BodyEof \/ Fails \/ Reply
    \/ \E k \in 1..BufSize : HdrRead(k) \/ BodyRead(k)

Spec == Init /\ [][Next]_vars

-----------------------------------------------------------------------------
(***************************************************************************)
(* Correctness.                                                            *)
(***************************************************************************)

Bytes   == [c : Char, cl : 0..MaxClients, at : Nat]
Message == [hdr : Seq(Bytes), body : Seq(Bytes)]

\* Type invariant; it includes that 0 <= recv_buf_curr <= recv_buf_have <= recv_buf_size.
RecvBufTypeOK ==
    /\ buf \in [0..BufSize - 1 -> Bytes]
    /\ have \in 0..BufSize /\ curr \in 0..have
    /\ n \in 0..BufSize /\ n0 \in 0..n
    /\ pc \in {"idle", "request", "header", "body", "reply", "crashed"}
    /\ msg \in Message /\ handed \in Seq(Message)
    /\ client \in 0..MaxClients /\ stream \in Seq(Char) /\ pos \in 0..Len(stream)

Whole(m) == m.hdr \o m.body

\* Received from the current client, but not in a request handed over.
Pending == CASE pc \in {"request", "reply"} -> Slice(buf, curr, have)
             [] pc = "header"               -> Slice(buf, 0, n)
             [] pc = "body"                 -> Whole(msg) \o Slice(buf, 0, n)

\* How much of the stream the requests before the i-th one were, and all of them.
UsedBefore(i) == IF i = 1 THEN 0
                 ELSE LET w == Whole(handed[i - 1]) IN w[Len(w)].at
Used          == UsedBefore(Len(handed) + 1)

\* These bytes are what was read from the client after the first q bytes.
ReadAfter(q, s) == q + Len(s) <= pos /\ s = Sent(q + 1, q + Len(s))

\* A request is one header, cut at its first terminator, and the body it announces.
HeaderCut(m) == m.hdr # <<>> /\ FindHeadersEnd(m.hdr) = Len(m.hdr)
WellCut(m)   == HeaderCut(m) /\ Len(m.body) = BodyLen(m.hdr)

(***************************************************************************)
(* Pipelined requests, moves of the buffer, chunks cut anywhere and bodies *)
(* longer than the buffer lose, repeat or reorder no byte: the requests    *)
(* handed over (recv_http_msg), one after the other, and what is still     *)
(* pending are exactly what was read, and every request is one header, cut *)
(* at its first terminator, with the body it announces.  The first half is *)
(* said of clients whose context was clean.                                *)
(***************************************************************************)
ReadInOrder ==
    pc \in {"request", "header", "body", "reply"} /\ ~inherited =>
        /\ \A i \in DOMAIN handed : ReadAfter(UsedBefore(i), Whole(handed[i]))
        /\ ReadAfter(Used, Pending) /\ Used + Len(Pending) = pos
RequestsCutExactly ==
    /\ \A i \in DOMAIN handed : WellCut(handed[i])
    /\ ReadInOrder

(***************************************************************************)
(* is_http_message_end() misses no terminator, however a header was cut    *)
(* into chunks: the loop of recv_from_curr_conn() never waits for more     *)
(* when a whole header is in the buffer.  And it compares bytes of the     *)
(* guard page, which ends the worker, only when the buffer has become      *)
(* full, but for one byte, without a terminator (srv_conn_send_recv.c:37). *)
(***************************************************************************)
NeverWaitsForReceived ==
    /\ pc \in {"header", "crashed"} => FindHeadersEnd(Slice(buf, 0, n)) = 0
    /\ pc = "crashed" => n >= BufSize - 1

(***************************************************************************)
(* A client whose every byte was part of an answered request leaves        *)
(* nothing to the next client of the context (recv_buf_have and            *)
(* recv_buf_curr survive in the cache, init_new_conn_ctx).                 *)
(***************************************************************************)
AnsweredClientLeavesNothing ==
    pc = "idle" /\ client > 0 /\ ~inherited /\ Used = pos => have = curr

(***************************************************************************)
(* recv_http_hdr() gives up without an answer only when the header does    *)
(* not fit the buffer, or when the buffer held bytes of a former request   *)
(* or client: is_http_message_end() is right on a buffer used only once.   *)
(***************************************************************************)
NoHeaderOnlyForAReason ==
    [][why' = "no header" /\ pc # "idle" /\ pc' = "idle" =>
         \/ n = 0 /\ have - curr = BufSize
         \/ pos' - pos + n = BufSize
         \/ inherited
         \/ handed # <<>> \/ client > 1]_vars

-----------------------------------------------------------------------------
(***************************************************************************)
(* The inductive invariant.                                                *)
(***************************************************************************)

\* Where the counters and the message are at each point of the cycle.  A
\* request with a body has used up the buffer before its body is waited for.
CycleFits ==
    /\ pc \in {"idle", "request", "reply"} => n = 0
    /\ pc = "header" => n0 = have - curr
    /\ pc = "body"   => /\ n0 = 0 /\ have = curr
                        /\ HeaderCut(msg) /\ Len(msg.body) < BodyLen(msg.hdr)
    /\ pc = "reply"  => handed # <<>>
    /\ pc # "idle"   => client > 0

\* Until the first request of the first client of the context is complete,
\* the buffer is zero behind what was received.
FreshIsZero ==
    (pc = "idle" /\ client = 0) \/ (pc \in {"request", "header"} /\ client <= 1 /\ handed = <<>>) =>
       have = 0 /\ curr = 0 /\ \A p \in n..BufSize - 1 : buf[p] = NulByte

RecvBufIInv ==
    /\ RecvBufTypeOK /\ CycleFits /\ FreshIsZero
    /\ RequestsCutExactly /\ NeverWaitsForReceived /\ AnsweredClientLeavesNothing

-----------------------------------------------------------------------------
(***************************************************************************)
(* Claims of the source that the code does not keep.                       *)
(***************************************************************************)

\* "Handle all http requests received from client" (srv_routines.c:43): every
\* byte of a request that is answered was sent by the client it is answered to.
OwnRequestsOnly ==
    \A i \in DOMAIN handed : \A b \in ToSet(Whole(handed[i])) : b.cl = client

\* "Connection is closed when client closes it, requests "Connection: close"
\* or recv/send timeout occurs" (srv_routines.c:46-47): never for want of a header.
ClosedAsDocumented == why # "no header"

\* "Check if at least one termination sequence "\r\n\r\n" conained in http
\* message" (srv_conn_send_recv.c:15-16): the wait for a header is over only
\* when there is one, the client has closed, or the buffer is full.
EndIsTermination ==
    [][pc = "header" /\ pos' > pos /\ pos' - pos + n < BufSize /\ pc' \notin {"header", "crashed"} =>
         FindHeadersEnd(Slice(Filled(pos' - pos), 0, n + pos' - pos)) > 0]_vars
=============================================================================
