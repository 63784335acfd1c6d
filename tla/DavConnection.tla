--------------------------- MODULE DavConnection ----------------------------
(***************************************************************************)
(* One connection of the virtual disk: serve_connection, the body readers  *)
(* and the answers of crates/rustscp-core/src/webdav_server.rs.  A client  *)
(* sends requests one after the other without waiting for answers.  What   *)
(* it sends is a sequence of tokens: a head, a chunk-size line, a piece of *)
(* data, the end of a line, a trailer.                                     *)
(***************************************************************************)
EXTENDS Naturals, Sequences, SequencesExt

CONSTANTS
    Scripts,    \* what a client may send: sequences of requests
    SmallBody   \* MAX_SMALL_BODY, in pieces

(* chunks: the sizes of the chunks, or the one Content-Length.  longer: a  *)
(* chunk has more data than its line says.                                 *)
AnyRequest == [put : BOOLEAN, chunked : BOOLEAN, chunks : Seq(Nat), longer : BOOLEAN, close : BOOLEAN]

Count(k) == [j \in 1..k |-> j]
BodyLength(q) == FoldSeq(LAMBDA n, sum : n + sum, 0, q.chunks)
Data(i, k)  == [j \in 1..k |-> <<"data", i>>]
ChunkOf(i, q, n) == <<<<"size", n>>>> \o Data(i, IF q.longer THEN n + 1 ELSE n) \o <<<<"crlf">>>>
TokensOf(i, q) ==
    <<<<"head", i>>>> \o
    IF q.chunked
    THEN FlattenSeq([j \in 1..Len(q.chunks) |-> ChunkOf(i, q, q.chunks[j])])
         \o <<<<"size", 0>>, <<"trailer">>, <<"crlf">>>>
    ELSE Data(i, BodyLength(q))
Tokens(script) == FlattenSeq([i \in 1..Len(script) |-> TokensOf(i, script[i])])

VARIABLES
    script,     \* the requests of the client
    wire,       \* what it sent and the server has not read
    ended,      \* nothing more will come: closed, failed or stalled too long
    buf,        \* read and not yet used
    conn,       \* "head", "dispatch", "body", "reply" or "closed"
    cur,        \* the request being handled
    body,       \* the state of its BodyReader
    got,        \* pieces taken of its body
    verdict,    \* what the handler answers
    served      \* requests whose body was taken as complete

connVars == <<script, wire, ended, buf, conn, cur, body, got, verdict, served>>

Now == script[cur]
HasBody == Now.chunked \/ BodyLength(Now) # 0

Done == [mode |-> "done"]
Sized(n) == IF n = 0 THEN Done ELSE [mode |-> "length", left |-> n]
Chunk(n, crlf) == [mode |-> "chunked", left |-> n, crlf |-> crlf]
FramingOf(q) == IF q.chunked THEN Chunk(0, FALSE) ELSE Sized(BodyLength(q))

Arrives ==
    /\ wire # <<>> /\ ~ended /\ conn # "closed"
    /\ buf' = Append(buf, Head(wire)) /\ wire' = Tail(wire)
    /\ UNCHANGED <<script, ended, conn, cur, body, got, verdict, served>>

Closes ==
    /\ ~ended /\ ended' = TRUE
    /\ UNCHANGED <<script, wire, buf, conn, cur, body, got, verdict, served>>

(* ------------------------- read_head, handle_request --------------------- *)
ReadHead ==
    /\ conn = "head" /\ buf # <<>> /\ Head(buf)[1] = "head"
    /\ cur' = Head(buf)[2] /\ buf' = Tail(buf)
    /\ body' = FramingOf(script[cur'])
    /\ got' = 0 /\ verdict' = "none" /\ conn' = "dispatch"
    /\ UNCHANGED <<script, wire, ended, served>>

NoMoreRequests ==
    /\ conn = "head" /\ buf = <<>> /\ ended /\ conn' = "closed"
    /\ UNCHANGED <<script, wire, ended, buf, cur, body, got, verdict, served>>

(* Every answer says whether the connection is kept.                       *)
AnswerWith(v, close) ==
    /\ verdict' = v
    /\ conn' = IF close THEN "closed" ELSE "head"

ToBody ==
    /\ conn = "dispatch" /\ conn' = "body"
    /\ UNCHANGED <<script, wire, ended, buf, cur, body, got, verdict, served>>

(* A refused target, a PUT on a folder or on the root: the body is not     *)
(* read.                                                                   *)
RefuseUnread ==
    /\ conn = "dispatch"
    /\ AnswerWith("refused", Now.close \/ HasBody)
    /\ UNCHANGED <<script, wire, ended, buf, cur, body, got, served>>

(* ------------------------- BodyReader::next_piece ----------------------- *)
Reading == conn = "body" /\ body.mode # "done"
Wants(kinds) == buf # <<>> /\ Head(buf)[1] \in kinds
BodyTo(b) == body' = b /\ UNCHANGED <<got, conn, verdict>>

Take ==                 \* a piece of data, of a body or of a chunk
    /\ Reading /\ body.mode \in {"length", "chunked"} /\ body.left > 0 /\ buf # <<>>
    /\ buf' = Tail(buf)
    /\ got' = got + 1
    /\ body' = IF body.mode = "length" THEN Sized(body.left - 1)
               ELSE Chunk(body.left - 1, body.left = 1)
    /\ IF ~Now.put /\ got + 1 > SmallBody THEN AnswerWith("tooLarge", TRUE)
       ELSE UNCHANGED <<conn, verdict>>
    /\ UNCHANGED <<script, wire, ended, cur, served>>

AtLine == Reading /\ body.mode = "chunked" /\ body.left = 0 /\ buf # <<>>
ChunkEnd ==
    /\ AtLine /\ body.crlf
    /\ IF Wants({"crlf"}) THEN buf' = Tail(buf) /\ BodyTo(Chunk(0, FALSE))
       ELSE AnswerWith("malformed", TRUE) /\ UNCHANGED <<buf, body, got>>
    /\ UNCHANGED <<script, wire, ended, cur, served>>

ChunkSize ==
    /\ AtLine /\ ~body.crlf /\ Wants({"size"})
    /\ buf' = Tail(buf)
    /\ BodyTo(IF Head(buf)[2] = 0 THEN [mode |-> "trailers"] ELSE Chunk(Head(buf)[2], FALSE))
    /\ UNCHANGED <<script, wire, ended, cur, served>>

Trailers ==
    /\ Reading /\ body.mode = "trailers" /\ Wants({"trailer", "crlf"})
    /\ buf' = Tail(buf)
    /\ BodyTo(IF Wants({"crlf"}) THEN Done ELSE body)
    /\ UNCHANGED <<script, wire, ended, cur, served>>

(* Mutant: the end of the connection is taken for the end of the body.     *)
EndOfBodyAtEof ==
    /\ Reading /\ buf = <<>> /\ ended
    /\ BodyTo(Done)
    /\ UNCHANGED <<script, wire, ended, buf, cur, served>>
Truncated ==
    /\ Reading /\ buf = <<>> /\ ended
    /\ AnswerWith("truncated", TRUE)
    /\ UNCHANGED <<script, wire, ended, buf, cur, body, got, served>>

(* ------------------------------- Answers --------------------------------- *)
(* The server a PUT writes to may fail at any piece.  Mutant: the          *)
(* connection is then kept.                                                *)
PutFailsKeeping ==
    /\ conn = "body" /\ Now.put
    /\ AnswerWith("failed", Now.close)
    /\ UNCHANGED <<script, wire, ended, buf, cur, body, got, served>>
PutFails ==
    /\ conn = "body" /\ Now.put
    /\ AnswerWith("failed", Now.close \/ body # Done)
    /\ UNCHANGED <<script, wire, ended, buf, cur, body, got, served>>

Complete ==
    /\ conn = "body" /\ body = Done
    /\ AnswerWith("ok", Now.close)
    /\ served' = Append(served, <<cur, got>>)
    /\ UNCHANGED <<script, wire, ended, buf, cur, body, got>>

ConnInit ==
    /\ script \in Scripts /\ wire = Tokens(script)
    /\ ended = FALSE /\ buf = <<>> /\ conn = "head" /\ cur = 0 /\ body = Done
    /\ got = 0 /\ verdict = "none" /\ served = <<>>

ConnNext ==
    \/ Arrives \/ Closes \/ ReadHead \/ NoMoreRequests \/ ToBody \/ RefuseUnread
    \/ Take \/ ChunkEnd \/ ChunkSize \/ Trailers \/ Truncated \/ PutFails \/ Complete

ConnSpec == ConnInit /\ [][ConnNext]_connVars

(* ------------------------------ Properties ------------------------------ *)
(* Whatever a handler left of a body, what the server reads as the next    *)
(* head is the head of the request the client sent next.                   *)
HeadIsAHead ==
    conn = "head" /\ buf # <<>> => Head(buf) = <<"head", cur + 1>>

(* A body handed over as complete has every piece the client sent of it    *)
(* and none of another request, however its bytes arrived.                 *)
BodyIsExact ==
    \A k \in DOMAIN served :
        LET q == script[served[k][1]]
        IN  ~q.longer /\ served[k][2] = BodyLength(q)

(* No byte of one request is taken for a byte of another on a connection   *)
(* that is kept open (serve_connection, BodyReader).                       *)
RequestsKeepTheirBounds == HeadIsAHead /\ BodyIsExact
=============================================================================
