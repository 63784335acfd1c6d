----------------------------- MODULE ExecSftp ------------------------------
(***************************************************************************)
(* SFTP spoken to a program that was started as a command (exec_sftp.rs):  *)
(* threads share one stream.  Each writes its requests under the lock on   *)
(* the state; one of them at a time reads replies, for everybody, without  *)
(* that lock, and the others sleep until it has routed one.  Each action   *)
(* is one critical section.  The server answers in any order.              *)
(***************************************************************************)
EXTENDS Naturals, Sequences, FiniteSets
LOCAL INSTANCE FiniteSetsExt

CONSTANTS
    FileReader, FileWriter, Asker,  \* threads, by what they do
    NoOne,
    Length,      \* of the file that is read, in units
    ReadChunk, MaxReadsInFlight, OutLen,
    WriteChunks, \* of one write
    MaxWritesInFlight,
    ReplyBudget, \* as many units fit in the window of the channel
    Ids,         \* bound: request ids before they wrap around
    Teams        \* sets of threads that work at the same time

ASSUME ExecAssumption ==
    /\ Length \in Nat /\ ReadChunk \in Nat \ {0} /\ OutLen \in Nat \ {0}
    /\ MaxReadsInFlight \in Nat \ {0} /\ MaxWritesInFlight \in Nat \ {0}
    /\ ReplyBudget \in Nat /\ Ids \in Nat \ {0}
    /\ Teams \subseteq SUBSET (FileReader \cup FileWriter \cup Asker)

Thread == FileReader \cup FileWriter \cup Asker
Id     == 0..(Ids - 1)

VARIABLES
    greeting,   \* the handshake: "started", "refused", or what was received
    slots,      \* the state of each request id: "free", "waiting", "done",
                \* "discard"; reserved reply units, request and reply
    next_id, in_flight, stream_broken,
    reader,     \* reader_active, with the thread that reads
    outstanding,      \* ids the server has not answered
    written,     \* chunks of the current write the server has
    doing       \* what each thread does, with its local variables

execVars == <<greeting, slots, next_id, in_flight, stream_broken, reader, outstanding, written, doing>>
table    == <<slots, next_id, in_flight, outstanding>>

NoReq == [who |-> NoOne, op |-> "none", at |-> 0, len |-> 0]
Free  == [is |-> "free", need |-> 0, req |-> NoReq, reply |-> "none", n |-> 0]
Resting == [at |-> "idle", then |-> "none", req |-> NoReq, wait |-> 0, queue |-> <<>>,
            pos |-> 0, next |-> 0, stash |-> <<0, 0>>, hold |-> <<0, 0>>, front |-> FALSE,
            eof |-> FALSE, filled |-> 0, ok |-> TRUE,
            right |-> TRUE]     \* history: what was copied was what followed

On(t, a) == doing[t].at = a
Become(t, r) == doing' = [doing EXCEPT ![t] = r]

(* Bytes reserved for a reply: those of a read, or of a listing.           *)
Need(req) == IF req.op = "list" THEN 3 ELSE IF req.op = "read" THEN req.len ELSE 1

(* ------------------------------- handshake ------------------------------ *)
(* INIT is sent; text of login scripts may come before the marker.         *)
Greeted(token) ==
    CASE token = "text" /\ greeting # "marker"               -> "text"
      [] token = "marker" /\ greeting # "marker"             -> "marker"
      [] token = "version" /\ greeting \in {"init", "marker"} -> "started"
      [] OTHER                                               -> "refused"
Handshake ==
    /\ greeting \notin {"started", "refused"}
    /\ \E token \in {"text", "long text", "marker", "version", "old version", "end", "silence"} :
           greeting' = Greeted(token)
    /\ UNCHANGED <<table, stream_broken, reader, written, doing>>

(* -------------------------------- progress ------------------------------ *)
(* Reads for everybody, or sleeps until the one that reads has routed.     *)
Progress(t) ==
    IF reader # NoOne
    THEN Become(t, [doing[t] EXCEPT !.at = "asleep", !.then = doing[t].at]) /\ UNCHANGED reader
    ELSE Become(t, [doing[t] EXCEPT !.at = "reading", !.then = doing[t].at]) /\ reader' = t
(* turn.notify_all: they go back to what they did.                         *)
(* Mutant: the one that read goes on and wakes nobody.                     *)
AwakeAlone(t) ==
    doing' = [doing EXCEPT ![t] = [@ EXCEPT !.at = doing[t].then, !.then = "none"]]
Awake(t) ==
    doing' = [u \in Thread |->
        IF u = t \/ On(u, "asleep")
        THEN [doing[u] EXCEPT !.at = doing[u].then, !.then = "none"] ELSE doing[u]]

(* What the server answers to a request: some data, all of them short of   *)
(* the end, or a refusal.                                                  *)
Answers(req) ==
    {[reply |-> "no", n |-> 0]} \cup
    (IF req.op # "read" THEN {[reply |-> "ok", n |-> 0]}
     ELSE IF req.at >= Length THEN {[reply |-> "eof", n |-> 0]}
     ELSE {[reply |-> "data", n |-> k] : k \in 1..Min({req.len, Length - req.at})})
Routed(id, a) ==
    /\ in_flight' = in_flight - slots[id].need
    /\ slots' = [slots EXCEPT ![id] =
           IF @.is = "waiting" THEN [@ EXCEPT !.is = "done", !.reply = a.reply, !.n = a.n] ELSE Free]
Receive(t) ==
    /\ On(t, "reading") /\ reader' = NoOne
    /\ \/ \E id \in outstanding : \E a \in Answers(slots[id].req) :
              /\ outstanding' = outstanding \ {id} /\ Routed(id, a)
              /\ written' = IF slots[id].req.op = "write" /\ a.reply = "ok"
                           THEN written \cup {slots[id].req.at} ELSE written
              /\ UNCHANGED stream_broken
       \/ stream_broken' = TRUE /\ UNCHANGED <<slots, in_flight, outstanding, written>>
    /\ Awake(t)
    /\ UNCHANGED <<greeting, next_id>>

(* ------------------------------ send and wait --------------------------- *)
(* Mutant: the next number, taken or not.                                  *)
NextNumber == next_id
FreshId == CHOOSE id \in Id : \E k \in 0..(Ids - 1) :
    /\ id = (next_id + k) % Ids /\ slots[id].is = "free"
    /\ \A j \in 0..(k - 1) : slots[(next_id + j) % Ids].is # "free"
(* Mutant: replies nobody has read yet are not counted.                    *)
FitsAlone(need) == need <= ReplyBudget
Fits(need) == in_flight = 0 \/ in_flight + need <= ReplyBudget

(* ------------------- what a thread does by itself ----------------------- *)
(* read_step up to the next request: what has come is copied to the        *)
(* caller, then more is asked for or what was asked first is waited for.   *)
Ahead == IF 4 * OutLen < ReadChunk THEN ReadChunk
         ELSE Min({4 * OutLen, ReadChunk * MaxReadsInFlight})
Limit(d) == d.pos - d.filled + (IF Ahead > OutLen THEN Ahead ELSE OutLen)
InStash(d) == d.stash[2] - d.stash[1]
Copied(d) ==
    LET n == Min({InStash(d), OutLen - d.filled}) IN
    IF n = 0 THEN d
    ELSE [d EXCEPT !.stash = IF n = InStash(d) THEN <<0, 0>> ELSE <<@[1] + n, @[2]>>,
                   !.pos = @ + n, !.filled = @ + n, !.right = @ /\ d.stash[1] = d.pos]
Return(d) == [d EXCEPT !.at = "idle", !.filled = 0,
                       !.right = @ /\ (d.filled = OutLen \/ d.pos >= Length)]
ReadOn(t, d) ==
    LET c == Copied(d) IN
    CASE c.filled = OutLen \/ c.eof -> Return(c)
      [] c.filled < OutLen /\ ~c.eof /\ Len(c.queue) < MaxReadsInFlight /\ c.next < Limit(c) ->
             [c EXCEPT !.at = "send", !.req = [who |-> t, op |-> "read", at |-> c.next, len |-> ReadChunk]]
      [] OTHER -> IF c.queue = <<>> THEN Return(c)
                  ELSE [c EXCEPT !.at = "wait", !.wait = Head(c.queue).id, !.queue = Tail(@)]
(* write_inner: pieces are sent, and all are waited for.                   *)
(* Mutant: it returns when the last piece was sent.                        *)
WriteOnUnread(t, d) ==
    IF d.next = WriteChunks THEN [Resting EXCEPT !.pos = 1]
    ELSE [d EXCEPT !.at = "send", !.req = [who |-> t, op |-> "write", at |-> d.next, len |-> 1]]
WriteOn(t, d) ==
    CASE d.next < WriteChunks /\ Len(d.queue) < MaxWritesInFlight ->
             [d EXCEPT !.at = "send", !.req = [who |-> t, op |-> "write", at |-> d.next, len |-> 1]]
      [] d.queue # <<>> -> [d EXCEPT !.at = "wait", !.wait = Head(d.queue).id, !.queue = Tail(@)]
      [] OTHER -> [Resting EXCEPT !.pos = 1]      \* Ok(buf.len())

Sent(t, id) ==      \* what the thread does with the id
    LET d == [doing[t] EXCEPT !.req = NoReq]
        entry == [id |-> id, at |-> doing[t].req.at, len |-> doing[t].req.len] IN
    CASE doing[t].req.op = "read" /\ ~d.front ->
             ReadOn(t, [d EXCEPT !.queue = Append(@, entry), !.next = @ + ReadChunk])
      [] doing[t].req.op = "read" /\ d.front ->
             ReadOn(t, [d EXCEPT !.queue = <<entry>> \o @, !.front = FALSE,
                                 !.stash = d.hold, !.hold = <<0, 0>>])
      [] doing[t].req.op = "write" ->
             WriteOn(t, [d EXCEPT !.queue = Append(@, entry), !.next = @ + 1])
      [] OTHER -> [d EXCEPT !.at = "wait", !.wait = id]
(* A read resets the read-ahead, a write discards what is in flight.       *)
Failed(d) ==
    IF d.queue # <<>> THEN [d EXCEPT !.at = "discard", !.ok = FALSE, !.req = NoReq]
    ELSE [Resting EXCEPT !.pos = d.pos, !.next = d.pos, !.ok = FALSE]

WriteFails(t) ==
    /\ stream_broken' = TRUE
    /\ doing' = [u \in Thread |->
           IF u = t THEN Failed(doing[t])
           ELSE IF On(u, "asleep") THEN [doing[u] EXCEPT !.at = doing[u].then, !.then = "none"]
           ELSE doing[u]]
    /\ UNCHANGED <<table, reader>>
Send(t) ==
    LET req == doing[t].req IN
    /\ On(t, "send")
    /\ \/ stream_broken /\ Become(t, Failed(doing[t])) /\ UNCHANGED <<table, stream_broken, reader>>
       \/ ~stream_broken /\ ~Fits(Need(req)) /\ Progress(t) /\ UNCHANGED <<table, stream_broken>>
       \/ /\ ~stream_broken /\ Fits(Need(req)) /\ \E id \in Id : slots[id].is = "free"
          /\ LET id == FreshId IN
             /\ slots' = [slots EXCEPT ![id] = [Free EXCEPT !.is = "waiting", !.need = Need(req),
                                                            !.req = req]]
             /\ next_id' = (id + 1) % Ids /\ outstanding' = outstanding \cup {id}
             /\ Become(t, Sent(t, id))
          /\ in_flight' = in_flight + Need(req) /\ UNCHANGED <<stream_broken, reader>>
       \/ ~stream_broken /\ Fits(Need(req)) /\ WriteFails(t)
    /\ UNCHANGED <<greeting, written>>

(* A reply to a read: a short one is followed by a request for the rest,   *)
(* ahead of those in flight, before its data count.                        *)
(* Mutant: what is missing is not asked for.                               *)
RestForgotten(t, d, e, n) == ReadOn(t, [d EXCEPT !.stash = <<e.at, e.at + n>>])
AskRest(t, d, e, n) ==
    [d EXCEPT !.at = "send", !.front = TRUE, !.hold = <<e.at, e.at + n>>,
              !.req = [who |-> t, op |-> "read", at |-> e.at + n, len |-> e.len - n]]
ReadReply(t, s) ==
    LET d == [doing[t] EXCEPT !.wait = 0] e == s.req IN
    CASE s.reply = "data" /\ s.n < e.len ->
             AskRest(t, d, e, s.n)
      [] s.reply = "data" /\ s.n >= e.len ->
             ReadOn(t, [d EXCEPT !.stash = <<e.at, e.at + s.n>>])
      [] s.reply = "eof"  -> [d EXCEPT !.at = "discard", !.eof = TRUE]
      [] OTHER            -> Failed(d)
Replied(t, s) ==
    CASE t \in FileReader /\ s.req.op = "read" -> ReadReply(t, s)
      [] t \in FileWriter /\ s.req.op = "write" ->
             IF s.reply = "ok" THEN WriteOn(t, [doing[t] EXCEPT !.wait = 0])
             ELSE Failed(doing[t])
      [] OTHER -> Resting
Wait(t) ==
    LET id == doing[t].wait s == slots[id] IN
    /\ On(t, "wait")
    /\ \/ /\ s.is = "done" /\ slots' = [slots EXCEPT ![id] = Free]
          /\ Become(t, Replied(t, s)) /\ UNCHANGED reader
       \/ /\ s.is # "done" /\ stream_broken /\ slots' = [slots EXCEPT ![id] = Free]
          /\ Become(t, Failed(doing[t])) /\ UNCHANGED reader
       \/ s.is # "done" /\ ~stream_broken /\ Progress(t) /\ UNCHANGED slots
    /\ UNCHANGED <<greeting, next_id, in_flight, outstanding, stream_broken, written>>

(* Mutant: what is given up is no longer reserved.                         *)
DroppedUnreserved(ids) ==
    /\ slots' = [id \in Id |-> IF id \notin ids \/ slots[id].is = "free" THEN slots[id]
                               ELSE IF slots[id].is = "done" THEN Free
                               ELSE [slots[id] EXCEPT !.is = "discard", !.req = NoReq]]
    /\ in_flight' = in_flight - MapThenSumSet(LAMBDA id :
           IF slots[id].is = "waiting" THEN slots[id].need ELSE 0, ids)
Dropped(ids) ==
    /\ slots' = [id \in Id |-> IF id \notin ids \/ slots[id].is = "free" THEN slots[id]
                               ELSE IF slots[id].is = "done" THEN Free
                               ELSE [slots[id] EXCEPT !.is = "discard", !.req = NoReq]]
    /\ UNCHANGED in_flight
(* reset_read_ahead, or the end of a write that failed.                    *)
Discarding(t) ==
    LET d == doing[t] IN
    /\ On(t, "discard")
    /\ Dropped({d.queue[i].id : i \in 1..Len(d.queue)})
    /\ Become(t,
           IF d.eof THEN Return([Resting EXCEPT !.pos = d.pos, !.next = d.pos, !.eof = TRUE,
                                             !.filled = d.filled, !.right = d.right])
           ELSE [Resting EXCEPT !.pos = d.pos, !.next = d.pos, !.ok = d.ok])
    /\ UNCHANGED <<greeting, next_id, outstanding, stream_broken, reader, written>>

(* ------------------------------ seek, read ------------------------------ *)
Read(t) ==
    /\ On(t, "idle") /\ greeting = "started"
    /\ Become(t, ReadOn(t, [doing[t] EXCEPT !.ok = TRUE]))
    /\ UNCHANGED <<greeting, table, stream_broken, reader, written>>
Rewind(t) ==     \* a seek, to where there is something to read
    /\ On(t, "idle") /\ greeting = "started" /\ doing[t].pos # 0
    /\ Become(t, [Resting EXCEPT !.queue = doing[t].queue, !.at = "discard"])
    /\ UNCHANGED <<greeting, table, stream_broken, reader, written>>

(* ------------------------------ write_inner ----------------------------- *)
Write(t) ==
    /\ On(t, "idle") /\ greeting = "started"
    /\ Become(t, WriteOn(t, Resting)) /\ written' = {}
    /\ UNCHANGED <<greeting, table, stream_broken, reader>>
Request(t) ==        \* realpath, readdir and the other requests of one reply
    /\ On(t, "idle") /\ greeting = "started"
    /\ Become(t, [Resting EXCEPT !.at = "send", !.req = [NoReq EXCEPT !.who = t, !.op = "list"]])
    /\ UNCHANGED <<greeting, table, stream_broken, reader, written>>

ExecInit ==
    /\ greeting = "init" /\ slots = [id \in Id |-> Free] /\ next_id = 0 /\ in_flight = 0
    /\ stream_broken = FALSE /\ reader = NoOne /\ outstanding = {} /\ written = {}
    /\ \E team \in Teams :
           doing = [t \in Thread |-> IF t \in team THEN Resting ELSE [Resting EXCEPT !.at = "away"]]
ExecNext ==
    \/ Handshake
    \/ \E t \in Thread : Send(t) \/ Wait(t) \/ Receive(t) \/ Discarding(t)
    \/ \E t \in FileReader : Read(t) \/ Rewind(t)
    \/ \E t \in FileWriter : Write(t)
    \/ \E t \in Asker : Request(t)
ExecSpec == ExecInit /\ [][ExecNext]_execVars

(* ------------------------------- Properties ----------------------------- *)
At(t, a) == On(t, a) \/ (doing[t].at \in {"asleep", "reading"} /\ doing[t].then = a)
Asked(t, id, at) ==
    /\ slots[id].is \in {"waiting", "done"}
    /\ slots[id].req.who = t /\ slots[id].req.at = at
(* Whatever the ids wrap to: what a thread waits for is in the table and   *)
(* is the answer to its own request.                                       *)
RepliesAreOwn ==
    \A t \in Thread :
        /\ At(t, "wait") => slots[doing[t].wait].is \in {"waiting", "done"}
                            /\ slots[doing[t].wait].req.who = t
        /\ \A i \in 1..Len(doing[t].queue) : Asked(t, doing[t].queue[i].id, doing[t].queue[i].at)
(* With short replies, seeks and refusals: what is copied to the caller    *)
(* next is what follows, and a read ends early at the end of the file only.*)
ReadsAreInOrder ==
    \A t \in FileReader :
        /\ doing[t].right
        /\ InStash(doing[t]) > 0 => doing[t].stash[1] = doing[t].pos
(* A write that returned Ok is at the server, every piece of it.           *)
WrittenIsStored ==
    \A t \in FileWriter : On(t, "idle") /\ doing[t].pos = 1 => written = 0..(WriteChunks - 1)
(* Replies nobody reads never fill the window, so the server goes on       *)
(* reading and no thread stops for ever in a write with the lock held.     *)
WindowIsKept ==
    \/ Cardinality(outstanding) <= 1
    \/ MapThenSumSet(LAMBDA id : slots[id].need, outstanding) <= ReplyBudget
(* No thread sleeps when nobody reads: the one that reads wakes them all   *)
(* before it stops, whatever it read and whether or not the stream broke.  *)
SleepersHaveAReader ==
    /\ \A t \in Thread : On(t, "reading") <=> reader = t
    /\ (\E t \in Thread : On(t, "asleep")) => reader # NoOne
StreamIsShared ==
    RepliesAreOwn /\ ReadsAreInOrder /\ WrittenIsStored /\ WindowIsKept /\ SleepersHaveAReader
=============================================================================
