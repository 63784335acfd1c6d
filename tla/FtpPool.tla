------------------------------ MODULE FtpPool ------------------------------
(***************************************************************************)
(* The FTP driver (ftp.rs): a pool of control connections of at most       *)
(* MaxConns, from which every operation takes one for its whole length,    *)
(* and the downloads read_range leaves open on a connection so that the    *)
(* next range goes on without a new RETR.  The server owes one reply for   *)
(* every command, and one more at the end of every transfer; a connection  *)
(* is only of use while each reply is read for the command it answers.     *)
(***************************************************************************)
EXTENDS Naturals, Sequences, FiniteSets

CONSTANTS
    Talker,    \* callers whose operation is commands only
    Reader,    \* callers that read the file range by range
    Lister,    \* callers that read a listing or a whole file
    Writer,    \* callers that store a file
    Conn,      \* names of control connections
    None,      \* no connection, no open download
    MaxConns,  \* MAX_CONNECTIONS
    Ranges     \* length of the file, in ranges

ASSUME FtpAssumption ==
    /\ MaxConns \in Nat \ {0} /\ Ranges \in Nat
    /\ IsFiniteSet(Conn) /\ None \notin Conn \cup (Nat \X Nat)
    /\ IsFiniteSet(Talker \cup Reader \cup Lister \cup Writer)
    /\ Talker \cap (Reader \cup Lister \cup Writer) = {}      \* a caller does one thing
    /\ Reader \cap (Lister \cup Writer) = {} /\ Lister \cap Writer = {}

Caller == Talker \cup Reader \cup Lister \cup Writer

VARIABLES
    stage,    \* where each caller is
    holds,    \* the connection it works on
    pool,     \* connections nobody works on
    owed,     \* the replies a connection has still to deliver
    retr,     \* the open download of a connection: where it goes on and where
              \* its data really are, or None
    broken,   \* connections that must not go back to the pool
    misheard, \* history: callers that took the reply of another command
    got,      \* the ranges a reader was given, the end of the file as Ranges
    moved     \* "no", "part" or "all" of the data of a lister or writer arrived

wire    == <<owed, retr, broken, misheard>>
files   == <<got, moved>>
ftpVars == <<stage, holds, pool, wire, files>>

CallerAt(c, s) == stage[c] = s
CallerTo(c, s) == stage' = [stage EXCEPT ![c] = s]
Open(k)  == retr[k] # None
asked(c) == Len(got[c])
(* Mutant: whatever download of the file is open will do.                  *)
ContinuesAny(c, k) == Open(k)
Continues(c, k) == Open(k) /\ retr[k][1] = asked(c)

(* ------------------------- with_conn, take_conn ------------------------- *)
Busy == {c \in Caller : stage[c] # "idle"}
Enter(c) ==
    /\ CallerAt(c, "idle") /\ Cardinality(Busy) < MaxConns /\ CallerTo(c, "taking")
    /\ UNCHANGED <<holds, pool, wire, files>>

(* The connection whose download goes on where the caller reads, else one  *)
(* without a download, else any; after some time it is tried with a NOOP.  *)
Preferred(c) ==
    LET same == {k \in pool : c \in Reader /\ Continues(c, k)}
        free == {k \in pool : ~Open(k)}
    IN  IF same # {} THEN same ELSE IF free # {} THEN free ELSE pool
Begin(c) == IF c \in Talker THEN "talk" ELSE IF c \in Reader THEN "range" ELSE "open"
TakePooled(c) ==
    /\ CallerAt(c, "taking") /\ stage' \in {[stage EXCEPT ![c] = s] : s \in {Begin(c), "noop"}}
    /\ \E k \in Preferred(c) : holds' = [holds EXCEPT ![c] = k] /\ pool' = pool \ {k}
    /\ UNCHANGED <<wire, files>>
Unused == {k \in Conn \ pool : \A c \in Caller : holds[c] # k}
ConnectNew(c) ==
    /\ CallerAt(c, "taking")
    /\ \/ \E k \in Unused : holds' = [holds EXCEPT ![c] = k] /\ CallerTo(c, Begin(c))
       \/ UNCHANGED holds /\ CallerTo(c, "failed")
    /\ UNCHANGED <<pool, wire, files>>
(* Mutant: a connection is made although one is free.                      *)
ConnectAnyway(c) == ConnectNew(c)
Connect(c) == pool = {} /\ ConnectNew(c)

Discard(c) ==
    LET k == holds[c] IN
    /\ holds' = [holds EXCEPT ![c] = None]
    /\ owed' = [owed EXCEPT ![k] = <<>>] /\ retr' = [retr EXCEPT ![k] = None]
    /\ broken' = broken \ {k}
    /\ UNCHANGED <<pool, misheard>>
PutBack(c) ==
    LET k == holds[c] IN
    /\ \/ CallerAt(c, "ok") /\ CallerTo(c, "ended")
       \/ CallerAt(c, "failed") /\ CallerTo(c, "gave up")
    /\ \/ k = None /\ UNCHANGED <<holds, pool, wire>>
       \/ /\ k # None /\ k \notin broken /\ Cardinality(pool) < MaxConns
          /\ pool' = pool \cup {k} /\ holds' = [holds EXCEPT ![c] = None]
          /\ UNCHANGED wire
       \/ k # None /\ (k \in broken \/ Cardinality(pool) >= MaxConns) /\ Discard(c)
    /\ UNCHANGED files
(* The permit goes back, and the caller may call again: a reader for the   *)
(* next range, for one that failed, or from the start of the file.         *)
Leave(c) ==
    /\ stage[c] \in {"ended", "gave up"} /\ CallerTo(c, "idle")
    /\ \/ asked(c) <= Ranges /\ UNCHANGED got
       \/ got' = [got EXCEPT ![c] = <<>>]
    /\ moved' = [moved EXCEPT ![c] = "no"]
    /\ UNCHANGED <<holds, pool, wire>>

(* ------------------------- command, close_retr -------------------------- *)
(* An open download is ended and its last reply read before a command is   *)
(* sent.  Mutant: that reply is left unread.                               *)
DownloadEndedUnread(k) == owed[k]
DownloadEnded(k) == IF Open(k) THEN Tail(owed[k]) ELSE owed[k]
TakeReply(c, verb, line, later) ==
    /\ misheard' = IF Head(line) = verb THEN misheard ELSE misheard \cup {c}
    /\ owed' = [owed EXCEPT ![holds[c]] = Tail(line) \o later]
Reply(c, verb, later) ==     \* the server goes on to owe later
    /\ TakeReply(c, verb, Append(DownloadEnded(holds[c]), verb), later)
    /\ retr' = [retr EXCEPT ![holds[c]] = None]
    /\ UNCHANGED broken
(* No answer in time, an answer cut short, or 421: the connection is given *)
(* up, as the reply may still come.                                        *)
Lost(c, verb) ==
    /\ CallerTo(c, "failed") /\ broken' = broken \cup {holds[c]}
    /\ UNCHANGED <<owed, retr, misheard>>
Exchange(c, verb, stages) ==
    /\ \/ Reply(c, verb, <<>>) /\ \E s \in stages : CallerTo(c, s)
       \/ Lost(c, verb)
    /\ UNCHANGED <<holds, pool, files>>

Noop(c) ==
    /\ CallerAt(c, "noop")
    /\ \/ Reply(c, "NOOP", <<>>) /\ CallerTo(c, Begin(c)) /\ UNCHANGED <<holds, pool>>
       \/ Discard(c) /\ CallerTo(c, "taking")
    /\ UNCHANGED files
Talk(c) == CallerAt(c, "talk") /\ Exchange(c, "TALK", {"talk", "ok", "failed"})

(* ----------------------------- start_transfer --------------------------- *)
OpenData(c) ==            \* EPSV or PASV, and the data connection itself
    /\ CallerAt(c, "open")
    /\ Exchange(c, "PASV", {"failed", IF c \in Reader /\ asked(c) > 0 THEN "rest" ELSE "transfer"})
Reopen(c) == CallerAt(c, "reopen") /\ Exchange(c, "PASV", {"failed", "from start"})
Rest(c)   == CallerAt(c, "rest") /\ Exchange(c, "REST", {"from offset", "reopen"})
(* The server starts the transfer, has nothing to send, or refuses.        *)
Verb(c) == IF c \in Writer THEN "STOR" ELSE IF c \in Reader THEN "RETR" ELSE "LIST"
Transfer(c) ==
    /\ stage[c] \in {"transfer", "from offset", "from start"}
    /\ \/ Reply(c, Verb(c), <<"END">>) /\ CallerTo(c, IF CallerAt(c, "from start") THEN "skip" ELSE "begun")
          /\ UNCHANGED files
       \/ Reply(c, Verb(c), <<>>) /\ CallerTo(c, "failed") /\ UNCHANGED files
       \/ /\ c \in Lister \cup Reader /\ (c \in Reader => asked(c) >= Ranges)
          /\ Reply(c, Verb(c), <<>>) /\ CallerTo(c, "ok")
          /\ got' = IF c \in Reader THEN [got EXCEPT ![c] = Append(@, Ranges)] ELSE got
          /\ moved' = [moved EXCEPT ![c] = "all"]
       \/ Lost(c, Verb(c)) /\ UNCHANGED files      \* TLS on the data, too
    /\ UNCHANGED <<holds, pool>>

(* ------------------------------- read_range ----------------------------- *)
RangeAsked(c) ==
    LET k == holds[c] IN
    /\ CallerAt(c, "range")
    /\ \/ Continues(c, k) /\ CallerTo(c, "data") /\ UNCHANGED wire
       \/ /\ CallerTo(c, "open") /\ owed' = [owed EXCEPT ![k] = DownloadEnded(k)]
          /\ retr' = [retr EXCEPT ![k] = None] /\ UNCHANGED <<broken, misheard>>
       \/ Open(k) /\ Lost(c, "RETR")
    /\ UNCHANGED <<holds, pool, files>>
Keep(c, from) ==
    /\ CallerTo(c, "data") /\ retr' = [retr EXCEPT ![holds[c]] = <<asked(c), from>>]
    /\ UNCHANGED <<owed, broken, misheard, holds, pool, files>>
Begun(c) == CallerAt(c, "begun") /\ c \in Reader /\ Keep(c, asked(c))
(* No REST: the prefix is read and dropped.                                *)
Skip(c) ==
    /\ CallerAt(c, "skip")
    /\ \/ Keep(c, asked(c))
       \/ CallerTo(c, "cut") /\ UNCHANGED <<holds, pool, wire, files>>
       \/ Lost(c, "RETR") /\ UNCHANGED <<holds, pool, files>>
ReadRange(c) ==           \* a full range, the end of the file, or the data cut
    LET k == holds[c]  at == retr[k][2] IN
    /\ CallerAt(c, "data")
    /\ \/ /\ at < Ranges /\ CallerTo(c, "ok") /\ got' = [got EXCEPT ![c] = Append(@, at)]
          /\ retr' = [retr EXCEPT ![k] = <<@[1] + 1, at + 1>>]
          /\ UNCHANGED <<owed, broken, misheard>>
       \/ /\ CallerTo(c, IF at >= Ranges THEN "final" ELSE "cut")
          /\ retr' = [retr EXCEPT ![k] = None] /\ UNCHANGED <<owed, broken, misheard, got>>
       \/ Lost(c, "RETR") /\ UNCHANGED got
    /\ UNCHANGED <<holds, pool, moved>>

(* ------------- retrieve_all, read_listing, store_from, the end ---------- *)
Move(c) ==                \* an error reading gives the connection up
    /\ CallerAt(c, "begun") /\ c \notin Reader
    /\ \/ CallerTo(c, "final") /\ moved' = [moved EXCEPT ![c] = "all"] /\ UNCHANGED wire
       \/ CallerTo(c, "cut") /\ moved' = [moved EXCEPT ![c] = "part"] /\ UNCHANGED wire
       \/ c \in Lister /\ Lost(c, "LIST") /\ UNCHANGED moved
    /\ UNCHANGED <<holds, pool, got>>

LastReply(c) == TakeReply(c, "END", owed[holds[c]], <<>>) /\ UNCHANGED retr
EndOfFile(c) == got' = IF c \in Reader THEN [got EXCEPT ![c] = Append(@, Ranges)] ELSE got
Final(c) ==
    /\ CallerAt(c, "final")
    /\ \/ LastReply(c) /\ CallerTo(c, "ok") /\ UNCHANGED broken /\ EndOfFile(c)
       \/ LastReply(c) /\ CallerTo(c, "failed") /\ UNCHANGED <<broken, got>>
       \/ Lost(c, "END") /\ UNCHANGED got
    /\ UNCHANGED <<holds, pool, moved>>
(* The data ended early.  The server says so, but it takes a writer that   *)
(* is gone for one that is done: the error writing stands then.            *)
(* Mutant: the last reply counts, not the error.                           *)
CutByReply(c) ==
    /\ CallerAt(c, "cut")
    /\ \/ LastReply(c) /\ CallerTo(c, IF c \in Writer THEN "ok" ELSE "failed") /\ UNCHANGED broken
       \/ Lost(c, "END")
    /\ UNCHANGED <<holds, pool, files>>
Cut(c) ==
    /\ CallerAt(c, "cut")
    /\ \/ LastReply(c) /\ CallerTo(c, "failed") /\ UNCHANGED broken
       \/ c \in Writer /\ LastReply(c) /\ CallerTo(c, "failed") /\ broken' = broken \cup {holds[c]}
       \/ Lost(c, "END")
    /\ UNCHANGED <<holds, pool, files>>

FtpInit ==
    /\ stage = [c \in Caller |-> "idle"] /\ holds = [c \in Caller |-> None]
    /\ pool = {} /\ owed = [k \in Conn |-> <<>>] /\ retr = [k \in Conn |-> None]
    /\ broken = {} /\ misheard = {}
    /\ got = [c \in Caller |-> <<>>] /\ moved = [c \in Caller |-> "no"]
FtpStep(c) ==
    \/ Enter(c) \/ TakePooled(c) \/ Connect(c) \/ PutBack(c) \/ Leave(c)
    \/ Noop(c) \/ Talk(c) \/ OpenData(c) \/ Reopen(c) \/ Rest(c) \/ Transfer(c)
    \/ RangeAsked(c) \/ Begun(c) \/ Skip(c) \/ ReadRange(c) \/ Move(c) \/ Final(c) \/ Cut(c)
FtpNext == \E c \in Caller : FtpStep(c)
FtpSpec == FtpInit /\ [][FtpNext]_ftpVars

(* ------------------------------- Properties ----------------------------- *)
(* A reply is read for the command it answers, whatever was left open on   *)
(* the connection, refused, cut or lost on it before.                      *)
RepliesMatch == misheard = {}

(* A session never has more than MAX_CONNECTIONS control connections.      *)
Held == {c \in Caller : holds[c] # None}
ConnectionsBounded == Cardinality(pool) + Cardinality(Held) <= MaxConns

(* A reader that asks for one range after the other is given just those,   *)
(* in that order and up to the end of the file, whichever connection and   *)
(* whose open download serves it.                                          *)
RangesFollow == \A c \in Reader : \A i \in DOMAIN got[c] : got[c][i] = i - 1

(* "Every operation either really happens on the server or returns an      *)
(* error": a listing or an upload that ended well is whole.                *)
SuccessIsWhole == \A c \in Lister \cup Writer : stage[c] \in {"ok", "ended"} => moved[c] = "all"

(* What a caller is told, and the data it gets, are those of its own       *)
(* request: the three above (read_reply, read_range, finish_transfer).     *)
AnswersAreOwn == RepliesMatch /\ RangesFollow /\ SuccessIsWhole
=============================================================================
