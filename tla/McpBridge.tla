----------------------------- MODULE McpBridge -----------------------------
(***************************************************************************)
(* The path of an agent's call: the stdio server the agent launched        *)
(* (transport.rs), its connection to the running application (bridge.rs)   *)
(* and the task that serves the connection there (gateway.rs).  The calls  *)
(* of a stream run side by side, up to a number of permits at either end;  *)
(* each may be cancelled, and every party may go away.                     *)
(***************************************************************************)
EXTENDS Naturals, Sequences, FiniteSets, SequencesExt

CONSTANTS
    Req,            \* tool calls of the agent, each with an id of its own
    Permits,        \* MAX_CONCURRENT_REQUESTS, at either end
    Capacity,       \* lines the channel to the application holds
    MaxConnections  \* bound: connections to the application

ASSUME BridgeAssumption == {Permits, Capacity, MaxConnections} \subseteq Nat \ {0}

Conn == 1..MaxConnections
Call(r)   == <<"call", r>>
Cancel(r) == <<"cancel", r>>

VARIABLES
    input,    \* lines of the agent that are not read yet
    server,   \* the stdio server: "reading", "draining" (the agent closed its end), "exited"
    task,     \* what became of each request in the stdio server
    aborted,  \* requests whose task is to be dropped
    told,     \* what each request was answered
    on,       \* the connection each call uses
    current,  \* AppBridge::connection
    alive,    \* connections that are not marked dead
    cleared,  \* connections whose close() has also dropped the waiting calls
    pending,  \* calls that wait for a reply
    reply,    \* calls whose reply was handed over
    lines,    \* what each connection has sent that the application has not read
    spilled,  \* cancellations that found the channel full: a task sends them later
    filled,   \* history: the channel was full when a call was cancelled
    open,     \* connections the application serves
    call,     \* each call in the application
    back      \* replies the application has sent that the bridge has not read

stdioVars  == <<input, server, aborted, told>>
bridgeVars == <<on, current, alive, cleared, pending, reply>>
appVars    == <<open, call, back>>
chanVars   == <<lines, spilled, filled>>
mcpVars    == <<stdioVars, task, bridgeVars, chanVars, appVars>>

TaskTo(r, s) == task' = [task EXCEPT ![r] = s]
InFlight == {r \in Req : task[r] \notin {"new", "sent", "done", "gone"}}
Working  == {"run", "ask", "write", "reply"}

(* ------------------------------ The agent ------------------------------- *)
Sends(r) ==
    /\ task[r] = "new" /\ server = "reading" /\ TaskTo(r, "sent")
    /\ input' = Append(input, Call(r))
    /\ UNCHANGED <<server, aborted, told, bridgeVars, chanVars, appVars>>
Cancels(r) ==
    /\ task[r] \notin {"new", "done"} /\ server = "reading"
    /\ ~Contains(input, Cancel(r)) /\ r \notin aborted
    /\ input' = Append(input, Cancel(r))
    /\ UNCHANGED <<server, aborted, told, task, bridgeVars, chanVars, appVars>>

(* ------------------------- transport.rs: serve -------------------------- *)
(* A call waits to be read until a permit is free, and what is behind it   *)
(* waits with it.                                                          *)
ReadLine(r) ==
    /\ server = "reading" /\ input # <<>> /\ Head(input) = Call(r)
    /\ Cardinality(InFlight) < Permits
    /\ input' = Tail(input) /\ TaskTo(r, "start")
    /\ UNCHANGED <<server, aborted, told, bridgeVars, chanVars, appVars>>
ReadCancelled(r) ==
    /\ server = "reading" /\ input # <<>> /\ Head(input) = Cancel(r)
    /\ input' = Tail(input)
    /\ aborted' = IF r \in InFlight THEN aborted \cup {r} ELSE aborted
    /\ UNCHANGED <<server, told, task, bridgeVars, chanVars, appVars>>

ClientCloses ==             \* what runs has a grace, then it is dropped
    /\ server = "reading" /\ input = <<>> /\ server' = "draining"
    /\ UNCHANGED <<input, aborted, told, task, bridgeVars, chanVars, appVars>>
GraceOver ==
    /\ server = "draining" /\ aborted' = aborted \cup InFlight
    /\ UNCHANGED <<input, server, told, task, bridgeVars, chanVars, appVars>>
Exits ==                    \* with the process go the lines it has not written
    /\ server = "draining" /\ InFlight = {} /\ server' = "exited"
    /\ \E cut \in BOOLEAN : lines' = IF cut THEN [c \in Conn |-> <<>>] ELSE lines
    /\ spilled' = {}
    /\ UNCHANGED <<input, aborted, told, task, bridgeVars, filled, appVars>>

Answer(r) ==
    /\ task[r] \in {"answer", "error"} /\ TaskTo(r, "done")
    /\ told' = [told EXCEPT ![r] = task[r]]
    /\ UNCHANGED <<input, server, aborted, bridgeVars, chanVars, appVars>>

(* ----------------------- bridge.rs: AppConnection ----------------------- *)
(* AppBridge::connection and AppConnection::open, which may be refused.    *)
Connect(r) ==
    /\ task[r] = "start"
    /\ \/ /\ current \in alive
          /\ on' = [on EXCEPT ![r] = current] /\ TaskTo(r, "insert")
          /\ UNCHANGED <<current, alive, open>>
       \/ /\ current \notin alive /\ current < MaxConnections
          /\ current' = current + 1 /\ alive' = alive \cup {current'} /\ open' = open \cup {current'}
          /\ on' = [on EXCEPT ![r] = current'] /\ TaskTo(r, "insert")
       \/ /\ current \notin alive /\ TaskTo(r, "error")
          /\ UNCHANGED <<on, current, alive, open>>
    /\ UNCHANGED <<stdioVars, cleared, pending, reply, chanVars, call, back>>

Insert(r) ==
    /\ task[r] = "insert" /\ TaskTo(r, "alive")
    /\ pending' = pending \cup {r}
    /\ UNCHANGED <<stdioVars, on, current, alive, cleared, reply, chanVars, appVars>>
(* Mutant: the connection is not looked at again.                          *)
CheckNoConnection(r) ==
    /\ task[r] = "alive" /\ TaskTo(r, "send")
    /\ UNCHANGED <<stdioVars, bridgeVars, chanVars, appVars>>
CheckAlive(r) ==
    /\ task[r] = "alive"
    /\ IF on[r] \in alive THEN TaskTo(r, "send") /\ UNCHANGED pending
       ELSE TaskTo(r, "error") /\ pending' = pending \ {r}
    /\ UNCHANGED <<stdioVars, on, current, alive, cleared, reply, chanVars, appVars>>

Room(c) == Len(lines[c]) < Capacity
SendCall(r) ==
    /\ task[r] = "send" /\ Room(on[r]) /\ TaskTo(r, "wait")
    /\ lines' = [lines EXCEPT ![on[r]] = Append(@, Call(r))]
    /\ UNCHANGED <<stdioVars, bridgeVars, spilled, filled, appVars>>
SendFails(r) ==             \* the writer has ended
    /\ task[r] = "send" /\ on[r] \in cleared /\ TaskTo(r, "error")
    /\ pending' = pending \ {r}
    /\ UNCHANGED <<stdioVars, on, current, alive, cleared, reply, chanVars, appVars>>
Wake(r) ==                  \* a reply, or its sender was dropped
    /\ task[r] = "wait" /\ (r \in reply \/ r \notin pending)
    /\ TaskTo(r, IF r \in reply THEN "answer" ELSE "error")
    /\ UNCHANGED <<stdioVars, bridgeVars, chanVars, appVars>>

(* A task is dropped where it waits.  Waiting::drop and send_cancel: a     *)
(* call that was sent and has no answer is cancelled at the application.   *)
(* Mutant: a cancellation that finds the channel full is given up.         *)
SendCancelTry(r) ==
    IF Room(on[r]) THEN lines' = [lines EXCEPT ![on[r]] = Append(@, Cancel(r))] /\ UNCHANGED <<spilled, filled>>
    ELSE UNCHANGED <<lines, spilled, filled>>
SendCancel(r) ==
    IF Room(on[r]) THEN lines' = [lines EXCEPT ![on[r]] = Append(@, Cancel(r))] /\ UNCHANGED <<spilled, filled>>
    ELSE spilled' = spilled \cup {r} /\ filled' = TRUE /\ UNCHANGED lines
DropTask(r) ==
    /\ r \in aborted /\ task[r] \in {"start", "send", "wait", "answer", "error"} /\ TaskTo(r, "gone")
    /\ IF r \in pending /\ task[r] = "wait" THEN SendCancel(r) ELSE UNCHANGED <<lines, spilled, filled>>
    /\ pending' = pending \ {r}
    /\ UNCHANGED <<stdioVars, on, current, alive, cleared, reply, appVars>>
SendSpilled(r) ==
    /\ r \in spilled /\ Room(on[r]) /\ spilled' = spilled \ {r}
    /\ lines' = [lines EXCEPT ![on[r]] = Append(@, Cancel(r))]
    /\ UNCHANGED <<stdioVars, task, bridgeVars, filled, appVars>>

(* read_replies.                                                           *)
ReadReply(r) ==
    /\ r \in back /\ server # "exited" /\ on[r] \in alive
    /\ back' = back \ {r}
    /\ reply' = IF r \in pending THEN reply \cup {r} ELSE reply
    /\ pending' = pending \ {r}
    /\ UNCHANGED <<stdioVars, task, on, current, alive, cleared, chanVars, open, call>>
CloseMarks(c) ==            \* Shared::close, its two steps
    /\ c \in alive \ open /\ \A r \in back : on[r] # c
    /\ alive' = alive \ {c}
    /\ UNCHANGED <<stdioVars, task, on, current, cleared, pending, reply, chanVars, appVars>>
CloseClears(c) ==
    /\ c \in 1..current /\ c \notin alive \cup cleared
    /\ cleared' = cleared \cup {c}
    /\ pending' = {r \in pending : on[r] # c}
    /\ lines' = [lines EXCEPT ![c] = <<>>]
    /\ UNCHANGED <<stdioVars, task, on, current, alive, reply, spilled, filled, appVars>>

(* -------------------- gateway.rs: serve_bridge_client ------------------- *)
CallAt(r, s) == call[r] = s /\ on[r] \in open
Becomes(r, s) ==
    /\ call' = [call EXCEPT ![r] = s]
    /\ UNCHANGED <<stdioVars, task, bridgeVars, chanVars, open, back>>
Served(c) == {r \in Req : on[r] = c /\ call[r] \in Working}
Dropped(s) == IF s = "write" THEN "finishing" ELSE IF s \in Working THEN "withdrawn" ELSE s

AppReadsCall(c) ==
    /\ c \in open /\ lines[c] # <<>> /\ lines[c][1][1] = "call"
    /\ Cardinality(Served(c)) < Permits
    /\ call' = [call EXCEPT ![lines[c][1][2]] = "run"]
    /\ lines' = [lines EXCEPT ![c] = Tail(@)]
    /\ UNCHANGED <<stdioVars, task, bridgeVars, spilled, filled, open, back>>
(* Mutant: the call is only forgotten.                                     *)
AppReadsCancelOnly(c) ==
    /\ c \in open /\ lines[c] # <<>> /\ lines[c][1][1] = "cancel"
    /\ lines' = [lines EXCEPT ![c] = Tail(@)]
    /\ UNCHANGED <<stdioVars, task, bridgeVars, spilled, filled, appVars>>
AppReadsCancel(c) ==
    /\ c \in open /\ lines[c] # <<>> /\ lines[c][1][1] = "cancel"
    /\ call' = [call EXCEPT ![lines[c][1][2]] = Dropped(@)]
    /\ lines' = [lines EXCEPT ![c] = Tail(@)]
    /\ UNCHANGED <<stdioVars, task, bridgeVars, spilled, filled, open, back>>

Asks(r)     == CallAt(r, "run") /\ Becomes(r, "ask")
Runs(r)     == CallAt(r, "run") /\ Becomes(r, "reply")
Approved(r) == CallAt(r, "ask") /\ Becomes(r, "write")
Refused(r)  == CallAt(r, "ask") /\ Becomes(r, "reply")
Written(r)  == CallAt(r, "write") /\ Becomes(r, "reply")
Finished(r) == call[r] = "finishing" /\ Becomes(r, "finished")
AppReplies(r) ==
    /\ CallAt(r, "reply") /\ call' = [call EXCEPT ![r] = "replied"]
    /\ back' = back \cup {r}
    /\ UNCHANGED <<stdioVars, task, bridgeVars, chanVars, open>>

(* The gateway is stopped, or the bridge is gone: every call of it is      *)
(* dropped.  Replies not yet on the socket are lost.                       *)
AppCloses(c) ==
    /\ c \in open /\ open' = open \ {c}
    /\ call' = [r \in Req |-> IF on[r] = c THEN Dropped(call[r]) ELSE call[r]]
    /\ \E kept \in {back, {r \in back : on[r] # c}} : back' = kept
    /\ UNCHANGED <<stdioVars, task, bridgeVars, chanVars>>

BridgeInit ==
    /\ input = <<>> /\ server = "reading" /\ aborted = {} /\ told = [r \in Req |-> "none"]
    /\ task = [r \in Req |-> "new"]
    /\ on = [r \in Req |-> 0] /\ current = 0 /\ alive = {} /\ cleared = {} /\ pending = {} /\ reply = {}
    /\ lines = [c \in Conn |-> <<>>] /\ spilled = {} /\ filled = FALSE
    /\ open = {} /\ call = [r \in Req |-> "none"] /\ back = {}

BridgeNext ==
    \/ \E r \in Req :
          \/ Sends(r) \/ Cancels(r) \/ ReadLine(r) \/ ReadCancelled(r) \/ Answer(r)
          \/ Connect(r) \/ Insert(r) \/ CheckAlive(r) \/ SendCall(r) \/ SendFails(r)
          \/ Wake(r) \/ DropTask(r) \/ SendSpilled(r) \/ ReadReply(r)
          \/ Asks(r) \/ Runs(r) \/ Approved(r) \/ Refused(r) \/ Written(r) \/ Finished(r) \/ AppReplies(r)
    \/ \E c \in Conn :
          CloseMarks(c) \/ CloseClears(c) \/ AppReadsCall(c) \/ AppReadsCancel(c) \/ AppCloses(c)
    \/ ClientCloses \/ GraceOver \/ Exits

BridgeSpec == BridgeInit /\ [][BridgeNext]_mcpVars

(* ------------------------------ Properties ------------------------------ *)
(* "A closing connection is marked dead before its waiting calls are       *)
(* dropped, so a call registered after that is caught here": no call waits *)
(* on a connection whose waiting calls have been dropped.                  *)
WaitingIsWatched ==
    \A r \in pending : on[r] \in cleared => task[r] = "alive"

(* A person is asked only on behalf of somebody who waits: the call is     *)
(* awaited, or its cancellation or the end of its connection is on the     *)
(* way ("which withdraws a pending approval").                             *)
AskedForSomebody ==
    \A r \in Req : CallAt(r, "ask") =>
        \/ r \in pending /\ task[r] = "wait"
        \/ r \in spilled \/ Contains(lines[on[r]], Cancel(r))
        \/ server = "exited"

(* With as many permits at either end, the application never waits for one *)
(* with a line in hand: a cancellation is read as soon as it comes, however *)
(* many calls wait for a person.  One that found the channel full may come *)
(* behind a call that waits for the permit of the call it cancels.         *)
CancelIsReachable ==
    ~filled => \A c \in open :
        lines[c] # <<>> /\ lines[c][1][1] = "call" => Cardinality(Served(c)) < Permits

(* No call waits unheard at either end of a connection: bridge.rs and      *)
(* serve_bridge_client.                                                    *)
CallsAreWatched == WaitingIsWatched /\ AskedForSomebody /\ CancelIsReachable
=============================================================================
