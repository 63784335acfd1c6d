--------------------------- MODULE DesktopProofs ---------------------------
(***************************************************************************)
(* Theorems about the desktop. McpBridge: for any number of calls,         *)
(* permits, connections and any length of the channel; BridgeInv follows a *)
(* call from the input of the stdio server into the application and back,  *)
(* and counts, for every call still in a channel, the calls before it that *)
(* the application may be working on by the time it is read. McpApprovals: *)
(* for any number of calls of each kind and of changes of the command      *)
(* access; everything said of a call is said of its own state, so a step   *)
(* of one call leaves the others alone. Sessions: for any number of ids,   *)
(* of tasks and of commands; SessionsInv says at each step of a command    *)
(* what the tables and the servers hold by then.                           *)
(***************************************************************************)
EXTENDS Sessions, McpBridge, McpApprovals, FiniteSetTheorems, TLAPS

(* ------------------------------- the bridge ------------------------------ *)
TaskStage == {"new", "sent", "start", "insert", "alive", "send", "wait", "answer", "error", "done", "gone"}
AppStage == {"none", "run", "ask", "write", "reply", "replied", "withdrawn", "finishing", "finished"}
Sent == {"wait", "answer", "error", "done", "gone"}
Line == {"call", "cancel"} \X Req

BridgeTyped ==
    /\ input \in Seq(Line) /\ server \in {"reading", "draining", "exited"}
    /\ task \in [Req -> TaskStage] /\ aborted \in SUBSET Req
    /\ current \in 0..MaxConnections /\ on \in [Req -> 0..current]
    /\ open \in SUBSET (1..current) /\ alive \in SUBSET (1..current) /\ cleared \in SUBSET (1..current)
    /\ pending \in SUBSET Req /\ reply \in SUBSET Req /\ back \in SUBSET Req
    /\ lines \in [Conn -> Seq(Line)] /\ spilled \in SUBSET Req /\ filled \in BOOLEAN
    /\ call \in [Req -> AppStage]

(* What the application serves is not marked dead, and what has been       *)
(* cleared is.  The server exits when no request is in flight.             *)
LinksSound ==
    /\ open \subseteq alive /\ alive \cap cleared = {}
    /\ spilled # {} => filled
    /\ server = "exited" => InFlight = {}

(* A call is in the input once, and only before it is read.                *)
InputSound ==
    \A r \in Req : \A i \in 1..Len(input) : input[i] = Call(r) =>
        task[r] = "sent" /\ \A j \in 1..Len(input) : input[j] = Call(r) => i = j

Few(S) == IsFiniteSet(S) /\ Cardinality(S) <= Permits

(* A call is in a channel once, and its cancellation is behind it.         *)
LineSound(c) ==
    /\ c \notin 1..current => lines[c] = <<>>
    /\ \A i \in 1..Len(lines[c]) : \A r \in Req :
          /\ lines[c][i] \in {Call(r), Cancel(r)} => on[r] = c
          /\ lines[c][i] = Cancel(r) => task[r] = "gone"
          /\ lines[c][i] = Call(r) =>
                /\ call[r] = "none" /\ task[r] \in Sent
                /\ \A j \in 1..Len(lines[c]) :
                      /\ lines[c][j] = Call(r) => i = j
                      /\ lines[c][j] = Cancel(r) => i < j

(* A call the application has or will have is waited for, or taken back.   *)
Wanted(r) ==
    \/ task[r] = "wait" /\ r \in pending
    \/ task[r] = "gone" /\ (r \in spilled \/ Contains(lines[on[r]], Cancel(r)))
CallSound(r) ==
    /\ r \in pending => task[r] \in {"alive", "send", "wait"} /\ r \notin reply
    /\ r \in pending /\ on[r] \in cleared => task[r] = "alive"
    /\ r \in spilled => task[r] = "gone" /\ on[r] \in 1..current
    /\ task[r] \in {"insert", "alive", "send", "wait"} => on[r] \in 1..current
    /\ task[r] \in {"alive", "send"} /\ on[r] \in open => r \in pending
    /\ task[r] = "wait" /\ on[r] \in open => r \in pending \cup reply
    /\ r \in reply \cup back => call[r] = "replied"
    /\ call[r] # "none" => task[r] \in Sent
    /\ on[r] \in open /\ server # "exited" /\ (call[r] \in Working \/ Contains(lines[on[r]], Call(r))) =>
          Wanted(r)

(* The calls before the i-th line of a channel, that line with them, that  *)
(* nothing before it takes back: with them the application may be at work  *)
(* when it comes to that line.                                             *)
Ahead(c, i) ==
    {r \in Req :
        /\ on[r] = c
        /\ call[r] \in Working \/ \E j \in 1..i : lines[c][j] = Call(r)
        /\ ~ \E j \in 1..(i - 1) : lines[c][j] = Cancel(r)}
FewAhead(c) ==
    c \in open /\ ~ filled =>
        \A i \in 1..Len(lines[c]) : lines[c][i][1] = "call" => Few(Ahead(c, i))

BridgeInv ==
    /\ BridgeTyped /\ LinksSound /\ InputSound /\ Few(InFlight)
    /\ \A r \in Req : CallSound(r)
    /\ \A c \in Conn : LineSound(c) /\ FewAhead(c)

-----------------------------------------------------------------------------
LEMMA Constants == Permits \in Nat \ {0} /\ MaxConnections \in Nat \ {0}
  BY BridgeAssumption DEF BridgeAssumption

(* Lines are told apart by what they are and by the call they name.        *)
LEMMA Tags ==
    /\ \A r \in Req : Call(r) \in Line /\ Cancel(r) \in Line
    /\ \A r, s \in Req : /\ Call(r) # Cancel(s)
                         /\ Call(r) = Call(s) => r = s
                         /\ Cancel(r) = Cancel(s) => r = s
    /\ \A r \in Req : Call(r)[1] = "call" /\ Call(r)[2] = r /\ Cancel(r)[1] = "cancel" /\ Cancel(r)[2] = r
    /\ \A x \in Line : /\ x[1] = "call" => x[2] \in Req /\ x = Call(x[2])
                       /\ x[1] = "cancel" => x[2] \in Req /\ x = Cancel(x[2])
  BY DEF Line, Call, Cancel

(* What a channel holds once a line is added to it, or read from it.       *)
LEMMA Added ==
    ASSUME NEW s \in Seq(Line), NEW x \in Line
    PROVE  /\ Append(s, x) \in Seq(Line) /\ Len(s) \in Nat /\ Len(Append(s, x)) = Len(s) + 1
           /\ \A i \in 1..Len(s) : Append(s, x)[i] = s[i]
           /\ Append(s, x)[Len(s) + 1] = x
           /\ \A y : Contains(Append(s, x), y) <=> Contains(s, y) \/ y = x
  <1>1. /\ Append(s, x) \in Seq(Line) /\ Len(s) \in Nat /\ Len(Append(s, x)) = Len(s) + 1
        /\ \A i \in 1..Len(s) : Append(s, x)[i] = s[i]
        /\ Append(s, x)[Len(s) + 1] = x
    OBVIOUS
  <1>2. ASSUME NEW y PROVE Contains(Append(s, x), y) <=> Contains(s, y) \/ y = x
    <2>1. CASE y = x
      <3>1. Len(s) + 1 \in 1..Len(Append(s, x)) /\ Append(s, x)[Len(s) + 1] = y
        BY <1>1, <2>1
      <3> QED
        BY <3>1, <2>1 DEF Contains
    <2>2. CASE y # x
      <3>1. ASSUME NEW i \in 1..Len(s), s[i] = y
            PROVE  i \in 1..Len(Append(s, x)) /\ Append(s, x)[i] = y
        BY <3>1, <1>1
      <3>2. ASSUME NEW i \in 1..Len(Append(s, x)), Append(s, x)[i] = y
            PROVE  i \in 1..Len(s) /\ s[i] = y
        BY <3>2, <1>1, <2>2
      <3> QED
        BY <3>1, <3>2, <2>2 DEF Contains
    <2> QED
      BY <2>1, <2>2
  <1> QED
    BY <1>1, <1>2

LEMMA Removed ==
    ASSUME NEW s \in Seq(Line), s # <<>>
    PROVE  /\ Tail(s) \in Seq(Line) /\ Len(s) \in Nat \ {0} /\ Len(Tail(s)) = Len(s) - 1
           /\ \A i \in 1..Len(Tail(s)) : i + 1 \in 1..Len(s) /\ Tail(s)[i] = s[i + 1]
           /\ Head(s) = s[1] /\ s[1] \in Line /\ 1 \in 1..Len(s)
           /\ \A y : Contains(Tail(s), y) => Contains(s, y)
           /\ \A y : y # s[1] => (Contains(Tail(s), y) <=> Contains(s, y))
  <1>1. /\ Tail(s) \in Seq(Line) /\ Len(s) \in Nat \ {0} /\ Len(Tail(s)) = Len(s) - 1
        /\ \A i \in 1..Len(Tail(s)) : i + 1 \in 1..Len(s) /\ Tail(s)[i] = s[i + 1]
        /\ Head(s) = s[1] /\ s[1] \in Line /\ 1 \in 1..Len(s)
    OBVIOUS
  <1>2. ASSUME NEW y, Contains(Tail(s), y) PROVE Contains(s, y)
    BY <1>1, <1>2 DEF Contains
  <1>3. ASSUME NEW y, y # s[1], Contains(s, y) PROVE Contains(Tail(s), y)
    <2>1. PICK i \in 1..Len(s) : s[i] = y
      BY <1>3 DEF Contains
    <2>2. i - 1 \in 1..Len(Tail(s)) /\ Tail(s)[i - 1] = y
      BY <2>1, <1>1, <1>3
    <2> QED
      BY <2>2 DEF Contains
  <1> QED
    BY <1>1, <1>2, <1>3

LEMMA FewLess ==
    ASSUME NEW S, NEW T \in SUBSET S, Few(S)
    PROVE  Few(T)
  BY FS_Subset, FS_CardinalityType, Constants DEF Few

(* The parts of the invariant, for one call and one connection.            *)
LEMMA Known ==
    ASSUME BridgeInv
    PROVE  /\ BridgeTyped /\ LinksSound /\ InputSound /\ Few(InFlight)
           /\ \A r \in Req : CallSound(r)
           /\ \A c \in Conn : LineSound(c) /\ FewAhead(c)
           /\ \A r \in Req : on[r] \in 1..current => on[r] \in Conn
           /\ \A c \in open : c \in Conn /\ c \in 1..current /\ c \in alive
           /\ current \in Nat
           /\ \A c \in Conn : lines[c] \in Seq(Line)
  BY Constants DEF BridgeInv, BridgeTyped, LinksSound, Conn

(* A call that was not sent is in no channel, and one that waits is not    *)
(* taken back there.                                                       *)
LEMMA NotInChannels ==
    ASSUME BridgeInv, NEW r \in Req
    PROVE  /\ task[r] \notin Sent => \A c \in Conn : ~ Contains(lines[c], Call(r))
           /\ task[r] # "gone" => \A c \in Conn : ~ Contains(lines[c], Cancel(r))
           /\ call[r] # "none" => \A c \in Conn : ~ Contains(lines[c], Call(r))
  BY Known DEF LineSound, Contains

-----------------------------------------------------------------------------
(* What a step leaves of each part of the invariant.                       *)
LEMMA InputKept ==
    ASSUME BridgeInv, input' = input, \A r \in Req : task[r] = "sent" => task'[r] = "sent"
    PROVE  InputSound'
  BY Known DEF InputSound

LEMMA InFlightKept ==
    ASSUME BridgeInv, \A r \in Req : r \in InFlight' => r \in InFlight
    PROVE  Few(InFlight')
  BY Known, FewLess DEF InFlight

LEMMA LineKept ==
    ASSUME BridgeInv, NEW c \in Conn, lines'[c] = lines[c], 1..current \subseteq 1..current',
           \A r \in Req :
              /\ on'[r] = on[r] \/ task[r] \notin Sent
              /\ task[r] \in Sent => task'[r] \in Sent
              /\ task[r] = "gone" => task'[r] = "gone"
              /\ task[r] \in Sent /\ call[r] = "none" => call'[r] = "none"
    PROVE  LineSound(c)'
  <1>1. "gone" \in Sent
    BY DEF Sent
  <1> QED
    BY <1>1, Known DEF LineSound

LEMMA AheadKept ==
    ASSUME BridgeInv, NEW c \in Conn, lines'[c] = lines[c], c \in open' => c \in open, filled' = filled,
           \A r \in Req :
              /\ on'[r] = on[r] \/ task[r] \notin Sent
              /\ call'[r] \in Working => call[r] \in Working
    PROVE  FewAhead(c)'
  <1>1. SUFFICES ASSUME c \in open, ~ filled, NEW i \in 1..Len(lines[c]), lines[c][i][1] = "call"
                 PROVE  Few(Ahead(c, i)')
    BY DEF FewAhead, Ahead
  <1>2. Few(Ahead(c, i))
    BY <1>1, Known DEF FewAhead
  <1>3. ASSUME NEW r \in Req, r \in Ahead(c, i)' PROVE r \in Ahead(c, i)
    <2>1. /\ on'[r] = c
          /\ call'[r] \in Working \/ \E j \in 1..i : lines[c][j] = Call(r)
          /\ ~ \E j \in 1..(i - 1) : lines[c][j] = Cancel(r)
      BY <1>3 DEF Ahead
    <2>2. call[r] \in Working \/ \E j \in 1..i : lines[c][j] = Call(r)
      BY <2>1
    <2>3. call[r] \in Working => task[r] \in Sent
      BY Known DEF CallSound, Working
    <2>4. (\E j \in 1..i : lines[c][j] = Call(r)) => task[r] \in Sent
      <3>1. \A j \in 1..i : j \in 1..Len(lines[c])
        BY <1>1, Known
      <3> QED
        BY <3>1, Known DEF LineSound
    <2> QED
      BY <2>1, <2>2, <2>3, <2>4 DEF Ahead
  <1> QED
    BY <1>2, <1>3, FewLess DEF Ahead

LEMMA CallKept ==
    ASSUME BridgeInv, NEW r \in Req, task'[r] = task[r], on'[r] = on[r], call'[r] = call[r],
           r \in pending' <=> r \in pending, r \in reply' <=> r \in reply, r \in back' => r \in back,
           1..current \subseteq 1..current',
           on[r] \in cleared' => on[r] \in cleared,
           on[r] \in open' => on[r] \in open,
           server' # "exited" => server # "exited", spilled' \subseteq spilled,
           on[r] \in open /\ server' # "exited" =>
               /\ r \in spilled => r \in spilled' \/ Contains(lines'[on[r]], Cancel(r))
               /\ Contains(lines[on[r]], Cancel(r)) => Contains(lines'[on[r]], Cancel(r))
               /\ Contains(lines'[on[r]], Call(r)) => Contains(lines[on[r]], Call(r))
    PROVE  CallSound(r)'
  <1>1. CallSound(r)
    BY Known
  <1>2. ASSUME on[r] \in open, server' # "exited", Wanted(r)
        PROVE  Wanted(r)'
    BY <1>2 DEF Wanted, Cancel
  <1>3. /\ on[r] \in open' /\ server' # "exited" /\ (call'[r] \in Working \/ Contains(lines'[on[r]], Call(r)))
        => Wanted(r)'
    BY <1>1, <1>2 DEF CallSound
  <1>4. on'[r] \in open' /\ server' # "exited" /\ (call'[r] \in Working \/ Contains(lines'[on'[r]], Call(r)))
        => Wanted(r)'
    BY <1>3
  <1> QED
    BY <1>1, <1>4 DEF CallSound, Call

-----------------------------------------------------------------------------
(* The stdio server: only the input, and requests not yet started, change. *)
LEMMA StdioKeeps ==
    ASSUME BridgeInv, UNCHANGED <<bridgeVars, chanVars, appVars>>, server' \in {"reading", "draining"},
           server # "exited",
           \A r \in Req : task'[r] = task[r] \/ (task[r] \in {"new", "sent"} /\ task'[r] \in {"sent", "start"})
    PROVE  LinksSound' /\ (\A r \in Req : CallSound(r)') /\ \A c \in Conn : LineSound(c)' /\ FewAhead(c)'
  <1> USE DEF bridgeVars, chanVars, appVars
  <1>1. LinksSound'
    BY Known DEF LinksSound
  <1>2. ASSUME NEW r \in Req PROVE CallSound(r)'
    <2>1. CASE task'[r] = task[r]
      BY <2>1, CallKept
    <2>2. CASE task[r] \in {"new", "sent"} /\ task'[r] \in {"sent", "start"}
      <3>1. CallSound(r) /\ call[r] = "none" /\ r \notin pending /\ r \notin spilled
        BY <2>2, Known DEF CallSound, Sent
      <3>2. on[r] \in open => ~ Contains(lines[on[r]], Call(r))
        BY <2>2, Known, NotInChannels DEF Sent
      <3>3. ~ (call'[r] \in Working \/ (on'[r] \in open' /\ Contains(lines'[on'[r]], Call(r))))
        BY <3>1, <3>2 DEF Working, Call
      <3> QED
        BY <2>2, <3>1, <3>3 DEF CallSound, Sent
    <2> QED
      BY <2>1, <2>2
  <1>3. ASSUME NEW c \in Conn PROVE LineSound(c)' /\ FewAhead(c)'
    <2>1. \A r \in Req : /\ task[r] \in Sent => task'[r] \in Sent
                         /\ task[r] = "gone" => task'[r] = "gone"
      BY DEF Sent
    <2> QED
      BY <2>1, LineKept, AheadKept
  <1> QED
    BY <1>1, <1>2, <1>3

LEMMA SendsKeeps ==
    ASSUME BridgeInv, NEW r \in Req, Sends(r)
    PROVE  BridgeInv'
  <1>1. BridgeTyped'
    BY Known, Tags, Added DEF Sends, TaskTo, BridgeTyped, TaskStage, bridgeVars, chanVars, appVars
  <1>2. InputSound'
    <2>1. input \in Seq(Line) /\ Call(r) \in Line /\ input' = Append(input, Call(r))
      BY Known, Tags DEF BridgeTyped, Sends
    <2>2. \A j \in 1..Len(input) : input[j] # Call(r)
      BY Known DEF InputSound, Sends
    <2>3. \A s \in Req : s # r => task'[s] = task[s]
      BY Known DEF Sends, TaskTo, BridgeTyped
    <2>4. task'[r] = "sent"
      BY Known DEF Sends, TaskTo, BridgeTyped
    <2>5. ASSUME NEW s \in Req, NEW i \in 1..Len(input'), input'[i] = Call(s)
          PROVE  task'[s] = "sent" /\ \A j \in 1..Len(input') : input'[j] = Call(s) => i = j
      <3>1. Len(input') = Len(input) + 1 /\ Len(input) \in Nat /\ input'[Len(input) + 1] = Call(r)
            /\ \A k \in 1..Len(input) : input'[k] = input[k]
        BY <2>1, Added
      <3>2. CASE s = r
        BY <2>4, <2>5, <3>1, <3>2, <2>2
      <3>3. CASE s # r
        <4>1. \A j \in 1..Len(input') : input'[j] = Call(s) => j \in 1..Len(input) /\ input[j] = Call(s)
          BY <3>1, <3>3, Tags
        <4> QED
          BY <4>1, <2>3, <2>5, <3>3, Known DEF InputSound
      <3> QED
        BY <3>2, <3>3
    <2> QED
      BY <2>5 DEF InputSound, Call
  <1>3. Few(InFlight')
    BY Known, InFlightKept DEF Sends, TaskTo, InFlight, BridgeTyped
  <1>4. LinksSound' /\ (\A s \in Req : CallSound(s)') /\ \A c \in Conn : LineSound(c)' /\ FewAhead(c)'
    BY Known, StdioKeeps DEF Sends, TaskTo, BridgeTyped
  <1> QED
    BY <1>1, <1>2, <1>3, <1>4 DEF BridgeInv

LEMMA CancelsKeeps ==
    ASSUME BridgeInv, NEW r \in Req, Cancels(r)
    PROVE  BridgeInv'
  <1>1. BridgeTyped'
    BY Known, Tags, Added DEF Cancels, BridgeTyped, bridgeVars, chanVars, appVars
  <1>2. InputSound'
    <2>1. /\ Len(input') = Len(input) + 1 /\ Len(input) \in Nat /\ input'[Len(input) + 1] = Cancel(r)
          /\ \A k \in 1..Len(input) : input'[k] = input[k]
      BY Known, Tags, Added DEF BridgeTyped, Cancels
    <2>2. ASSUME NEW s \in Req, NEW j \in 1..Len(input'), input'[j] = Call(s)
          PROVE  j \in 1..Len(input) /\ input[j] = Call(s)
      BY <2>1, <2>2, Tags
    <2> QED
      BY <2>2, Known DEF InputSound, Cancels, Call
  <1>3. Few(InFlight')
    BY Known, InFlightKept DEF Cancels, InFlight
  <1>4. LinksSound' /\ (\A s \in Req : CallSound(s)') /\ \A c \in Conn : LineSound(c)' /\ FewAhead(c)'
    BY Known, StdioKeeps DEF Cancels
  <1> QED
    BY <1>1, <1>2, <1>3, <1>4 DEF BridgeInv

(* What is left of the input when its first line is read.                  *)
LEMMA InputRead ==
    ASSUME BridgeInv, input # <<>>, input' = Tail(input),
           \A r \in Req : task'[r] = task[r] \/ Head(input) = Call(r)
    PROVE  InputSound' /\ input' \in Seq(Line)
  <1>1. /\ input' \in Seq(Line) /\ Len(input') = Len(input) - 1 /\ Len(input) \in Nat \ {0}
        /\ Head(input) = input[1] /\ 1 \in 1..Len(input)
        /\ \A i \in 1..Len(input') : i + 1 \in 1..Len(input) /\ input'[i] = input[i + 1]
    BY Known, Removed DEF BridgeTyped
  <1>2. ASSUME NEW s \in Req, NEW i \in 1..Len(input'), input'[i] = Call(s)
        PROVE  task'[s] = "sent" /\ \A j \in 1..Len(input') : input'[j] = Call(s) => i = j
    <2>1. input[i + 1] = Call(s) /\ i + 1 \in 1..Len(input) /\ i + 1 # 1
      BY <1>1, <1>2
    <2>2. task[s] = "sent" /\ \A j \in 1..Len(input) : input[j] = Call(s) => i + 1 = j
      BY <2>1, Known DEF InputSound
    <2>3. Head(input) # Call(s)
      BY <1>1, <2>1, <2>2
    <2>4. \A j \in 1..Len(input') : input'[j] = Call(s) => i + 1 = j + 1
      BY <1>1, <2>2
    <2> QED
      BY <2>2, <2>3, <2>4
  <1> QED
    BY <1>1, <1>2 DEF InputSound, Call

LEMMA ReadLineKeeps ==
    ASSUME BridgeInv, NEW r \in Req, ReadLine(r)
    PROVE  BridgeInv'
  <1>1. /\ task[r] = "sent" /\ task' = [task EXCEPT ![r] = "start"]
    <2>1. input \in Seq(Line) /\ input # <<>> /\ Head(input) = Call(r)
      BY Known DEF BridgeTyped, ReadLine
    <2>2. 1 \in 1..Len(input) /\ input[1] = Call(r)
      BY <2>1, Removed
    <2> QED
      BY <2>2, Known DEF InputSound, ReadLine, TaskTo
  <1>2. InputSound' /\ input' \in Seq(Line)
    BY <1>1, InputRead, Known DEF ReadLine, BridgeTyped
  <1>3. BridgeTyped'
    BY <1>1, <1>2, Known DEF ReadLine, BridgeTyped, TaskStage, bridgeVars, chanVars, appVars
  <1>4. Few(InFlight')
    <2>1. InFlight' = InFlight \cup {r} /\ r \notin InFlight
      BY <1>1, Known DEF BridgeTyped, InFlight
    <2>2. IsFiniteSet(InFlight) /\ Cardinality(InFlight) < Permits
      BY Known DEF Few, ReadLine
    <2>3. IsFiniteSet(InFlight') /\ Cardinality(InFlight') = Cardinality(InFlight) + 1
      BY <2>1, <2>2, FS_AddElement
    <2> QED
      BY <2>2, <2>3, FS_CardinalityType, Constants DEF Few
  <1>5. LinksSound' /\ (\A s \in Req : CallSound(s)') /\ \A c \in Conn : LineSound(c)' /\ FewAhead(c)'
    BY <1>1, Known, StdioKeeps DEF ReadLine, BridgeTyped
  <1> QED
    BY <1>2, <1>3, <1>4, <1>5 DEF BridgeInv

LEMMA ReadCancelledKeeps ==
    ASSUME BridgeInv, NEW r \in Req, ReadCancelled(r)
    PROVE  BridgeInv'
  <1>1. InputSound' /\ input' \in Seq(Line)
    BY InputRead DEF ReadCancelled
  <1>2. BridgeTyped'
    BY <1>1, Known DEF ReadCancelled, BridgeTyped, bridgeVars, chanVars, appVars
  <1>3. Few(InFlight')
    BY InFlightKept DEF ReadCancelled, InFlight
  <1>4. LinksSound' /\ (\A s \in Req : CallSound(s)') /\ \A c \in Conn : LineSound(c)' /\ FewAhead(c)'
    BY StdioKeeps DEF ReadCancelled
  <1> QED
    BY <1>1, <1>2, <1>3, <1>4 DEF BridgeInv

LEMMA DrainKeeps ==
    ASSUME BridgeInv, ClientCloses \/ GraceOver
    PROVE  BridgeInv'
  <1>1. BridgeTyped'
    BY Known DEF ClientCloses, GraceOver, BridgeTyped, InFlight, bridgeVars, chanVars, appVars
  <1>2. InputSound'
    BY InputKept DEF ClientCloses, GraceOver
  <1>3. Few(InFlight')
    BY InFlightKept DEF ClientCloses, GraceOver, InFlight
  <1>4. LinksSound' /\ (\A s \in Req : CallSound(s)') /\ \A c \in Conn : LineSound(c)' /\ FewAhead(c)'
    BY StdioKeeps DEF ClientCloses, GraceOver
  <1> QED
    BY <1>1, <1>2, <1>3, <1>4 DEF BridgeInv

LEMMA ExitsKeeps ==
    ASSUME BridgeInv, Exits
    PROVE  BridgeInv'
  <1>1. /\ lines' = [c \in Conn |-> <<>>] \/ lines' = lines
        /\ UNCHANGED <<input, task, bridgeVars, filled, appVars>> /\ spilled' = {} /\ server' = "exited"
    BY DEF Exits
  <1>2. BridgeTyped'
    <2>1. <<>> \in Seq(Line)
      OBVIOUS
    <2>2. lines' \in [Conn -> Seq(Line)]
      BY <1>1, <2>1, Known DEF BridgeTyped
    <2> QED
      BY <1>1, <2>2, Known DEF Exits, BridgeTyped, bridgeVars, appVars
  <1>3. LinksSound' /\ Few(InFlight')
    BY <1>1, Known, InFlightKept DEF Exits, LinksSound, InFlight, bridgeVars, appVars
  <1>4. InputSound'
    BY <1>1, InputKept
  <1>5. ASSUME NEW r \in Req PROVE CallSound(r)'
    BY <1>1, CallKept DEF bridgeVars, appVars
  <1>6. ASSUME NEW c \in Conn PROVE LineSound(c)' /\ FewAhead(c)'
    <2>1. CASE lines' = lines
      BY <1>1, <2>1, LineKept, AheadKept DEF bridgeVars, appVars
    <2>2. CASE lines' = [d \in Conn |-> <<>>]
      <3>1. lines'[c] = <<>> /\ Len(lines'[c]) = 0
        BY <2>2
      <3> QED
        BY <3>1 DEF LineSound, FewAhead
    <2> QED
      BY <1>1, <2>1, <2>2
  <1> QED
    BY <1>2, <1>3, <1>4, <1>5, <1>6 DEF BridgeInv

-----------------------------------------------------------------------------
(* A request whose task moves on and may take back the call it registered: *)
(* the channels, the connections and the application are as before.        *)
LEMMA TaskMoves ==
    ASSUME BridgeInv, NEW r \in Req, NEW s \in TaskStage \ {"new", "sent"}, task' = [task EXCEPT ![r] = s],
           r \in InFlight, task[r] \in Sent => s \in Sent,
           UNCHANGED <<input, server, aborted, on, current, alive, cleared, reply, chanVars, appVars>>,
           pending' \subseteq pending \cup {r}, pending \subseteq pending' \cup {r}, CallSound(r)'
    PROVE  BridgeInv'
  <1> USE DEF chanVars, appVars
  <1>1. BridgeTyped'
    BY Known DEF BridgeTyped
  <1>2. /\ task'[r] = s /\ \A q \in Req \ {r} : task'[q] = task[q] /\ (q \in pending' <=> q \in pending)
        /\ task[r] \notin {"sent", "gone"}
    BY Known DEF BridgeTyped, InFlight
  <1>3. \A q \in Req : /\ task[q] = "sent" => task'[q] = "sent"
                       /\ q \in InFlight' => q \in InFlight
                       /\ task[q] \in Sent => task'[q] \in Sent
                       /\ task[q] = "gone" => task'[q] = "gone"
    BY <1>2 DEF InFlight
  <1>4. LinksSound' /\ InputSound' /\ Few(InFlight')
    BY <1>3, Known, InputKept, InFlightKept DEF LinksSound, InFlight
  <1>5. ASSUME NEW q \in Req PROVE CallSound(q)'
    <2>1. CASE q = r
      BY <2>1
    <2>2. CASE q # r
      BY <1>2, <2>2, CallKept
    <2> QED
      BY <2>1, <2>2
  <1>6. ASSUME NEW c \in Conn PROVE LineSound(c)' /\ FewAhead(c)'
    BY <1>3, LineKept, AheadKept
  <1> QED
    BY <1>1, <1>4, <1>5, <1>6 DEF BridgeInv

LEMMA AnswerKeeps ==
    ASSUME BridgeInv, NEW r \in Req, Answer(r)
    PROVE  BridgeInv'
  <1> USE DEF bridgeVars, chanVars, appVars
  <1>1. task' = [task EXCEPT ![r] = "done"] /\ task'[r] = "done" /\ r \in InFlight
    BY Known DEF Answer, TaskTo, BridgeTyped, InFlight
  <1>2. CallSound(r)'
    <2>1. CallSound(r) /\ ~ Wanted(r) /\ task[r] \in {"answer", "error"}
      BY Known DEF Answer, Wanted
    <2> QED
      BY <1>1, <2>1 DEF Answer, CallSound, Sent, Call
  <1> QED
    BY <1>1, <1>2, TaskMoves DEF Answer, TaskStage, Sent

LEMMA WakeKeeps ==
    ASSUME BridgeInv, NEW r \in Req, Wake(r)
    PROVE  BridgeInv'
  <1> USE DEF bridgeVars, chanVars, appVars
  <1> DEFINE s == IF r \in reply THEN "answer" ELSE "error"
  <1>1. task' = [task EXCEPT ![r] = s] /\ task'[r] = s /\ r \in InFlight /\ s \in {"answer", "error"}
    BY Known DEF Wake, TaskTo, BridgeTyped, InFlight
  <1> HIDE DEF s
  <1>2. CallSound(r)'
    <2>1. CallSound(r) /\ ~ Wanted(r) /\ task[r] = "wait" /\ r \notin pending
      BY Known DEF Wake, Wanted, CallSound
    <2> QED
      BY <1>1, <2>1 DEF Wake, CallSound, Sent, Call, stdioVars
  <1> QED
    BY <1>1, <1>2, TaskMoves DEF Wake, TaskStage, Sent, stdioVars

(* A call whose task has not sent it is nowhere.                           *)
LEMMA NotSent ==
    ASSUME BridgeInv, NEW r \in Req, task[r] \notin Sent
    PROVE  /\ call[r] = "none" /\ r \notin reply \cup back /\ r \notin spilled
           /\ on[r] \in open => ~ Contains(lines[on[r]], Call(r))
  <1>1. CallSound(r)
    BY Known
  <1>2. call[r] = "none" /\ r \notin reply \cup back /\ r \notin spilled
    BY <1>1 DEF CallSound, Sent
  <1> QED
    BY <1>2, Known, NotInChannels

LEMMA InsertKeeps ==
    ASSUME BridgeInv, NEW r \in Req, Insert(r)
    PROVE  BridgeInv'
  <1> USE DEF chanVars, appVars
  <1>1. task' = [task EXCEPT ![r] = "alive"] /\ task'[r] = "alive" /\ r \in InFlight /\ task[r] \notin Sent
    BY Known DEF Insert, TaskTo, BridgeTyped, InFlight, Sent
  <1>2. CallSound(r)'
    <2>1. on[r] \in 1..current
      BY Known DEF CallSound, Insert
    <2> QED
      BY <1>1, <2>1, NotSent DEF Insert, CallSound, Sent, Call, Working
  <1> QED
    BY <1>1, <1>2, TaskMoves DEF Insert, TaskStage, stdioVars

LEMMA CheckAliveKeeps ==
    ASSUME BridgeInv, NEW r \in Req, CheckAlive(r)
    PROVE  BridgeInv'
  <1> USE DEF chanVars, appVars
  <1>1. /\ task[r] = "alive" /\ task[r] \notin Sent /\ r \in InFlight /\ on[r] \in 1..current
        /\ on[r] \in open => r \in pending
    BY Known DEF CheckAlive, InFlight, Sent, CallSound
  <1>2. CASE on[r] \in alive
    <2>1. task' = [task EXCEPT ![r] = "send"] /\ task'[r] = "send" /\ pending' = pending
      BY <1>2, Known DEF CheckAlive, TaskTo, BridgeTyped
    <2>2. CallSound(r)'
      <3>1. on[r] \notin cleared
        BY <1>2, Known DEF LinksSound
      <3> QED
        BY <1>1, <2>1, <3>1, NotSent DEF CheckAlive, CallSound, Sent, Call, Working
    <2> QED
      BY <1>1, <2>1, <2>2, TaskMoves DEF CheckAlive, TaskStage, stdioVars
  <1>3. CASE on[r] \notin alive
    <2>1. task' = [task EXCEPT ![r] = "error"] /\ task'[r] = "error" /\ pending' = pending \ {r}
      BY <1>3, Known DEF CheckAlive, TaskTo, BridgeTyped
    <2>2. CallSound(r)'
      BY <1>1, <2>1, NotSent DEF CheckAlive, CallSound, Sent, Call, Working
    <2> QED
      BY <1>1, <2>1, <2>2, TaskMoves DEF CheckAlive, TaskStage, stdioVars
  <1> QED
    BY <1>2, <1>3

LEMMA SendFailsKeeps ==
    ASSUME BridgeInv, NEW r \in Req, SendFails(r)
    PROVE  BridgeInv'
  <1> USE DEF chanVars, appVars
  <1>1. /\ task' = [task EXCEPT ![r] = "error"] /\ task'[r] = "error" /\ r \in InFlight
        /\ task[r] \notin Sent /\ pending' = pending \ {r}
    BY Known DEF SendFails, TaskTo, BridgeTyped, InFlight, Sent
  <1>2. CallSound(r)'
    BY <1>1, NotSent DEF SendFails, CallSound, Sent, Call, Working
  <1> QED
    BY <1>1, <1>2, TaskMoves DEF SendFails, TaskStage, stdioVars

LEMMA ConnectKeepsBridge ==
    ASSUME BridgeInv, NEW r \in Req, Connect(r)
    PROVE  BridgeInv'
  <1> USE DEF chanVars
  <1>1. /\ task[r] = "start" /\ task[r] \notin Sent /\ r \in InFlight /\ server # "exited"
        /\ UNCHANGED <<stdioVars, cleared, pending, reply, lines, spilled, filled, call, back>>
    BY Known DEF Connect, InFlight, Sent, LinksSound
  <1>2. CallSound(r) /\ r \notin pending
    BY <1>1, Known DEF CallSound
  <1>3. CASE task' = [task EXCEPT ![r] = "error"] /\ UNCHANGED <<on, current, alive, open>>
    <2>1. task'[r] = "error"
      BY <1>3, Known DEF BridgeTyped
    <2>2. CallSound(r)'
      BY <1>1, <1>2, <1>3, <2>1, NotSent DEF CallSound, Sent, Call, Working
    <2> QED
      BY <1>1, <1>3, <2>2, TaskMoves DEF TaskStage, stdioVars, appVars
  <1>4. ASSUME NEW k \in 1..MaxConnections, on' = [on EXCEPT ![r] = k], task' = [task EXCEPT ![r] = "insert"],
               current' = k,
               \/ k = current /\ alive' = alive /\ open' = open
               \/ k = current + 1 /\ alive' = alive \cup {k} /\ open' = open \cup {k}
        PROVE  BridgeInv'
    <2>1. /\ task'[r] = "insert" /\ on'[r] = k /\ 1..current \subseteq 1..current' /\ current \in Nat
          /\ \A q \in Req \ {r} : task'[q] = task[q] /\ on'[q] = on[q]
          /\ \A q \in Req : on[q] \in 0..current
      BY <1>4, Known DEF BridgeTyped
    <2>2. BridgeTyped'
      <3>1. on' \in [Req -> 0..current']
        BY <1>4, <2>1, Known DEF BridgeTyped
      <3>2. open' \subseteq 1..current' /\ alive' \subseteq 1..current' /\ cleared' \subseteq 1..current'
        BY <1>1, <1>4, <2>1, Known DEF BridgeTyped
      <3> QED
        BY <1>1, <1>4, <3>1, <3>2, Known DEF BridgeTyped, TaskStage, stdioVars
    <2>3. LinksSound' /\ InputSound' /\ Few(InFlight')
      <3>1. InFlight' = InFlight
        BY <1>1, <2>1 DEF InFlight
      <3>2. alive' \cap cleared' = {} /\ open' \subseteq alive'
        BY <1>1, <1>4, <2>1, Known DEF LinksSound, BridgeTyped
      <3> QED
        BY <1>1, <2>1, <3>1, <3>2, Known, InputKept DEF LinksSound, stdioVars
    <2>4. CallSound(r)'
      <3>1. k \in Conn /\ ~ Contains(lines[k], Call(r))
        BY <1>1, <1>4, NotInChannels DEF Conn
      <3>2. on'[r] \in 1..current'
        BY <1>4, <2>1
      <3> QED
        BY <1>1, <1>2, <2>1, <3>1, <3>2, NotSent DEF CallSound, Sent, Call, Working
    <2>5. ASSUME NEW q \in Req \ {r} PROVE CallSound(q)'
      <3>1. on[q] \in open' => on[q] \in open
        BY <1>4, <2>1
      <3> QED
        BY <1>1, <2>1, <3>1, CallKept DEF stdioVars
    <2>6. ASSUME NEW c \in Conn PROVE LineSound(c)' /\ FewAhead(c)'
      <3>1. \A q \in Req : /\ on'[q] = on[q] \/ task[q] \notin Sent
                           /\ task[q] \in Sent => task'[q] \in Sent
                           /\ task[q] = "gone" => task'[q] = "gone"
        BY <1>1, <2>1
      <3>2. LineSound(c)'
        BY <1>1, <2>1, <3>1, LineKept
      <3>3. CASE c \in open' => c \in open
        BY <1>1, <3>1, <3>2, <3>3, AheadKept
      <3>4. CASE c \in open' /\ c \notin open
        <4>1. c = current + 1 /\ c \notin 1..current
          BY <1>4, <2>1, <3>4
        <4>2. lines'[c] = <<>>
          BY <1>1, <4>1, Known DEF LineSound
        <4>3. Len(lines'[c]) = 0
          BY <4>2
        <4> QED
          BY <3>2, <4>3 DEF FewAhead
      <3> QED
        BY <3>3, <3>4, <3>2
    <2> QED
      BY <2>2, <2>3, <2>4, <2>5, <2>6 DEF BridgeInv
  <1>5. CASE current \in alive /\ on' = [on EXCEPT ![r] = current] /\ TaskTo(r, "insert")
             /\ UNCHANGED <<current, alive, open>>
    <2>1. current \in 1..MaxConnections
      BY <1>5, Known, Constants DEF BridgeTyped
    <2> QED
      BY <1>4, <1>5, <2>1 DEF TaskTo
  <1>6. CASE current < MaxConnections /\ current' = current + 1 /\ alive' = alive \cup {current'}
             /\ open' = open \cup {current'} /\ on' = [on EXCEPT ![r] = current'] /\ TaskTo(r, "insert")
    <2>1. current + 1 \in 1..MaxConnections
      BY <1>6, Known, Constants DEF BridgeTyped
    <2> QED
      BY <1>4, <1>6, <2>1 DEF TaskTo
  <1> QED
    BY <1>3, <1>5, <1>6 DEF Connect, TaskTo

-----------------------------------------------------------------------------
(* A line is added to the channel of r, at its end: what was there stays   *)
(* in its place.                                                           *)
LEMMA LineAdded ==
    ASSUME BridgeInv, NEW r \in Req, NEW x \in {Call(r), Cancel(r)}, on[r] \in 1..current,
           lines' = [lines EXCEPT ![on[r]] = Append(@, x)]
    PROVE  /\ on[r] \in Conn /\ lines' \in [Conn -> Seq(Line)] /\ Len(lines[on[r]]) \in Nat
           /\ \A c \in Conn \ {on[r]} : lines'[c] = lines[c]
           /\ Len(lines'[on[r]]) = Len(lines[on[r]]) + 1 /\ lines'[on[r]][Len(lines[on[r]]) + 1] = x
           /\ \A i \in 1..Len(lines[on[r]]) : lines'[on[r]][i] = lines[on[r]][i]
           /\ \A c \in Conn : \A y : Contains(lines'[c], y) <=> Contains(lines[c], y) \/ (c = on[r] /\ y = x)
  <1>1. on[r] \in Conn /\ lines[on[r]] \in Seq(Line) /\ x \in Line /\ lines \in [Conn -> Seq(Line)]
    BY Known, Tags DEF BridgeTyped
  <1>2. Append(lines[on[r]], x) \in Seq(Line)
    BY <1>1, Added
  <1>3. lines'[on[r]] = Append(lines[on[r]], x) /\ \A c \in Conn \ {on[r]} : lines'[c] = lines[c]
    BY <1>1
  <1>4. lines' \in [Conn -> Seq(Line)]
    BY <1>1, <1>2
  <1>5. /\ Len(lines'[on[r]]) = Len(lines[on[r]]) + 1 /\ lines'[on[r]][Len(lines[on[r]]) + 1] = x
        /\ \A i \in 1..Len(lines[on[r]]) : lines'[on[r]][i] = lines[on[r]][i]
        /\ \A y : Contains(lines'[on[r]], y) <=> Contains(lines[on[r]], y) \/ y = x
        /\ Len(lines[on[r]]) \in Nat
    BY <1>1, <1>3, Added
  <1>6. ASSUME NEW c \in Conn, NEW y
        PROVE  Contains(lines'[c], y) <=> Contains(lines[c], y) \/ (c = on[r] /\ y = x)
    BY <1>3, <1>5
  <1> QED
    BY <1>1, <1>3, <1>4, <1>5, <1>6

(* The calls before the lines that were there are no more than before.     *)
LEMMA AheadOfOld ==
    ASSUME BridgeInv, NEW c \in Conn, NEW i \in 1..Len(lines[c]), c \in open, ~ filled, lines[c][i][1] = "call",
           \A j \in 1..Len(lines[c]) : lines'[c][j] = lines[c][j],
           on' = on, call' = call
    PROVE  Few(Ahead(c, i)')
  <1>1. Few(Ahead(c, i))
    BY Known DEF FewAhead
  <1>2. \A j \in 1..i : j \in 1..Len(lines[c]) /\ lines'[c][j] = lines[c][j]
    BY Known
  <1>3. \A j \in 1..(i - 1) : j \in 1..i
    BY Known
  <1>4. ASSUME NEW s \in Req, s \in Ahead(c, i)' PROVE s \in Ahead(c, i)
    BY <1>2, <1>3, <1>4 DEF Ahead, Call, Cancel
  <1> QED
    BY <1>1, <1>4, FewLess DEF Ahead

LEMMA SendCallKeeps ==
    ASSUME BridgeInv, NEW r \in Req, SendCall(r)
    PROVE  BridgeInv'
  <1> USE DEF bridgeVars, appVars
  <1>0. PICK k : k = on[r]
    OBVIOUS
  <1> DEFINE n == Len(lines[k])
  <1>1. /\ task[r] = "send" /\ task[r] \notin Sent /\ task[r] # "gone" /\ r \in InFlight /\ k \in 1..current
        /\ server # "exited"
        /\ k \in open => r \in pending
    <2>1. CallSound(r) /\ LinksSound
      BY Known
    <2> QED
      BY <1>0, <2>1 DEF SendCall, CallSound, LinksSound, InFlight, Sent
  <1>2. /\ task' = [task EXCEPT ![r] = "wait"] /\ lines' = [lines EXCEPT ![k] = Append(@, Call(r))]
        /\ UNCHANGED <<stdioVars, bridgeVars, spilled, filled, appVars>>
    BY <1>0 DEF SendCall, TaskTo
  <1>3. /\ k \in Conn /\ lines' \in [Conn -> Seq(Line)] /\ n \in Nat
        /\ \A c \in Conn \ {k} : lines'[c] = lines[c]
        /\ Len(lines'[k]) = n + 1 /\ lines'[k][n + 1] = Call(r)
        /\ \A i \in 1..n : lines'[k][i] = lines[k][i]
        /\ \A c \in Conn : \A y : Contains(lines'[c], y) <=> Contains(lines[c], y) \/ (c = k /\ y = Call(r))
    <2>1. /\ Call(r) \in {Call(r), Cancel(r)} /\ on[r] \in 1..current
          /\ lines' = [lines EXCEPT ![on[r]] = Append(@, Call(r))]
      BY <1>0, <1>1, <1>2
    <2> QED
      BY <1>0, <2>1, LineAdded, Zenon
  <1>4. task'[r] = "wait" /\ \A q \in Req \ {r} : task'[q] = task[q]
    BY <1>2, Known DEF BridgeTyped
  <1> HIDE DEF n
  <1>5. BridgeTyped'
    BY <1>2, <1>3, Known DEF BridgeTyped, TaskStage, stdioVars
  <1>6. LinksSound' /\ InputSound' /\ Few(InFlight')
    <2>1. InFlight' = InFlight
      BY <1>1, <1>4 DEF InFlight
    <2> QED
      BY <1>1, <1>2, <1>4, <2>1, Known, InputKept DEF LinksSound, stdioVars
  <1>7. CallSound(r)'
    <2>1. CallSound(r) /\ call[r] = "none" /\ r \notin reply \cup back /\ r \notin spilled
      BY <1>1, Known, NotSent
    <2>2. k \notin cleared \/ r \notin pending
      BY <1>0, <1>1, <2>1 DEF CallSound
    <2>3. task'[r] = "wait" /\ on' = on /\ call' = call /\ pending' = pending /\ reply' = reply /\ back' = back
          /\ spilled' = spilled /\ cleared' = cleared /\ open' = open /\ current' = current
      BY <1>2, <1>4
    <2> QED
      BY <1>0, <1>1, <2>1, <2>2, <2>3 DEF CallSound, Wanted, Sent
  <1>8. ASSUME NEW q \in Req \ {r} PROVE CallSound(q)'
    <2>1. on[q] \in open =>
               /\ Contains(lines[on[q]], Cancel(q)) => Contains(lines'[on[q]], Cancel(q))
               /\ Contains(lines'[on[q]], Call(q)) => Contains(lines[on[q]], Call(q))
      <3>1. Call(q) # Call(r)
        BY <1>8, Tags
      <3> QED
        BY <1>3, <3>1, Known
    <2> QED
      BY <1>2, <1>4, <2>1, CallKept DEF stdioVars
  <1>9. ASSUME NEW c \in Conn \ {k} PROVE LineSound(c)' /\ FewAhead(c)'
    <2>1. \A q \in Req : /\ task[q] \in Sent => task'[q] \in Sent
                         /\ task[q] = "gone" => task'[q] = "gone"
      BY <1>1, <1>4
    <2> QED
      BY <1>2, <1>3, <1>9, <2>1, LineKept, AheadKept
  <1>10. LineSound(k)'
    <2>1. \A i \in 1..n : lines[k][i] \notin {Call(r), Cancel(r)}
      <3>1. ~ Contains(lines[k], Call(r)) /\ ~ Contains(lines[k], Cancel(r))
        BY <1>1, <1>3, NotInChannels
      <3> QED
        BY <3>1 DEF Contains, n
    <2>2. k \in 1..current' /\ on[r] = k /\ on' = on /\ call' = call /\ call[r] = "none"
      BY <1>0, <1>1, <1>2, NotSent
    <2>3. ASSUME NEW i \in 1..Len(lines'[k]), NEW q \in Req
          PROVE  /\ lines'[k][i] \in {Call(q), Cancel(q)} => on[q] = k
                 /\ lines'[k][i] = Cancel(q) => task'[q] = "gone"
                 /\ lines'[k][i] = Call(q) =>
                       /\ call[q] = "none" /\ task'[q] \in Sent
                       /\ \A j \in 1..Len(lines'[k]) :
                             /\ lines'[k][j] = Call(q) => i = j
                             /\ lines'[k][j] = Cancel(q) => i < j
      <3>1. \A j \in 1..Len(lines'[k]) : j \in 1..n \/ j = n + 1
        BY <1>3
      <3>2. CASE q = r
        <4>1. \A j \in 1..n : lines'[k][j] \notin {Call(r), Cancel(r)}
          BY <1>3, <2>1
        <4>2. Call(r) # Cancel(r) /\ "wait" \in Sent
          BY Tags DEF Sent
        <4> QED
          BY <1>3, <1>4, <2>2, <3>1, <3>2, <4>1, <4>2
      <3>3. CASE q # r
        <4>1. lines'[k][n + 1] \notin {Call(q), Cancel(q)} /\ task'[q] = task[q]
          BY <1>3, <1>4, <3>3, Tags
        <4>2. CASE i = n + 1
          BY <4>1, <4>2
        <4>3. CASE i \in 1..n
          <5>1. /\ lines[k][i] \in {Call(q), Cancel(q)} => on[q] = k
                /\ lines[k][i] = Cancel(q) => task[q] = "gone"
                /\ lines[k][i] = Call(q) =>
                      /\ call[q] = "none" /\ task[q] \in Sent
                      /\ \A j \in 1..n : /\ lines[k][j] = Call(q) => i = j
                                         /\ lines[k][j] = Cancel(q) => i < j
            BY <1>3, <4>3, Known DEF LineSound, n
          <5> QED
            BY <1>3, <3>1, <4>1, <4>3, <5>1
        <4> QED
          BY <3>1, <4>2, <4>3
      <3> QED
        BY <3>2, <3>3
    <2> QED
      BY <2>2, <2>3 DEF LineSound, Call, Cancel
  <1>11. FewAhead(k)'
    <2>1. SUFFICES ASSUME k \in open, ~ filled, NEW i \in 1..(n + 1), lines'[k][i][1] = "call"
                   PROVE  Few(Ahead(k, i)')
      BY <1>2, <1>3 DEF FewAhead
    <2>2. CASE i \in 1..n
      BY <1>2, <1>3, <2>1, <2>2, AheadOfOld DEF n
    <2>3. CASE i = n + 1
      <3>1. ASSUME NEW s \in Req, s \in Ahead(k, i)' PROVE s \in InFlight
        <4>1. on[s] = k /\ (\A j \in 1..n : lines[k][j] # Cancel(s))
              /\ (call[s] \in Working \/ \E j \in 1..(n + 1) : lines'[k][j] = Call(s))
          <5>1. i - 1 = n
            BY <1>3, <2>3
          <5> QED
            BY <1>2, <1>3, <2>3, <3>1, <5>1 DEF Ahead, Call, Cancel
        <4>2. ~ Contains(lines[k], Cancel(s))
          BY <4>1 DEF Contains, n
        <4>3. CASE s = r
          BY <1>1, <4>3
        <4>4. CASE s # r
          <5>1. call[s] \in Working \/ Contains(lines[k], Call(s))
            <6>1. Call(s) # Call(r)
              BY <4>4, Tags
            <6>2. \A j \in 1..(n + 1) : lines'[k][j] = Call(s) => j \in 1..n /\ lines[k][j] = Call(s)
              BY <1>3, <6>1
            <6> QED
              BY <4>1, <6>2 DEF Contains, n
          <5>2. Wanted(s)
            BY <1>1, <2>1, <4>1, <5>1, Known DEF CallSound
          <5>3. s \notin spilled
            BY <2>1, Known DEF LinksSound
          <5>4. task[s] = "wait"
            BY <4>1, <4>2, <5>2, <5>3 DEF Wanted
          <5> QED
            BY <5>4 DEF InFlight
        <4> QED
          BY <4>3, <4>4
      <3> QED
        BY <3>1, Known, FewLess DEF Ahead
    <2> QED
      BY <1>3, <2>1, <2>2, <2>3
  <1>12. ASSUME NEW c \in Conn PROVE LineSound(c)' /\ FewAhead(c)'
    BY <1>9, <1>10, <1>11
  <1> QED
    BY <1>5, <1>6, <1>7, <1>8, <1>12 DEF BridgeInv

(* A cancellation added to a channel: the call it names is done with.      *)
TakesBack(r) == lines' = [lines EXCEPT ![on[r]] = Append(@, Cancel(r))]

LEMMA CancelAdded ==
    ASSUME BridgeInv, NEW r \in Req, on[r] \in 1..current, task'[r] = "gone",
           TakesBack(r),
           \A q \in Req \ {r} : task'[q] = task[q],
           UNCHANGED <<on, current, open, call, filled>>
    PROVE  \A c \in Conn : LineSound(c)' /\ FewAhead(c)'
  <1>0. PICK k : k = on[r]
    OBVIOUS
  <1> DEFINE n == Len(lines[k])
  <1>1. /\ k \in Conn /\ n \in Nat
        /\ \A c \in Conn \ {k} : lines'[c] = lines[c]
        /\ Len(lines'[k]) = n + 1 /\ lines'[k][n + 1] = Cancel(r)
        /\ \A i \in 1..n : lines'[k][i] = lines[k][i]
    BY <1>0, LineAdded DEF TakesBack
  <1> HIDE DEF n
  <1>2. \A q \in Req : /\ task[q] \in Sent => task'[q] \in Sent
                       /\ task[q] = "gone" => task'[q] = "gone"
    BY DEF Sent
  <1>3. ASSUME NEW c \in Conn \ {k} PROVE LineSound(c)' /\ FewAhead(c)'
    BY <1>1, <1>2, <1>3, LineKept, AheadKept
  <1>4. LineSound(k)'
    <2>1. k \in 1..current' /\ on[r] = k /\ on' = on /\ call' = call
      BY <1>0
    <2>2. ASSUME NEW i \in 1..Len(lines'[k]), NEW q \in Req
          PROVE  /\ lines'[k][i] \in {Call(q), Cancel(q)} => on[q] = k
                 /\ lines'[k][i] = Cancel(q) => task'[q] = "gone"
                 /\ lines'[k][i] = Call(q) =>
                       /\ call[q] = "none" /\ task'[q] \in Sent
                       /\ \A j \in 1..Len(lines'[k]) :
                             /\ lines'[k][j] = Call(q) => i = j
                             /\ lines'[k][j] = Cancel(q) => i < j
      <3>1. \A j \in 1..Len(lines'[k]) : j \in 1..n \/ j = n + 1
        BY <1>1
      <3>2. CASE i = n + 1
        <4>1. lines'[k][i] # Call(q) /\ (lines'[k][i] = Cancel(q) => q = r)
          BY <1>1, <3>2, Tags
        <4> QED
          BY <2>1, <4>1
      <3>3. CASE i \in 1..n
        <4>1. /\ lines[k][i] \in {Call(q), Cancel(q)} => on[q] = k
              /\ lines[k][i] = Cancel(q) => task[q] = "gone"
              /\ lines[k][i] = Call(q) =>
                    /\ call[q] = "none" /\ task[q] \in Sent
                    /\ \A j \in 1..n : /\ lines[k][j] = Call(q) => i = j
                                       /\ lines[k][j] = Cancel(q) => i < j
          BY <1>1, <3>3, Known DEF LineSound, n
        <4>2. lines'[k][n + 1] # Call(q) /\ i < n + 1
          BY <1>1, <3>3, Tags
        <4> QED
          BY <1>1, <1>2, <3>1, <3>3, <4>1, <4>2
      <3> QED
        BY <3>1, <3>2, <3>3
    <2> QED
      BY <2>1, <2>2 DEF LineSound, Call, Cancel
  <1>5. FewAhead(k)'
    <2>1. SUFFICES ASSUME k \in open, ~ filled, NEW i \in 1..(n + 1), lines'[k][i][1] = "call"
                   PROVE  Few(Ahead(k, i)')
      BY <1>1 DEF FewAhead
    <2>2. i \in 1..n
      <3>1. Cancel(r)[1] # "call"
        BY Tags
      <3> QED
        BY <1>1, <2>1, <3>1
    <2> QED
      BY <1>1, <2>1, <2>2, AheadOfOld DEF n
  <1> QED
    BY <1>3, <1>4, <1>5

(* The other calls, when a cancellation of r is added.                     *)
LEMMA OthersKeep ==
    ASSUME BridgeInv, NEW r \in Req, NEW q \in Req \ {r}, on[r] \in 1..current,
           lines' = lines \/ lines' = [lines EXCEPT ![on[r]] = Append(@, Cancel(r))],
           task'[q] = task[q], q \in pending' <=> q \in pending, q \in spilled' <=> q \in spilled,
           UNCHANGED <<server, on, current, cleared, reply, open, call, back>>
    PROVE  CallSound(q)'
  <1>1. on[q] \in open =>
           /\ Contains(lines[on[q]], Cancel(q)) => Contains(lines'[on[q]], Cancel(q))
           /\ Contains(lines'[on[q]], Call(q)) => Contains(lines[on[q]], Call(q))
    <2>1. Call(q) # Cancel(r)
      BY Tags
    <2>2. CASE lines' = lines
      BY <2>2
    <2>3. CASE lines' = [lines EXCEPT ![on[r]] = Append(@, Cancel(r))]
      <3>1. \A c \in Conn : \A y : Contains(lines'[c], y) <=> Contains(lines[c], y) \/ (c = on[r] /\ y = Cancel(r))
        BY <2>3, LineAdded
      <3>2. on[q] \in open => on[q] \in Conn
        BY Known
      <3> QED
        BY <2>1, <3>1, <3>2
    <2> QED
      BY <2>2, <2>3
  <1>2. CallSound(q)
    BY Known
  <1>3. /\ task'[q] = task[q] /\ on'[q] = on[q] /\ call'[q] = call[q] /\ cleared' = cleared /\ open' = open
        /\ current' = current /\ reply' = reply /\ back' = back /\ server' = server
    OBVIOUS
  <1>4. on[q] \in open /\ Wanted(q) => Wanted(q)'
    BY <1>1, <1>3 DEF Wanted, Cancel
  <1>5. Contains(lines'[on'[q]], Call(q)') /\ on[q] \in open => Contains(lines[on[q]], Call(q))
    BY <1>1, <1>3 DEF Call
  <1> QED
    BY <1>2, <1>3, <1>4, <1>5 DEF CallSound

LEMMA DropTaskKeeps ==
    ASSUME BridgeInv, NEW r \in Req, DropTask(r)
    PROVE  BridgeInv'
  <1> USE DEF appVars
  <1>1. /\ task[r] \in {"start", "send", "wait", "answer", "error"} /\ r \in InFlight /\ server # "exited"
        /\ task' = [task EXCEPT ![r] = "gone"] /\ pending' = pending \ {r}
        /\ UNCHANGED <<stdioVars, on, current, alive, cleared, reply, appVars>>
    <2>1. LinksSound
      BY Known
    <2> QED
      BY <2>1 DEF DropTask, TaskTo, InFlight, LinksSound
  <1>2. task'[r] = "gone" /\ \A q \in Req \ {r} : task'[q] = task[q] /\ (q \in pending' <=> q \in pending)
    BY <1>1, Known DEF BridgeTyped
  <1>3. CASE UNCHANGED <<lines, spilled, filled>> /\ ~ (r \in pending /\ task[r] = "wait")
    <2>1. CallSound(r)'
      <3>1. CallSound(r)
        BY Known
      <3>2. ~ Wanted(r) /\ r \notin spilled
        BY <1>1, <1>3, <3>1 DEF Wanted, CallSound
      <3>3. ~ (on[r] \in open /\ (call[r] \in Working \/ Contains(lines[on[r]], Call(r))))
        BY <1>1, <3>1, <3>2 DEF CallSound
      <3> QED
        BY <1>1, <1>2, <1>3, <3>1, <3>2, <3>3 DEF CallSound, Sent, stdioVars, Call
    <2> QED
      BY <1>1, <1>3, <2>1, TaskMoves DEF TaskStage, Sent, stdioVars, chanVars
  <1>4. CASE SendCancel(r) /\ r \in pending /\ task[r] = "wait"
    <2>1. on[r] \in 1..current /\ CallSound(r)
      BY <1>4, Known DEF CallSound
    <2>2. \/ lines' = [lines EXCEPT ![on[r]] = Append(@, Cancel(r))] /\ UNCHANGED <<spilled, filled>>
          \/ spilled' = spilled \cup {r} /\ filled' = TRUE /\ UNCHANGED lines
      BY <1>4 DEF SendCancel
    <2>3. BridgeTyped'
      <3>1. lines' \in [Conn -> Seq(Line)]
        BY <2>1, <2>2, LineAdded, Known DEF BridgeTyped
      <3> QED
        BY <1>1, <2>2, <3>1, Known DEF BridgeTyped, TaskStage, stdioVars
    <2>4. LinksSound' /\ InputSound' /\ Few(InFlight')
      <3>1. \A q \in Req : q \in InFlight' => q \in InFlight
        BY <1>2 DEF InFlight
      <3>2. Few(InFlight') /\ InputSound'
        BY <1>1, <1>2, <3>1, InFlightKept, InputKept DEF stdioVars
      <3> QED
        BY <1>1, <2>2, <3>2, Known DEF LinksSound, stdioVars
    <2>5. CallSound(r)'
      <3>1. r \in spilled' \/ Contains(lines'[on[r]], Cancel(r))
        BY <2>1, <2>2, LineAdded
      <3>2. Wanted(r)'
        BY <1>1, <1>2, <3>1 DEF Wanted, Cancel
      <3>3. r \notin pending' /\ on'[r] \in 1..current'
        BY <1>1, <2>1
      <3> QED
        BY <1>1, <1>2, <2>1, <3>2, <3>3 DEF CallSound, Sent
    <2>6. ASSUME NEW q \in Req \ {r} PROVE CallSound(q)'
      BY <1>1, <1>2, <2>1, <2>2, OthersKeep DEF stdioVars
    <2>7. \A c \in Conn : LineSound(c)' /\ FewAhead(c)'
      <3>1. CASE lines' = [lines EXCEPT ![on[r]] = Append(@, Cancel(r))] /\ UNCHANGED <<spilled, filled>>
        BY <1>1, <1>2, <2>1, <3>1, CancelAdded DEF TakesBack
      <3>2. CASE filled' = TRUE /\ UNCHANGED lines
        <4>1. \A q \in Req : /\ task[q] \in Sent => task'[q] \in Sent
                             /\ task[q] = "gone" => task'[q] = "gone"
          BY <1>2 DEF Sent
        <4>2. \A c \in Conn : LineSound(c)'
          BY <1>1, <3>2, <4>1, LineKept
        <4> QED
          BY <3>2, <4>2 DEF FewAhead
      <3> QED
        BY <2>2, <3>1, <3>2
    <2> QED
      BY <2>3, <2>4, <2>5, <2>6, <2>7 DEF BridgeInv
  <1> QED
    BY <1>3, <1>4 DEF DropTask

LEMMA SendSpilledKeeps ==
    ASSUME BridgeInv, NEW r \in Req, SendSpilled(r)
    PROVE  BridgeInv'
  <1> USE DEF appVars, bridgeVars
  <1>1. /\ r \in spilled /\ spilled' = spilled \ {r} /\ lines' = [lines EXCEPT ![on[r]] = Append(@, Cancel(r))]
        /\ UNCHANGED <<stdioVars, task, bridgeVars, filled, appVars>>
    BY DEF SendSpilled
  <1>2. on[r] \in 1..current /\ CallSound(r) /\ task[r] = "gone"
    BY <1>1, Known DEF CallSound
  <1>3. BridgeTyped'
    <2>1. lines' \in [Conn -> Seq(Line)]
      BY <1>1, <1>2, LineAdded
    <2> QED
      BY <1>1, <2>1, Known DEF BridgeTyped, stdioVars
  <1>4. LinksSound' /\ InputSound' /\ Few(InFlight')
    BY <1>1, Known, InputKept, InFlightKept DEF LinksSound, InFlight, stdioVars
  <1>5. CallSound(r)'
    <2>1. Contains(lines'[on[r]], Cancel(r))
      BY <1>1, <1>2, LineAdded
    <2>2. Wanted(r)'
      BY <1>1, <1>2, <2>1 DEF Wanted, Cancel
    <2> QED
      BY <1>1, <1>2, <2>2 DEF CallSound
  <1>6. ASSUME NEW q \in Req \ {r} PROVE CallSound(q)'
    BY <1>1, <1>2, OthersKeep DEF stdioVars
  <1>7. \A c \in Conn : LineSound(c)' /\ FewAhead(c)'
    BY <1>1, <1>2, CancelAdded DEF TakesBack
  <1> QED
    BY <1>3, <1>4, <1>5, <1>6, <1>7 DEF BridgeInv

LEMMA ReadReplyKeeps ==
    ASSUME BridgeInv, NEW r \in Req, ReadReply(r)
    PROVE  BridgeInv'
  <1>1. /\ r \in back /\ back' = back \ {r} /\ pending' = pending \ {r}
        /\ reply' = (IF r \in pending THEN reply \cup {r} ELSE reply)
        /\ UNCHANGED <<stdioVars, task, on, current, alive, cleared, chanVars, open, call>>
    BY DEF ReadReply
  <1>2. BridgeTyped'
    BY <1>1, Known DEF BridgeTyped, stdioVars, chanVars
  <1>3. LinksSound' /\ InputSound' /\ Few(InFlight')
    BY <1>1, Known, InputKept, InFlightKept DEF LinksSound, InFlight, stdioVars, chanVars
  <1>4. CallSound(r)'
    <2>1. CallSound(r) /\ call[r] = "replied" /\ task[r] \in Sent
      BY <1>1, Known DEF CallSound
    <2>2. on[r] \in open => ~ Contains(lines[on[r]], Call(r))
      BY <2>1, Known, NotInChannels
    <2>3. r \in pending' \cup reply' \/ r \notin pending \cup reply
      BY <1>1
    <2>4. r \notin pending' /\ (r \in reply => r \in reply')
      BY <1>1
    <2>5. call'[r] = "replied" /\ task'[r] = task[r] /\ on' = on /\ open' = open /\ spilled' = spilled
          /\ current' = current /\ (on[r] \in open => ~ Contains(lines'[on[r]], Call(r)))
      BY <1>1, <2>1, <2>2 DEF chanVars
    <2> QED
      BY <2>1, <2>3, <2>4, <2>5 DEF CallSound, Sent, Working, Call
  <1>5. ASSUME NEW q \in Req \ {r} PROVE CallSound(q)'
    <2>1. q \in pending' <=> q \in pending
      BY <1>1
    <2>2. q \in reply' <=> q \in reply
      BY <1>1
    <2> QED
      BY <1>1, <2>1, <2>2, CallKept DEF stdioVars, chanVars
  <1>6. ASSUME NEW c \in Conn PROVE LineSound(c)' /\ FewAhead(c)'
    BY <1>1, LineKept, AheadKept DEF chanVars
  <1> QED
    BY <1>2, <1>3, <1>4, <1>5, <1>6 DEF BridgeInv

LEMMA CloseMarksKeeps ==
    ASSUME BridgeInv, NEW c \in Conn, CloseMarks(c)
    PROVE  BridgeInv'
  <1> USE DEF CloseMarks, stdioVars, chanVars, appVars
  <1>1. BridgeTyped' /\ LinksSound' /\ InputSound' /\ Few(InFlight')
    BY Known, InputKept, InFlightKept DEF BridgeTyped, LinksSound, InFlight
  <1>2. ASSUME NEW q \in Req PROVE CallSound(q)'
    BY CallKept
  <1>3. ASSUME NEW d \in Conn PROVE LineSound(d)' /\ FewAhead(d)'
    BY LineKept, AheadKept
  <1> QED
    BY <1>1, <1>2, <1>3 DEF BridgeInv

LEMMA CloseClearsKeeps ==
    ASSUME BridgeInv, NEW c \in Conn, CloseClears(c)
    PROVE  BridgeInv'
  <1> USE DEF stdioVars, appVars
  <1>1. /\ c \in 1..current /\ c \notin alive /\ cleared' = cleared \cup {c}
        /\ pending' = {r \in pending : on[r] # c} /\ lines' = [lines EXCEPT ![c] = <<>>]
        /\ UNCHANGED <<stdioVars, task, on, current, alive, reply, spilled, filled, appVars>>
    BY DEF CloseClears
  <1>2. lines \in [Conn -> Seq(Line)] /\ <<>> \in Seq(Line) /\ c \notin open
    BY <1>1, Known DEF BridgeTyped
  <1>3. /\ lines' \in [Conn -> Seq(Line)] /\ lines'[c] = <<>> /\ Len(lines'[c]) = 0
        /\ \A d \in Conn \ {c} : lines'[d] = lines[d]
    BY <1>1, <1>2
  <1>4. BridgeTyped' /\ LinksSound' /\ InputSound' /\ Few(InFlight')
    BY <1>1, <1>3, Known, InputKept, InFlightKept DEF BridgeTyped, LinksSound, InFlight
  <1>5. ASSUME NEW q \in Req PROVE CallSound(q)'
    <2>1. CASE on[q] = c
      <3>1. CallSound(q) /\ q \notin pending' /\ on'[q] \notin open'
        BY <1>1, <1>2, <2>1, Known
      <3> QED
        BY <1>1, <3>1 DEF CallSound
    <2>2. CASE on[q] # c
      <3>1. /\ q \in pending' <=> q \in pending
            /\ on[q] \in cleared' => on[q] \in cleared
            /\ on[q] \in open => lines'[on[q]] = lines[on[q]]
        BY <1>1, <1>3, <2>2, Known
      <3> QED
        BY <1>1, <3>1, CallKept
    <2> QED
      BY <2>1, <2>2
  <1>6. ASSUME NEW d \in Conn PROVE LineSound(d)' /\ FewAhead(d)'
    <2>1. CASE d = c
      BY <1>3, <2>1 DEF LineSound, FewAhead
    <2>2. CASE d # c
      BY <1>1, <1>3, <2>2, LineKept, AheadKept
    <2> QED
      BY <2>1, <2>2
  <1> QED
    BY <1>4, <1>5, <1>6 DEF BridgeInv

-----------------------------------------------------------------------------
(* The application reads the first line of a channel: the others move up.  *)
LEMMA LineRead ==
    ASSUME BridgeInv, NEW c \in Conn, lines[c] # <<>>, lines' = [lines EXCEPT ![c] = Tail(@)]
    PROVE  /\ lines' \in [Conn -> Seq(Line)] /\ Len(lines[c]) \in Nat \ {0}
           /\ \A d \in Conn \ {c} : lines'[d] = lines[d]
           /\ lines[c][1] \in Line /\ 1 \in 1..Len(lines[c]) /\ Len(lines'[c]) = Len(lines[c]) - 1
           /\ \A i \in 1..Len(lines'[c]) : i + 1 \in 1..Len(lines[c]) /\ lines'[c][i] = lines[c][i + 1]
           /\ \A d \in Conn : \A y : Contains(lines'[d], y) => Contains(lines[d], y)
           /\ \A d \in Conn : \A y : (d # c \/ y # lines[c][1]) => (Contains(lines'[d], y) <=> Contains(lines[d], y))
  <1>1. lines \in [Conn -> Seq(Line)] /\ lines[c] \in Seq(Line)
    BY Known DEF BridgeTyped
  <1>2. lines'[c] = Tail(lines[c]) /\ \A d \in Conn \ {c} : lines'[d] = lines[d]
    BY <1>1
  <1>3. /\ Tail(lines[c]) \in Seq(Line) /\ Len(lines[c]) \in Nat \ {0} /\ Len(Tail(lines[c])) = Len(lines[c]) - 1
        /\ \A i \in 1..Len(Tail(lines[c])) : i + 1 \in 1..Len(lines[c]) /\ Tail(lines[c])[i] = lines[c][i + 1]
        /\ lines[c][1] \in Line /\ 1 \in 1..Len(lines[c])
        /\ \A y : Contains(Tail(lines[c]), y) => Contains(lines[c], y)
        /\ \A y : y # lines[c][1] => (Contains(Tail(lines[c]), y) <=> Contains(lines[c], y))
    BY <1>1, Removed
  <1>4. lines' \in [Conn -> Seq(Line)]
    BY <1>1, <1>3
  <1>5. ASSUME NEW d \in Conn, NEW y
        PROVE  /\ Contains(lines'[d], y) => Contains(lines[d], y)
               /\ (d # c \/ y # lines[c][1]) => (Contains(lines'[d], y) <=> Contains(lines[d], y))
    BY <1>2, <1>3
  <1> QED
    BY <1>2, <1>3, <1>4, <1>5

(* A step of a call in the application: it goes on to work, or it ends.    *)
LEMMA CallMoves ==
    ASSUME BridgeInv, NEW r \in Req, NEW s \in AppStage \ {"none"}, call[r] \notin {"none", "replied"},
           s \in Working => call[r] \in Working,
           call' = [call EXCEPT ![r] = s],
           UNCHANGED <<stdioVars, task, bridgeVars, chanVars, open>>,
           back' = back \/ (back' = back \cup {r} /\ s = "replied")
    PROVE  BridgeInv'
  <1> USE DEF stdioVars, bridgeVars, chanVars
  <1>1. call'[r] = s /\ \A q \in Req \ {r} : call'[q] = call[q]
    BY Known DEF BridgeTyped
  <1>2. BridgeTyped' /\ LinksSound' /\ InputSound' /\ Few(InFlight')
    BY Known, InputKept, InFlightKept DEF BridgeTyped, LinksSound, InFlight
  <1>3. CallSound(r)'
    <2>1. CallSound(r) /\ task[r] \in Sent /\ r \notin reply \cup back
      BY Known DEF CallSound
    <2>2. on[r] \in open => ~ Contains(lines[on[r]], Call(r))
      BY Known, NotInChannels
    <2>3. on[r] \in open /\ server # "exited" /\ s \in Working => Wanted(r)'
      BY <2>1 DEF CallSound, Wanted, Cancel
    <2> QED
      BY <1>1, <2>1, <2>2, <2>3 DEF CallSound, Call
  <1>4. ASSUME NEW q \in Req \ {r} PROVE CallSound(q)'
    BY <1>1, CallKept
  <1>5. ASSUME NEW c \in Conn PROVE LineSound(c)' /\ FewAhead(c)'
    <2>1. \A q \in Req : /\ call'[q] \in Working => call[q] \in Working
                         /\ call[q] = "none" => call'[q] = "none"
      BY <1>1
    <2> QED
      BY <2>1, LineKept, AheadKept
  <1> QED
    BY <1>2, <1>3, <1>4, <1>5 DEF BridgeInv

LEMMA CallStepKeeps ==
    ASSUME BridgeInv, NEW r \in Req,
           Asks(r) \/ Runs(r) \/ Approved(r) \/ Refused(r) \/ Written(r) \/ Finished(r) \/ AppReplies(r)
    PROVE  BridgeInv'
  <1>1. CASE \E s \in {"ask", "write", "reply"} : Becomes(r, s) /\ call[r] \in {"run", "ask", "write"}
    BY <1>1, CallMoves DEF Becomes, AppStage, Working
  <1>2. CASE Finished(r)
    BY <1>2, CallMoves DEF Finished, Becomes, AppStage, Working
  <1>3. CASE AppReplies(r)
    BY <1>3, CallMoves DEF AppReplies, CallAt, AppStage, Working
  <1> QED
    BY <1>1, <1>2, <1>3 DEF Asks, Runs, Approved, Refused, Written, CallAt

LEMMA AppReadsCallKeeps ==
    ASSUME BridgeInv, NEW c \in Conn, AppReadsCall(c)
    PROVE  BridgeInv'
  <1> USE DEF stdioVars, bridgeVars
  <1>1. /\ c \in open /\ lines[c] # <<>> /\ lines[c][1][1] = "call" /\ lines' = [lines EXCEPT ![c] = Tail(@)]
        /\ call' = [call EXCEPT ![lines[c][1][2]] = "run"]
        /\ UNCHANGED <<stdioVars, task, bridgeVars, spilled, filled, open, back>>
    BY DEF AppReadsCall
  <1>2. /\ lines' \in [Conn -> Seq(Line)] /\ Len(lines[c]) \in Nat \ {0}
        /\ \A d \in Conn \ {c} : lines'[d] = lines[d]
        /\ lines[c][1] \in Line /\ 1 \in 1..Len(lines[c]) /\ Len(lines'[c]) = Len(lines[c]) - 1
        /\ \A i \in 1..Len(lines'[c]) : i + 1 \in 1..Len(lines[c]) /\ lines'[c][i] = lines[c][i + 1]
        /\ \A d \in Conn : \A y : Contains(lines'[d], y) => Contains(lines[d], y)
        /\ \A d \in Conn : \A y : (d # c \/ y # lines[c][1]) => (Contains(lines'[d], y) <=> Contains(lines[d], y))
    BY <1>1, LineRead
  <1>3. PICK r \in Req : lines[c][1] = Call(r) /\ lines[c][1][2] = r
    BY <1>1, <1>2, Tags
  <1>4. call' = [call EXCEPT ![r] = "run"] /\ call'[r] = "run" /\ \A q \in Req \ {r} : call'[q] = call[q]
    BY <1>1, <1>3, Known DEF BridgeTyped
  <1>5. /\ on[r] = c /\ call[r] = "none" /\ task[r] \in Sent
        /\ \A j \in 1..Len(lines[c]) : lines[c][j] = Call(r) => j = 1
    BY <1>2, <1>3, Known DEF LineSound
  <1>6. BridgeTyped' /\ LinksSound' /\ InputSound' /\ Few(InFlight')
    <2>1. call' \in [Req -> AppStage]
      BY <1>4, Known DEF BridgeTyped, AppStage
    <2>2. BridgeTyped'
      BY <1>1, <1>2, <2>1, Known DEF BridgeTyped
    <2> QED
      BY <1>1, <2>2, Known, InputKept, InFlightKept DEF LinksSound, InFlight
  <1>7. CallSound(r)'
    <2>1. CallSound(r) /\ r \notin reply \cup back
      BY <1>5, Known DEF CallSound
    <2>2. Contains(lines[c], Call(r)) /\ Call(r) # Cancel(r)
      BY <1>2, <1>3, Tags DEF Contains
    <2>3. server # "exited" => Wanted(r)
      BY <1>1, <1>5, <2>1, <2>2 DEF CallSound
    <2>4. Wanted(r) => Wanted(r)'
      BY <1>1, <1>2, <1>3, <1>5, <2>2 DEF Wanted, Cancel
    <2> QED
      BY <1>1, <1>4, <1>5, <2>1, <2>3, <2>4 DEF CallSound
  <1>8. ASSUME NEW q \in Req \ {r} PROVE CallSound(q)'
    <2>1. lines[c][1] # Cancel(q)
      BY <1>3, Tags
    <2> QED
      BY <1>1, <1>2, <1>4, <2>1, CallKept, Known
  <1>9. ASSUME NEW d \in Conn \ {c} PROVE LineSound(d)' /\ FewAhead(d)'
    <2>1. LineSound(d)'
      <3>1. ~ Contains(lines[d], Call(r))
        <4>1. \A j \in 1..Len(lines[d]) : lines[d][j] = Call(r) => on[r] = d
          BY <1>9, Known DEF LineSound
        <4> QED
          BY <1>5, <1>9, <4>1 DEF Contains
      <3>2. \A j \in 1..Len(lines[d]) : lines[d][j] # Call(r)
        BY <3>1 DEF Contains
      <3>3. LineSound(d) /\ lines'[d] = lines[d] /\ on' = on /\ task' = task /\ current' = current
        BY <1>1, <1>2, <1>9, Known
      <3> QED
        BY <1>4, <3>2, <3>3 DEF LineSound, Call, Cancel
    <2>2. FewAhead(d)'
      <3>1. SUFFICES ASSUME d \in open, ~ filled, NEW i \in 1..Len(lines[d]), lines[d][i][1] = "call"
                     PROVE  Few(Ahead(d, i)')
        BY <1>1, <1>2, <1>9 DEF FewAhead
      <3>2. Few(Ahead(d, i))
        BY <1>9, <3>1, Known DEF FewAhead
      <3>3. ASSUME NEW q \in Req, q \in Ahead(d, i)' PROVE q \in Ahead(d, i)
        <4>1. on[q] = d /\ q # r
          BY <1>1, <1>5, <1>9, <3>3 DEF Ahead
        <4> QED
          BY <1>1, <1>2, <1>4, <1>9, <3>3, <4>1 DEF Ahead, Call, Cancel
      <3> QED
        BY <3>2, <3>3, FewLess DEF Ahead
    <2> QED
      BY <2>1, <2>2
  <1>10. LineSound(c)'
    <2>1. ASSUME NEW i \in 1..Len(lines'[c]), NEW q \in Req
          PROVE  /\ lines'[c][i] \in {Call(q), Cancel(q)} => on[q] = c
                 /\ lines'[c][i] = Cancel(q) => task[q] = "gone"
                 /\ lines'[c][i] = Call(q) =>
                       /\ call'[q] = "none" /\ task[q] \in Sent
                       /\ \A j \in 1..Len(lines'[c]) :
                             /\ lines'[c][j] = Call(q) => i = j
                             /\ lines'[c][j] = Cancel(q) => i < j
      <3>1. i + 1 \in 1..Len(lines[c]) /\ lines'[c][i] = lines[c][i + 1] /\ i + 1 # 1
        BY <1>2
      <3>2. /\ lines[c][i + 1] \in {Call(q), Cancel(q)} => on[q] = c
            /\ lines[c][i + 1] = Cancel(q) => task[q] = "gone"
            /\ lines[c][i + 1] = Call(q) =>
                  /\ call[q] = "none" /\ task[q] \in Sent
                  /\ \A j \in 1..Len(lines[c]) :
                        /\ lines[c][j] = Call(q) => i + 1 = j
                        /\ lines[c][j] = Cancel(q) => i + 1 < j
        BY <3>1, Known DEF LineSound
      <3>3. lines[c][i + 1] = Call(q) => q # r
        BY <1>5, <3>1
      <3>4. ASSUME NEW j \in 1..Len(lines'[c]), lines[c][i + 1] = Call(q)
            PROVE  /\ lines'[c][j] = Call(q) => i = j
                   /\ lines'[c][j] = Cancel(q) => i < j
        <4>1. j + 1 \in 1..Len(lines[c]) /\ lines'[c][j] = lines[c][j + 1]
          BY <1>2
        <4>2. /\ lines[c][j + 1] = Call(q) => i + 1 = j + 1
              /\ lines[c][j + 1] = Cancel(q) => i + 1 < j + 1
          BY <3>2, <3>4, <4>1
        <4> QED
          BY <4>1, <4>2
      <3> QED
        BY <1>4, <3>1, <3>2, <3>3, <3>4
    <2>2. c \in 1..current' /\ on' = on /\ task' = task
      BY <1>1, Known
    <2> QED
      BY <2>1, <2>2 DEF LineSound, Call, Cancel
  <1>11. FewAhead(c)'
    <2>1. SUFFICES ASSUME ~ filled, NEW i \in 1..Len(lines'[c]), lines'[c][i][1] = "call"
                   PROVE  Few(Ahead(c, i)')
      BY <1>1 DEF FewAhead
    <2>2. i + 1 \in 1..Len(lines[c]) /\ lines[c][i + 1][1] = "call" /\ i \in Nat /\ 1 \in 1..(i + 1)
      BY <1>2, <2>1
    <2>3. Few(Ahead(c, i + 1))
      BY <1>1, <2>1, <2>2, Known DEF FewAhead
    <2>4. ASSUME NEW q \in Req, q \in Ahead(c, i)' PROVE q \in Ahead(c, i + 1)
      <3>1. /\ on[q] = c
            /\ call'[q] \in Working \/ \E j \in 1..i : lines'[c][j] = Call(q)
            /\ ~ \E j \in 1..(i - 1) : lines'[c][j] = Cancel(q)
        BY <1>1, <2>4 DEF Ahead, Call, Cancel
      <3>2. ASSUME NEW j \in 1..i PROVE j + 1 \in 1..(i + 1) /\ lines'[c][j] = lines[c][j + 1]
        <4>1. j \in 1..Len(lines'[c]) /\ j + 1 \in 1..(i + 1)
          BY <1>2, <2>1, <2>2
        <4> QED
          BY <1>2, <4>1
      <3>3. call[q] \in Working \/ \E j \in 1..(i + 1) : lines[c][j] = Call(q)
        <4>1. CASE q = r
          BY <1>3, <2>2, <4>1
        <4>2. CASE q # r /\ call'[q] \in Working
          BY <1>4, <4>2
        <4>3. CASE \E j \in 1..i : lines'[c][j] = Call(q)
          BY <3>2, <4>3
        <4> QED
          BY <3>1, <4>1, <4>2, <4>3
      <3>4. ASSUME NEW j \in 1..((i + 1) - 1) PROVE lines[c][j] # Cancel(q)
        <4>1. CASE j = 1
          BY <1>3, <4>1, Tags
        <4>2. CASE j # 1
          <5>1. j - 1 \in 1..(i - 1) /\ j - 1 \in 1..i /\ (j - 1) + 1 = j
            BY <2>2, <4>2
          <5> QED
            BY <3>1, <3>2, <5>1
        <4> QED
          BY <4>1, <4>2
      <3> QED
        BY <3>1, <3>3, <3>4 DEF Ahead
    <2> QED
      BY <2>3, <2>4, FewLess DEF Ahead
  <1>12. ASSUME NEW d \in Conn PROVE LineSound(d)' /\ FewAhead(d)'
    BY <1>9, <1>10, <1>11
  <1> QED
    BY <1>6, <1>7, <1>8, <1>12 DEF BridgeInv

LEMMA AppReadsCancelKeeps ==
    ASSUME BridgeInv, NEW c \in Conn, AppReadsCancel(c)
    PROVE  BridgeInv'
  <1> USE DEF stdioVars, bridgeVars
  <1>1. /\ c \in open /\ lines[c] # <<>> /\ lines[c][1][1] = "cancel" /\ lines' = [lines EXCEPT ![c] = Tail(@)]
        /\ call' = [call EXCEPT ![lines[c][1][2]] = Dropped(@)]
        /\ UNCHANGED <<stdioVars, task, bridgeVars, spilled, filled, open, back>>
    BY DEF AppReadsCancel
  <1>2. /\ lines' \in [Conn -> Seq(Line)] /\ Len(lines[c]) \in Nat \ {0}
        /\ \A d \in Conn \ {c} : lines'[d] = lines[d]
        /\ lines[c][1] \in Line /\ 1 \in 1..Len(lines[c]) /\ Len(lines'[c]) = Len(lines[c]) - 1
        /\ \A i \in 1..Len(lines'[c]) : i + 1 \in 1..Len(lines[c]) /\ lines'[c][i] = lines[c][i + 1]
        /\ \A d \in Conn : \A y : Contains(lines'[d], y) => Contains(lines[d], y)
        /\ \A d \in Conn : \A y : (d # c \/ y # lines[c][1]) => (Contains(lines'[d], y) <=> Contains(lines[d], y))
    BY <1>1, LineRead
  <1>3. PICK r \in Req : lines[c][1] = Cancel(r) /\ lines[c][1][2] = r
    BY <1>1, <1>2, Tags
  <1>4. /\ call' = [call EXCEPT ![r] = Dropped(@)] /\ call'[r] = Dropped(call[r])
        /\ \A q \in Req \ {r} : call'[q] = call[q]
    BY <1>1, <1>3, Known DEF BridgeTyped
  <1>5. /\ on[r] = c /\ task[r] = "gone"
        /\ \A j \in 1..Len(lines[c]) : lines[c][j] # Call(r)
    <2>1. on[r] = c /\ task[r] = "gone"
      BY <1>2, <1>3, Known DEF LineSound
    <2>2. ASSUME NEW j \in 1..Len(lines[c]), lines[c][j] = Call(r) PROVE FALSE
      <3>1. LineSound(c)
        BY Known
      <3>2. \A i \in 1..Len(lines[c]) : \A q \in Req : lines[c][i] = Call(q) =>
                \A k \in 1..Len(lines[c]) : lines[c][k] = Cancel(q) => i < k
        BY <3>1 DEF LineSound
      <3>3. 1 \in 1..Len(lines[c]) /\ lines[c][1] = Cancel(r)
        BY <1>2, <1>3
      <3>4. j < 1
        BY <2>2, <3>2, <3>3, Zenon
      <3> QED
        BY <1>2, <2>2, <3>4
    <2> QED
      BY <2>1, <2>2
  <1>6. /\ call'[r] \in AppStage /\ call'[r] \notin Working /\ (call[r] = "none" <=> call'[r] = "none")
        /\ call[r] = "replied" => call'[r] = "replied"
    BY <1>4, Known DEF BridgeTyped, Dropped, AppStage, Working
  <1>7. BridgeTyped' /\ LinksSound' /\ InputSound' /\ Few(InFlight')
    <2>1. call' \in [Req -> AppStage]
      BY <1>4, <1>6, Known DEF BridgeTyped
    <2>2. BridgeTyped'
      BY <1>1, <1>2, <2>1, Known DEF BridgeTyped
    <2> QED
      BY <1>1, <2>2, Known, InputKept, InFlightKept DEF LinksSound, InFlight
  <1>8. CallSound(r)'
    <2>1. CallSound(r)
      BY Known
    <2>2. ~ Contains(lines'[c], Call(r))
      <3>1. ~ Contains(lines[c], Call(r))
        BY <1>5 DEF Contains
      <3> QED
        BY <1>2, <3>1
    <2> QED
      BY <1>1, <1>5, <1>6, <2>1, <2>2 DEF CallSound, Call
  <1>9. ASSUME NEW q \in Req \ {r} PROVE CallSound(q)'
    <2>1. lines[c][1] # Cancel(q) /\ lines[c][1] # Call(q)
      BY <1>3, <1>9, Tags
    <2>2. on[q] \in open =>
             /\ Contains(lines[on[q]], Cancel(q)) => Contains(lines'[on[q]], Cancel(q))
             /\ Contains(lines'[on[q]], Call(q)) => Contains(lines[on[q]], Call(q))
      BY <1>2, <2>1, Known
    <2> QED
      BY <1>1, <1>4, <2>2, CallKept
  <1>10. \A q \in Req : /\ call'[q] \in Working => call[q] \in Working
                        /\ call[q] = "none" => call'[q] = "none"
    BY <1>4, <1>6
  <1>11. ASSUME NEW d \in Conn \ {c} PROVE LineSound(d)' /\ FewAhead(d)'
    BY <1>1, <1>2, <1>10, <1>11, LineKept, AheadKept
  <1>12. LineSound(c)'
    <2>1. ASSUME NEW i \in 1..Len(lines'[c]), NEW q \in Req
          PROVE  /\ lines'[c][i] \in {Call(q), Cancel(q)} => on[q] = c
                 /\ lines'[c][i] = Cancel(q) => task[q] = "gone"
                 /\ lines'[c][i] = Call(q) =>
                       /\ call'[q] = "none" /\ task[q] \in Sent
                       /\ \A j \in 1..Len(lines'[c]) :
                             /\ lines'[c][j] = Call(q) => i = j
                             /\ lines'[c][j] = Cancel(q) => i < j
      <3>1. i + 1 \in 1..Len(lines[c]) /\ lines'[c][i] = lines[c][i + 1]
        BY <1>2
      <3>2. /\ lines[c][i + 1] \in {Call(q), Cancel(q)} => on[q] = c
            /\ lines[c][i + 1] = Cancel(q) => task[q] = "gone"
            /\ lines[c][i + 1] = Call(q) =>
                  /\ call[q] = "none" /\ task[q] \in Sent
                  /\ \A j \in 1..Len(lines[c]) :
                        /\ lines[c][j] = Call(q) => i + 1 = j
                        /\ lines[c][j] = Cancel(q) => i + 1 < j
        BY <3>1, Known DEF LineSound
      <3>3. ASSUME NEW j \in 1..Len(lines'[c]), lines[c][i + 1] = Call(q)
            PROVE  /\ lines'[c][j] = Call(q) => i = j
                   /\ lines'[c][j] = Cancel(q) => i < j
        <4>1. j + 1 \in 1..Len(lines[c]) /\ lines'[c][j] = lines[c][j + 1]
          BY <1>2
        <4>2. /\ lines[c][j + 1] = Call(q) => i + 1 = j + 1
              /\ lines[c][j + 1] = Cancel(q) => i + 1 < j + 1
          BY <3>2, <3>3, <4>1
        <4> QED
          BY <4>1, <4>2
      <3> QED
        BY <1>10, <3>1, <3>2, <3>3
    <2>2. c \in 1..current' /\ on' = on /\ task' = task
      BY <1>1, Known
    <2> QED
      BY <2>1, <2>2 DEF LineSound, Call, Cancel
  <1>13. FewAhead(c)'
    <2>1. SUFFICES ASSUME ~ filled, NEW i \in 1..Len(lines'[c]), lines'[c][i][1] = "call"
                   PROVE  Few(Ahead(c, i)')
      BY <1>1 DEF FewAhead
    <2>2. i + 1 \in 1..Len(lines[c]) /\ lines[c][i + 1][1] = "call" /\ i \in Nat
      BY <1>2, <2>1
    <2>3. Few(Ahead(c, i + 1))
      BY <1>1, <2>1, <2>2, Known DEF FewAhead
    <2>4. ASSUME NEW q \in Req, q \in Ahead(c, i)' PROVE q \in Ahead(c, i + 1)
      <3>1. /\ on[q] = c
            /\ call'[q] \in Working \/ \E j \in 1..i : lines'[c][j] = Call(q)
            /\ ~ \E j \in 1..(i - 1) : lines'[c][j] = Cancel(q)
        BY <1>1, <2>4 DEF Ahead, Call, Cancel
      <3>2. ASSUME NEW j \in 1..i
            PROVE  j + 1 \in 1..(i + 1) /\ j + 1 \in 1..Len(lines[c]) /\ lines'[c][j] = lines[c][j + 1]
        <4>1. j \in 1..Len(lines'[c]) /\ j + 1 \in 1..(i + 1)
          BY <1>2, <2>1, <2>2
        <4> QED
          BY <1>2, <4>1
      <3>3. q # r
        BY <1>5, <1>6, <3>1, <3>2
      <3>4. call[q] \in Working \/ \E j \in 1..(i + 1) : lines[c][j] = Call(q)
        BY <1>10, <3>1, <3>2
      <3>5. ASSUME NEW j \in 1..((i + 1) - 1) PROVE lines[c][j] # Cancel(q)
        <4>1. CASE j = 1
          BY <1>3, <3>3, <4>1, Tags
        <4>2. CASE j # 1
          <5>1. j - 1 \in 1..(i - 1) /\ j - 1 \in 1..i /\ (j - 1) + 1 = j
            BY <2>2, <4>2
          <5> QED
            BY <3>1, <3>2, <5>1
        <4> QED
          BY <4>1, <4>2
      <3> QED
        BY <3>1, <3>4, <3>5 DEF Ahead
    <2> QED
      BY <2>3, <2>4, FewLess DEF Ahead
  <1>14. ASSUME NEW d \in Conn PROVE LineSound(d)' /\ FewAhead(d)'
    BY <1>11, <1>12, <1>13
  <1> QED
    BY <1>7, <1>8, <1>9, <1>14 DEF BridgeInv

LEMMA AppClosesKeeps ==
    ASSUME BridgeInv, NEW c \in Conn, AppCloses(c)
    PROVE  BridgeInv'
  <1> USE DEF stdioVars, bridgeVars, chanVars
  <1>1. /\ c \in open /\ open' = open \ {c} /\ back' \subseteq back
        /\ call' = [r \in Req |-> IF on[r] = c THEN Dropped(call[r]) ELSE call[r]]
        /\ UNCHANGED <<stdioVars, task, bridgeVars, chanVars>>
    BY DEF AppCloses
  <1>2. ASSUME NEW q \in Req
        PROVE  /\ call'[q] \in AppStage
               /\ call'[q] \in Working => call[q] \in Working
               /\ call[q] = "none" <=> call'[q] = "none"
               /\ call[q] = "replied" => call'[q] = "replied"
               /\ on[q] # c => call'[q] = call[q]
    <2>1. Dropped(call[q]) \in AppStage \ Working /\ (call[q] = "none" <=> Dropped(call[q]) = "none")
          /\ (call[q] = "replied" => Dropped(call[q]) = "replied")
      BY Known DEF BridgeTyped, Dropped, AppStage, Working
    <2> QED
      BY <1>1, <2>1, Known DEF BridgeTyped
  <1>3. BridgeTyped' /\ LinksSound' /\ InputSound' /\ Few(InFlight')
    <2>1. call' \in [Req -> AppStage]
      BY <1>1, <1>2
    <2>2. BridgeTyped'
      BY <1>1, <2>1, Known DEF BridgeTyped
    <2> QED
      BY <1>1, <2>2, Known, InputKept, InFlightKept DEF LinksSound, InFlight
  <1>4. ASSUME NEW q \in Req PROVE CallSound(q)'
    <2>1. CASE on[q] = c
      <3>1. CallSound(q) /\ on'[q] \notin open'
        BY <1>1, <2>1, Known
      <3> QED
        BY <1>1, <1>2, <3>1 DEF CallSound
    <2>2. CASE on[q] # c
      BY <1>1, <1>2, <2>2, CallKept
    <2> QED
      BY <2>1, <2>2
  <1>5. ASSUME NEW d \in Conn PROVE LineSound(d)' /\ FewAhead(d)'
    BY <1>1, <1>2, LineKept, AheadKept
  <1> QED
    BY <1>3, <1>4, <1>5 DEF BridgeInv

-----------------------------------------------------------------------------
(* BridgeInv holds at the start and every step keeps it.                        *)
THEOREM BridgeInductive == BridgeSpec => []BridgeInv
  <1>1. BridgeInit => BridgeInv
    <2> SUFFICES ASSUME BridgeInit PROVE BridgeInv
      OBVIOUS
    <2>1. <<>> \in Seq(Line) /\ Len(<<>>) = 0 /\ \A y : ~ Contains(<<>>, y)
      BY DEF Contains
    <2>2. BridgeTyped
      <3>1. on = [r \in Req |-> 0] /\ current = 0 /\ 0 \in 0..MaxConnections /\ 0 \in 0..0
        BY Constants DEF BridgeInit
      <3>2. on \in [Req -> 0..current] /\ current \in 0..MaxConnections
        BY <3>1
      <3>3. <<>> \in Seq(Line) /\ lines \in [Conn -> Seq(Line)] /\ input \in Seq(Line)
        BY DEF BridgeInit
      <3> QED
        BY <3>2, <3>3 DEF BridgeInit, BridgeTyped, TaskStage, AppStage
    <2>3. InFlight = {}
      BY DEF BridgeInit, InFlight
    <2>4. LinksSound /\ InputSound /\ Few(InFlight)
      BY <2>1, <2>3, FS_EmptySet, Constants DEF BridgeInit, LinksSound, InputSound, Few
    <2>5. ASSUME NEW r \in Req PROVE CallSound(r)
      BY DEF BridgeInit, CallSound
    <2>6. ASSUME NEW c \in Conn PROVE LineSound(c) /\ FewAhead(c)
      BY <2>1 DEF BridgeInit, LineSound, FewAhead
    <2> QED
      BY <2>2, <2>4, <2>5, <2>6 DEF BridgeInv
  <1>2. BridgeInv /\ [BridgeNext]_mcpVars => BridgeInv'
    <2> SUFFICES ASSUME BridgeInv, [BridgeNext]_mcpVars PROVE BridgeInv'
      OBVIOUS
    <2>1. ASSUME NEW r \in Req,
                 \/ Sends(r) \/ Cancels(r) \/ ReadLine(r) \/ ReadCancelled(r) \/ Answer(r)
                 \/ Connect(r) \/ Insert(r) \/ CheckAlive(r) \/ SendCall(r) \/ SendFails(r)
                 \/ Wake(r) \/ DropTask(r) \/ SendSpilled(r) \/ ReadReply(r)
          PROVE  BridgeInv'
      BY <2>1, SendsKeeps, CancelsKeeps, ReadLineKeeps, ReadCancelledKeeps, AnswerKeeps, ConnectKeepsBridge,
         InsertKeeps, CheckAliveKeeps, SendCallKeeps, SendFailsKeeps, WakeKeeps, DropTaskKeeps,
         SendSpilledKeeps, ReadReplyKeeps
    <2>2. ASSUME NEW c \in Conn,
                 CloseMarks(c) \/ CloseClears(c) \/ AppReadsCall(c) \/ AppReadsCancel(c) \/ AppCloses(c)
          PROVE  BridgeInv'
      BY <2>2, CloseMarksKeeps, CloseClearsKeeps, AppReadsCallKeeps, AppReadsCancelKeeps, AppClosesKeeps
    <2>3. CASE UNCHANGED mcpVars
      <3> USE DEF mcpVars, stdioVars, bridgeVars, chanVars, appVars
      <3>1. BridgeTyped' /\ LinksSound' /\ InputSound' /\ Few(InFlight')
        BY <2>3, Known, InputKept, InFlightKept DEF BridgeTyped, LinksSound, InFlight
      <3>2. ASSUME NEW r \in Req PROVE CallSound(r)'
        BY <2>3, CallKept
      <3>3. ASSUME NEW c \in Conn PROVE LineSound(c)' /\ FewAhead(c)'
        BY <2>3, LineKept, AheadKept
      <3> QED
        BY <3>1, <3>2, <3>3 DEF BridgeInv
    <2> QED
      BY <2>1, <2>2, <2>3, CallStepKeeps, DrainKeeps, ExitsKeeps DEF BridgeNext
  <1> QED
    BY <1>1, <1>2, PTL DEF BridgeSpec

(* While no cancellation finds the channel full, the application has a     *)
(* permit for every call it comes to.                                      *)
LEMMA PermitFree == BridgeInv => CancelIsReachable
  <1> SUFFICES ASSUME BridgeInv, ~ filled, NEW c \in open, lines[c] # <<>>, lines[c][1][1] = "call"
               PROVE  Cardinality(Served(c)) < Permits
    BY DEF CancelIsReachable
  <1>1. c \in Conn /\ lines[c] \in Seq(Line)
    BY Known
  <1>2. 1 \in 1..Len(lines[c]) /\ lines[c][1] \in Line
    BY <1>1, Removed
  <1>3. PICK r \in Req : lines[c][1] = Call(r)
    BY <1>2, Tags
  <1>4. on[r] = c /\ call[r] = "none"
    BY <1>1, <1>2, <1>3, Known DEF LineSound
  <1>5. Few(Ahead(c, 1))
    BY <1>1, <1>2, Known DEF FewAhead
  <1>6. r \notin Served(c) /\ Served(c) \cup {r} \subseteq Ahead(c, 1)
    BY <1>3, <1>4 DEF Served, Ahead, Working
  <1>7. Few(Served(c) \cup {r}) /\ Few(Served(c))
    BY <1>5, <1>6, FewLess
  <1>8. Cardinality(Served(c) \cup {r}) = Cardinality(Served(c)) + 1
    BY <1>6, <1>7, FS_AddElement DEF Few
  <1> QED
    BY <1>7, <1>8, FS_CardinalityType, Constants DEF Few

(* No call waits unheard at either end of a connection: a call whose       *)
(* connection has dropped its waiting calls notices before it waits; the   *)
(* person is asked only for a call that is awaited or about to be taken    *)
(* back; and the application comes to every line, for any number of calls, *)
(* permits and connections and any length of the channel.                  *)
THEOREM CallsWatched == BridgeSpec => []CallsAreWatched
  <1>1. BridgeInv => CallsAreWatched
    <2> SUFFICES ASSUME BridgeInv PROVE CallsAreWatched
      OBVIOUS
    <2>1. WaitingIsWatched
      BY Known DEF WaitingIsWatched, CallSound, BridgeTyped
    <2>2. AskedForSomebody
      <3> SUFFICES ASSUME NEW r \in Req, CallAt(r, "ask"), server # "exited"
                   PROVE  \/ r \in pending /\ task[r] = "wait"
                          \/ r \in spilled \/ Contains(lines[on[r]], Cancel(r))
        BY DEF AskedForSomebody
      <3>1. Wanted(r)
        BY Known DEF CallSound, CallAt, Working
      <3> QED
        BY <3>1 DEF Wanted
    <2> QED
      BY <2>1, <2>2, PermitFree DEF CallsAreWatched
  <1> QED
    BY <1>1, BridgeInductive, PTL

(* ------------------------------- approvals ------------------------------- *)
CallStage == {"new", "failing", "reading", "looking", "deciding", "refused", "asking", "waiting",
              "withdrawing", "running", "over", "dropped"}

ApprovalsTyped ==
    /\ calls \in [ToolCall -> CallStage]
    /\ answer \in [ToolCall -> {"yes", "no", "none"}]
    /\ clicked \in [ToolCall -> {"yes", "no", "none"}]
    /\ work \in [ToolCall -> {"none", "run", "log", "done"}]
    /\ entries \in [ToolCall -> Seq({"done", "error", "denied", "withdrawn"})]
    /\ prompts \subseteq ToolCall /\ notes \subseteq ToolCall
    /\ effect \subseteq ToolCall /\ allowed \subseteq ToolCall
    /\ access \in Level /\ changes \in 0..MaxChanges

(* What the person is told was taken is what the call is sent, and only a  *)
(* call that waits for its answer has a prompt, which nobody has answered. *)
Asked(c) ==
    /\ answer[c] = clicked[c]
    /\ c \in prompts => calls[c] \in {"waiting", "withdrawing"} /\ answer[c] = "none"
    /\ calls[c] \in {"new", "looking", "deciding", "asking"} => answer[c] = "none"

(* The work of a call is begun by its permission alone, and the call is    *)
(* waiting for it, or gone; an effect is one of work that has been done.   *)
Worked(c) ==
    /\ work[c] # "none" =>
          /\ calls[c] \in {"running", "over", "dropped"}
          /\ clicked[c] = "yes" \/ c \in allowed
    /\ calls[c] = "running" => work[c] # "none"
    /\ c \in effect => work[c] \in {"log", "done"}

(* A call has one entry at most.  It is either the work that writes it, or *)
(* the end of the call, or the withdrawal of a call that had no work.      *)
Logged(c) ==
    /\ work[c] \in {"run", "log"} => entries[c] = <<>>
    /\ work[c] = "done" => entries[c] = <<"done">>
    /\ work[c] = "none" /\ calls[c] \notin {"over", "dropped"} => entries[c] = <<>>
    /\ Len(entries[c]) < 2
    /\ c \in notes => calls[c] = "dropped" /\ work[c] = "none" /\ entries[c] = <<>>
    /\ calls[c] = "over" => entries[c] # <<>>

CallIsSound(c) == Asked(c) /\ Worked(c) /\ Logged(c)

ApprovalsInv == ApprovalsTyped /\ \A c \in ToolCall : CallIsSound(c)

-----------------------------------------------------------------------------
(* What a step has left alone of a call is as sound as it was; that        *)
(* another command was let run unasked does not matter.                    *)
StillAs(c) ==
    /\ calls'[c] = calls[c] /\ answer'[c] = answer[c] /\ clicked'[c] = clicked[c]
    /\ work'[c] = work[c] /\ entries'[c] = entries[c]
    /\ c \in prompts' <=> c \in prompts
    /\ c \in notes' <=> c \in notes
    /\ c \in effect' <=> c \in effect
    /\ c \in allowed => c \in allowed'

LEMMA Untouched ==
    ASSUME NEW c \in ToolCall, CallIsSound(c), StillAs(c)
    PROVE  CallIsSound(c)'
  BY DEF CallIsSound, Asked, Worked, Logged, StillAs

(* A step of one call is looked at for that call only.                     *)
LEMMA OneCall ==
    ASSUME ApprovalsInv, NEW c \in ToolCall, ApprovalsTyped', CallIsSound(c)',
           \A d \in ToolCall \ {c} : StillAs(d)
    PROVE  ApprovalsInv'
  BY Untouched DEF ApprovalsInv

LEMMA InitApprovals == ApprovalsInit => ApprovalsInv
  BY ApprovalsAssumption
  DEF ApprovalsInit, ApprovalsAssumption, ApprovalsInv, ApprovalsTyped, CallStage, CallIsSound, Asked, Worked, Logged

(* An entry is one more than none.                                         *)
LEMMA OneEntry == \A e \in {"done", "error", "denied", "withdrawn"} : Len(<<e>>) = 1 /\ <<e>> # <<>>
  OBVIOUS

(* The entry an empty log is given.                                        *)
LEMMA FirstEntry ==
    ASSUME ApprovalsTyped, NEW c \in ToolCall, NEW e \in {"done", "error", "denied", "withdrawn"},
           entries[c] = <<>>, Log(c, e)
    PROVE  /\ entries' \in [ToolCall -> Seq({"done", "error", "denied", "withdrawn"})]
           /\ entries'[c] = <<e>>
           /\ \A d \in ToolCall \ {c} : entries'[d] = entries[d]
  BY DEF ApprovalsTyped, Log

-----------------------------------------------------------------------------
(* Every step of a call, and every change of the access.                   *)
LEMMA NextApprovals == ApprovalsInv /\ [ApprovalsNext]_approvalVars => ApprovalsInv'
  <1> SUFFICES ASSUME ApprovalsInv, [ApprovalsNext]_approvalVars PROVE ApprovalsInv'
    OBVIOUS
  <1> USE DEF ApprovalsInv, levelVars, Stage, Goes
  <1>1. ASSUME NEW c \in ToolCall, Begin(c) \/ LookAtFile(c) PROVE ApprovalsInv'
    <2>1. ApprovalsTyped'
      BY <1>1 DEF Begin, LookAtFile, ApprovalsTyped, CallStage
    <2>2. CallIsSound(c)'
      BY <1>1 DEF Begin, LookAtFile, ApprovalsTyped, CallIsSound, Asked, Worked, Logged
    <2>3. \A d \in ToolCall \ {c} : StillAs(d)
      BY <1>1 DEF Begin, LookAtFile, ApprovalsTyped, StillAs
    <2> QED
      BY <2>1, <2>2, <2>3, OneCall
  <1>2. ASSUME NEW c \in ToolCall, Read(c) \/ Fail(c) \/ Refuse(c) PROVE ApprovalsInv'
    <2>1. entries[c] = <<>> /\ c \notin prompts /\ work[c] = "none" /\ c \notin notes
      BY <1>2 DEF Read, Fail, Refuse, CallIsSound, Asked, Worked, Logged, ApprovalsTyped
    <2>2. PICK e \in {"done", "error", "denied"} : Log(c, e)
      BY <1>2 DEF Read, Fail, Refuse
    <2>a. /\ entries' \in [ToolCall -> Seq({"done", "error", "denied", "withdrawn"})]
          /\ entries'[c] = <<e>> /\ \A d \in ToolCall \ {c} : entries'[d] = entries[d]
      BY <2>1, <2>2, FirstEntry
    <2>b. ApprovalsTyped'
      BY <1>2, <2>a DEF Read, Fail, Refuse, ApprovalsTyped, CallStage
    <2>3. ApprovalsTyped' /\ entries'[c] = <<e>> /\ \A d \in ToolCall \ {c} : entries'[d] = entries[d]
      BY <2>a, <2>b
    <2>4. CallIsSound(c)'
      BY <1>2, <2>1, <2>3 DEF Read, Fail, Refuse, ApprovalsTyped, CallIsSound, Asked, Worked, Logged
    <2>5. \A d \in ToolCall \ {c} : StillAs(d)
      BY <1>2, <2>3 DEF Read, Fail, Refuse, ApprovalsTyped, StillAs
    <2> QED
      BY <2>3, <2>4, <2>5, OneCall
  <1>3. ASSUME NEW c \in ToolCall, RunCommand(c) PROVE ApprovalsInv'
    <2>1. PICK risk \in Risk : LET d == Decide(access, risk) IN
             /\ Goes(c, CASE d = "deny" -> "refused" [] d = "ask" -> "asking" [] OTHER -> "running")
             /\ work' = [work EXCEPT ![c] = IF d = "allow" THEN "run" ELSE @]
             /\ allowed' = IF access = "trusted" \/ (access = "auto" /\ risk # "dangerous")
                           THEN allowed \cup {c} ELSE allowed
      BY <1>3 DEF RunCommand
    <2>2. \/ calls'[c] \in {"refused", "asking"} /\ work'[c] = work[c]
          \/ calls'[c] = "running" /\ work'[c] = "run" /\ c \in allowed'
      BY <2>1 DEF Decide, ApprovalsTyped, Level
    <2>3. ApprovalsTyped'
      BY <1>3, <2>1, <2>2 DEF RunCommand, ApprovalsTyped, CallStage, Decide
    <2>4. CallIsSound(c)'
      BY <1>3, <2>2, <2>3 DEF RunCommand, ApprovalsTyped, CallIsSound, Asked, Worked, Logged
    <2>5. \A d \in ToolCall \ {c} : StillAs(d)
      BY <1>3, <2>1 DEF RunCommand, ApprovalsTyped, StillAs
    <2> QED
      BY <2>3, <2>4, <2>5, OneCall
  <1>4. ASSUME NEW c \in ToolCall, Prompt(c) \/ TimeUp(c) \/ Withdraw(c) PROVE ApprovalsInv'
    <2>1. ApprovalsTyped'
      BY <1>4 DEF Prompt, TimeUp, Withdraw, ApprovalsTyped, CallStage
    <2>2. CallIsSound(c)'
      BY <1>4 DEF Prompt, TimeUp, Withdraw, ApprovalsTyped, CallIsSound, Asked, Worked, Logged
    <2>3. \A d \in ToolCall \ {c} : StillAs(d)
      BY <1>4 DEF Prompt, TimeUp, Withdraw, ApprovalsTyped, StillAs
    <2> QED
      BY <2>1, <2>2, <2>3, OneCall
  <1>5. ASSUME NEW c \in ToolCall, NEW a \in {"yes", "no"}, Respond(c, a) PROVE ApprovalsInv'
    <2>1. ApprovalsTyped'
      BY <1>5 DEF Respond, ApprovalsTyped
    <2>2. CallIsSound(c)'
      BY <1>5 DEF Respond, ApprovalsTyped, CallIsSound, Asked, Worked, Logged
    <2>3. \A d \in ToolCall \ {c} : StillAs(d)
      BY <1>5 DEF Respond, ApprovalsTyped, StillAs
    <2> QED
      BY <2>1, <2>2, <2>3, OneCall
  <1>6. ASSUME NEW c \in ToolCall, Answered(c) PROVE ApprovalsInv'
    <2>1. ApprovalsTyped'
      BY <1>6 DEF Answered, ApprovalsTyped, CallStage
    <2>2. CallIsSound(c)'
      BY <1>6 DEF Answered, ApprovalsTyped, CallIsSound, Asked, Worked, Logged
    <2>3. \A d \in ToolCall \ {c} : StillAs(d)
      BY <1>6 DEF Answered, ApprovalsTyped, StillAs
    <2> QED
      BY <2>1, <2>2, <2>3, OneCall
  <1>7. ASSUME NEW c \in ToolCall, Run(c) \/ Return(c) \/ Drop(c) PROVE ApprovalsInv'
    <2>1. ApprovalsTyped'
      BY <1>7 DEF Run, Return, Drop, ApprovalsTyped, CallStage
    <2>2. CallIsSound(c)'
      <3>1. CASE Run(c)
        BY <3>1 DEF Run, ApprovalsTyped, CallIsSound, Asked, Worked, Logged
      <3>2. CASE Return(c)
        BY <3>2, OneEntry DEF Return, ApprovalsTyped, CallIsSound, Asked, Worked, Logged
      <3>3. CASE Drop(c)
        BY <3>3 DEF Drop, Synchronous, ApprovalsTyped, CallIsSound, Asked, Worked, Logged
      <3> QED
        BY <1>7, <3>1, <3>2, <3>3
    <2>3. \A d \in ToolCall \ {c} : StillAs(d)
      BY <1>7 DEF Run, Return, Drop, ApprovalsTyped, StillAs
    <2> QED
      BY <2>1, <2>2, <2>3, OneCall
  <1>8. ASSUME NEW c \in ToolCall, LogWork(c) \/ LogWithdrawn(c) PROVE ApprovalsInv'
    <2>1. entries[c] = <<>>
      BY <1>8 DEF LogWork, LogWithdrawn, CallIsSound, Logged
    <2>2. PICK e \in {"done", "withdrawn"} : Log(c, e) /\ (LogWork(c) => e = "done")
      BY <1>8 DEF LogWork, LogWithdrawn
    <2>3. ApprovalsTyped' /\ entries'[c] = <<e>> /\ \A d \in ToolCall \ {c} : entries'[d] = entries[d]
      BY <1>8, <2>1, <2>2, FirstEntry DEF LogWork, LogWithdrawn, ApprovalsTyped
    <2>4. CallIsSound(c)'
      BY <1>8, <2>2, <2>3 DEF LogWork, LogWithdrawn, ApprovalsTyped, CallIsSound, Asked, Worked, Logged
    <2>5. \A d \in ToolCall \ {c} : StillAs(d)
      BY <1>8, <2>3 DEF LogWork, LogWithdrawn, ApprovalsTyped, StillAs
    <2> QED
      BY <2>3, <2>4, <2>5, OneCall
  <1>9. ASSUME NEW l \in Level, SetAccess(l) PROVE ApprovalsInv'
    <2>1. ApprovalsTyped'
      BY <1>9, ApprovalsAssumption DEF SetAccess, ApprovalsTyped, ApprovalsAssumption
    <2>2. \A d \in ToolCall : StillAs(d)
      BY <1>9 DEF SetAccess, StillAs
    <2> QED
      BY <2>1, <2>2, Untouched
  <1>10. CASE UNCHANGED approvalVars
    <2>1. ApprovalsTyped' /\ \A d \in ToolCall : StillAs(d)
      BY <1>10 DEF approvalVars, ApprovalsTyped, StillAs
    <2> QED
      BY <2>1, Untouched
  <1> QED
    BY <1>1, <1>2, <1>3, <1>4, <1>5, <1>6, <1>7, <1>8, <1>9, <1>10 DEF ApprovalsNext

-----------------------------------------------------------------------------
(* The invariant holds of every behaviour.                                 *)
THEOREM ApprovalsInductive == ApprovalsSpec => []ApprovalsInv
  <1>1. ApprovalsInit => ApprovalsInv
    BY InitApprovals
  <1>2. ApprovalsInv /\ [ApprovalsNext]_approvalVars => ApprovalsInv'
    BY NextApprovals
  <1> QED
    BY <1>1, <1>2, PTL DEF ApprovalsSpec

(* A person allows every write before anything is changed, and a command   *)
(* that runs unasked is one the access lets run: of any number of calls,   *)
(* whichever are dropped while they wait and however often the access is   *)
(* changed in between.                                                     *)
THEOREM OnlyAllowedRuns == ApprovalsSpec => []RunsOnlyIfAllowed
  <1>1. ApprovalsInv => RunsOnlyIfAllowed
    BY DEF ApprovalsInv, ApprovalsTyped, CallIsSound, Worked, RunsOnlyIfAllowed
  <1> QED
    BY <1>1, ApprovalsInductive, PTL

(* The activity log says one thing of a call, and the truth, and a prompt  *)
(* in the window is of a call that waits for it.                           *)
THEOREM LogAndPromptsAreTrue == ApprovalsSpec => []PersonIsToldTheTruth
  <1>1. ASSUME ApprovalsInv, NEW c \in ToolCall
        PROVE  /\ Len(entries[c]) + (IF c \in notes THEN 1 ELSE 0)
                     + (IF work[c] \in {"run", "log"} THEN 1 ELSE 0) < 2
               /\ c \in effect => /\ entries[c] \in {<<>>, <<"done">>}
                                  /\ entries[c] = <<>> => work[c] = "log"
               /\ calls[c] = "over" => entries[c] # <<>>
    <2>1. Len(entries[c]) \in Nat /\ (entries[c] = <<>> => Len(entries[c]) = 0)
      BY <1>1 DEF ApprovalsInv, ApprovalsTyped
    <2>2. Logged(c) /\ Worked(c) /\ work[c] \in {"none", "run", "log", "done"}
      BY <1>1 DEF ApprovalsInv, ApprovalsTyped, CallIsSound
    <2>3. Len(entries[c]) + (IF c \in notes THEN 1 ELSE 0) + (IF work[c] \in {"run", "log"} THEN 1 ELSE 0) < 2
      <3>1. /\ c \in notes => Len(entries[c]) = 0 /\ work[c] = "none"
            /\ work[c] \in {"run", "log"} => Len(entries[c]) = 0 /\ c \notin notes
            /\ Len(entries[c]) < 2
        BY <2>1, <2>2 DEF Logged
      <3>2. CASE c \in notes /\ work[c] \notin {"run", "log"}
        BY <3>1, <3>2
      <3>3. CASE c \notin notes /\ work[c] \in {"run", "log"}
        BY <3>1, <3>3
      <3>4. CASE c \notin notes /\ work[c] \notin {"run", "log"}
        BY <3>1, <3>4, <2>1
      <3> QED
        BY <3>1, <3>2, <3>3, <3>4
    <2>4. c \in effect => entries[c] \in {<<>>, <<"done">>} /\ (entries[c] = <<>> => work[c] = "log")
      BY <2>2, OneEntry DEF Logged, Worked
    <2>5. calls[c] = "over" => entries[c] # <<>>
      BY <2>2 DEF Logged
    <2> QED
      BY <2>3, <2>4, <2>5
  <1>2. ApprovalsInv => LogIsTrue
    BY <1>1 DEF LogIsTrue
  <1>3. ApprovalsInv => PromptsAreWaitedFor
    BY DEF ApprovalsInv, ApprovalsTyped, CallIsSound, Asked, PromptsAreWaitedFor
  <1> QED
    BY <1>2, <1>3, ApprovalsInductive, PTL DEF PersonIsToldTheTruth

(* ----------------------------- Sessions --------------------------------- *)
Stages(op) ==
    CASE op = "none"       -> {"idle"}
      [] op = "connect"    -> {"config", "register"}
      [] op = "disconnect" -> {"dropConfig", "unregister", "stopTarget", "takeDisk", "unmount", "stop"}
      [] op = "unmount"    -> {"takeDisk", "unmount", "stop"}
      [] op = "mount"      -> {"claim", "look", "takeOld", "unmount", "stop", "start", "mountIt", "check",
                               "insert", "release"}
      [] op = "status"     -> {"claim", "takeOld", "unmount", "stop", "release"}
      [] op = "sync"       -> {"startLock", "watch"}
Commands == {"none", "connect", "disconnect", "unmount", "mount", "status", "sync"}
SomeNumber == 0..MaxCommands

SessionsTyped ==
    /\ issued \in 0..MaxCommands
    /\ sessions \in [Id -> Nat] /\ configs \in [Id -> Nat] /\ agents \in [Id -> Nat]
    /\ disks \in [Id -> Nat] /\ volume \in [Id -> Nat]
    /\ mounting \subseteq Id /\ running \subseteq 1..issued
    /\ serves \in [Number -> Nat]
    /\ guard \in SomeNumber /\ latest \in SomeNumber /\ lock \in SomeNumber
    /\ active \in BOOLEAN
    /\ runs \in [Number -> [id : Id \cup {"none"}, at : {"none", "on", "winding", "over"}]]
    /\ cmd \in [Task -> [op : Commands, id : Id \cup {"none"}, at : UNION {Stages(op) : op \in Commands},
                         n : 0..MaxCommands, srv : Nat]]
CommandsSound ==
    \A t \in Task :
        /\ cmd[t].at \in Stages(cmd[t].op)
        /\ cmd[t].op = "none" <=> cmd[t] = Idle
        /\ cmd[t].op # "none" => cmd[t].id \in Id /\ cmd[t].n \in 1..issued
        /\ \A u \in Task : u # t /\ cmd[t].n = cmd[u].n => cmd[t].n = None

(* An id's registrations follow its session, once its commands are through. *)
ConnectedSound ==
    \A t \in Task :
        /\ cmd[t].op = "connect" => sessions[cmd[t].id] = cmd[t].n
        /\ cmd[t].op = "disconnect" /\ cmd[t].id \notin reused => sessions[cmd[t].id] = None
RegisteredSound ==
    \A i \in Id \ reused :
        /\ configs[i] = sessions[i] \/ \E t \in Task : cmd[t].id = i /\ cmd[t].at \in {"config", "dropConfig"}
        /\ agents[i] = sessions[i]
           \/ \E t \in Task : cmd[t].id = i /\ cmd[t].at \in {"config", "register", "dropConfig", "unregister"}

(* A server has one owner: the map of disks, or the command that starts or *)
(* stops it.                                                               *)
Owning   == {"mountIt", "check", "insert", "unmount", "stop"}
Unborn(t) == /\ cmd[t].op = "mount"
             /\ \/ cmd[t].at \in {"claim", "look", "takeOld", "start"}
                \/ cmd[t].at \in {"unmount", "stop"} /\ cmd[t].srv # cmd[t].n
Exclusive(t) == cmd[t].op \in {"mount", "status"} /\ cmd[t].at # "claim"
ServersOwned ==
    /\ \A i \in Id : disks[i] # None => disks[i] \in running /\ \A j \in Id : j # i => disks[j] # disks[i]
    /\ \A t \in Task : cmd[t].at \in Owning =>
          /\ cmd[t].srv \in running
          /\ \A i \in Id : disks[i] # cmd[t].srv
          /\ \A u \in Task : u # t /\ cmd[u].at \in Owning => cmd[u].srv # cmd[t].srv
    /\ \A s \in running : (\E i \in Id : disks[i] = s) \/ \E t \in Task : cmd[t].at \in Owning /\ cmd[t].srv = s
MountsSound ==
    \A t \in Task :
        /\ Unborn(t) => cmd[t].n \notin running
        /\ cmd[t].at \in {"mountIt", "check", "insert"} => cmd[t].srv = cmd[t].n
        /\ Exclusive(t) => cmd[t].id \in mounting /\ \A u \in Task : u # t /\ Exclusive(u) => cmd[u].id # cmd[t].id
        /\ cmd[t].at = "takeOld" \/ (cmd[t].op = "status" /\ cmd[t].at = "claim") => cmd[t].srv # None
        /\ cmd[t].op = "mount" /\ cmd[t].at = "takeOld" => disks[cmd[t].id] \in {None, cmd[t].srv}
        /\ cmd[t].op = "mount" /\ cmd[t].at \in {"unmount", "stop", "start", "mountIt", "check", "insert"} =>
              disks[cmd[t].id] = None
VolumeSound(i) ==
    /\ volume[i] \in {None, disks[i]}
       \/ \E t \in Task : cmd[t].id = i /\ cmd[t].at \in {"check", "insert", "unmount"} /\ cmd[t].srv = volume[i]
    /\ i \notin stolen =>
          /\ disks[i] # None => volume[i] = disks[i]
          /\ \A t \in Task : cmd[t].id = i /\ cmd[t].at \in {"check", "insert"} => volume[i] = cmd[t].srv
VolumesSound == \A i \in Id : VolumeSound(i)

(* A disk serves the driver of its session. *)
ServedSound ==
    /\ \A t \in Task : cmd[t].op = "mount" =>
          /\ serves[cmd[t].n] # None
          /\ cmd[t].id \notin reused => sessions[cmd[t].id] \in {None, serves[cmd[t].n]}
          /\ cmd[t].at = "insert" /\ cmd[t].id \notin late \cup reused => sessions[cmd[t].id] # None
    /\ \A i \in Id \ (late \cup reused) : disks[i] # None =>
          \/ sessions[i] # None /\ serves[disks[i]] = sessions[i]
          \/ \E t \in Task : cmd[t].id = i /\ cmd[t].op = "disconnect"
                             /\ cmd[t].at \in {"dropConfig", "unregister", "stopTarget", "takeDisk"}

(* The run that may still go on is the one the guard would cancel. *)
SyncSound ==
    /\ guard = latest
    /\ lock # None => guard = None /\ ~active
    /\ active => latest # None /\ runs[latest].at \in {"on", "winding"} /\ target = runs[latest].id
    /\ ~active => target = "none"
    /\ \A n \in Number : runs[n].at = "on" => n \in cancelled \/ (active /\ n = guard)
    /\ \A t \in Task : cmd[t].at = "watch" => lock = cmd[t].n

SessionsInv ==
    /\ SessionsTyped /\ CommandsSound /\ ConnectedSound /\ RegisteredSound
    /\ ServersOwned /\ MountsSound /\ VolumesSound /\ ServedSound /\ SyncSound

(* ---- What a step makes of one command ---- *)
AllStages == UNION {Stages(op) : op \in Commands}
CmdSet == [op : Commands, id : Id \cup {"none"}, at : AllStages, n : 0..MaxCommands, srv : Nat]
CommandIs(t, o, i, s, n, v) ==
    /\ cmd' \in [Task -> CmdSet]
    /\ cmd'[t].op = o /\ cmd'[t].id = i /\ cmd'[t].at = s /\ cmd'[t].n = n /\ cmd'[t].srv = v
    /\ \A u \in Task : u # t => cmd'[u] = cmd[u]
RestTyped ==
    /\ issued \in 0..MaxCommands
    /\ sessions \in [Id -> Nat] /\ configs \in [Id -> Nat] /\ agents \in [Id -> Nat]
    /\ disks \in [Id -> Nat] /\ volume \in [Id -> Nat]
    /\ mounting \subseteq Id /\ running \subseteq 1..issued
    /\ serves \in [Number -> Nat]
    /\ guard \in SomeNumber /\ latest \in SomeNumber /\ lock \in SomeNumber
    /\ active \in BOOLEAN
    /\ runs \in [Number -> [id : Id \cup {"none"}, at : {"none", "on", "winding", "over"}]]

LEMMA StagesAre ==
    /\ Stages("none") = {"idle"}
    /\ Stages("connect") = {"config", "register"}
    /\ Stages("disconnect") = {"dropConfig", "unregister", "stopTarget", "takeDisk", "unmount", "stop"}
    /\ Stages("unmount") = {"takeDisk", "unmount", "stop"}
    /\ Stages("mount") = {"claim", "look", "takeOld", "unmount", "stop", "start", "mountIt", "check",
                          "insert", "release"}
    /\ Stages("status") = {"claim", "takeOld", "unmount", "stop", "release"}
    /\ Stages("sync") = {"startLock", "watch"}
  BY DEF Stages

LEMMA StagesListed ==
    AllStages = {"idle", "config", "register", "dropConfig", "unregister", "stopTarget", "takeDisk", "unmount",
                 "stop", "claim", "look", "takeOld", "start", "mountIt", "check", "insert", "release",
                 "startLock", "watch"}
  <1>1. AllStages = Stages("none") \cup Stages("connect") \cup Stages("disconnect") \cup Stages("unmount")
                    \cup Stages("mount") \cup Stages("status") \cup Stages("sync")
    BY DEF AllStages, Commands
  <1> QED
    BY <1>1, StagesAre

LEMMA IdleIs ==
    /\ Idle \in CmdSet
    /\ Idle.op = "none" /\ Idle.id = "none" /\ Idle.at = "idle" /\ Idle.n = None /\ Idle.srv = None
  BY StagesListed, SessionsAssumption DEF Idle, CmdSet, Commands, None, SessionsAssumption

LEMMA CommandFacts ==
    ASSUME SessionsInv, NEW t \in Task
    PROVE  /\ cmd \in [Task -> CmdSet] /\ cmd[t] \in CmdSet /\ RestTyped
           /\ cmd[t].op \in Commands /\ cmd[t].id \in Id \cup {"none"} /\ cmd[t].at \in AllStages
           /\ cmd[t].n \in 0..MaxCommands /\ cmd[t].srv \in Nat
           /\ cmd[t].at \in Stages(cmd[t].op)
           /\ cmd[t].op = "none" <=> cmd[t] = Idle
           /\ cmd[t].op # "none" => cmd[t].id \in Id /\ cmd[t].n \in 1..issued
           /\ \A u \in Task : u # t /\ cmd[t].n = cmd[u].n => cmd[t].n = None
           /\ issued \in 0..MaxCommands
  <1>1. cmd \in [Task -> CmdSet] /\ RestTyped
    BY DEF SessionsInv, SessionsTyped, RestTyped, CmdSet, AllStages
  <1>2. cmd[t] \in CmdSet
    BY <1>1
  <1> QED
    BY <1>1, <1>2 DEF SessionsInv, CommandsSound, CmdSet, RestTyped

(* The operation of a command follows from its stage, where only one has it. *)
LEMMA StageOf ==
    ASSUME SessionsInv, NEW t \in Task
    PROVE  /\ cmd[t].at \in {"config", "register"} => cmd[t].op = "connect"
           /\ cmd[t].at \in {"dropConfig", "unregister", "stopTarget"} => cmd[t].op = "disconnect"
           /\ cmd[t].at = "takeDisk" => cmd[t].op \in {"disconnect", "unmount"}
           /\ cmd[t].at \in {"unmount", "stop"} => cmd[t].op \in {"disconnect", "unmount", "mount", "status"}
           /\ cmd[t].at \in {"claim", "takeOld", "release"} => cmd[t].op \in {"mount", "status"}
           /\ cmd[t].at \in {"look", "start", "mountIt", "check", "insert"} => cmd[t].op = "mount"
           /\ cmd[t].at \in {"startLock", "watch"} => cmd[t].op = "sync"
           /\ cmd[t].at # "idle" => cmd[t].op # "none"
  BY CommandFacts, StagesAre DEF Commands

LEMMA MovesIt ==
    ASSUME cmd \in [Task -> CmdSet], NEW t \in Task, NEW r \in CmdSet, cmd' = [cmd EXCEPT ![t] = r]
    PROVE  CommandIs(t, r.op, r.id, r.at, r.n, r.srv) /\ cmd'[t] = r
  BY DEF CommandIs

LEMMA StepIs ==
    ASSUME SessionsInv, NEW t \in Task, NEW s \in AllStages, Step(t, s)
    PROVE  CommandIs(t, cmd[t].op, cmd[t].id, s, cmd[t].n, cmd[t].srv)
  <1> DEFINE r == [cmd[t] EXCEPT !.at = s]
  <1>1. r \in CmdSet /\ cmd' = [cmd EXCEPT ![t] = r]
    BY CommandFacts DEF CmdSet, Step
  <1>2. r.op = cmd[t].op /\ r.id = cmd[t].id /\ r.at = s /\ r.n = cmd[t].n /\ r.srv = cmd[t].srv
    BY CommandFacts DEF CmdSet
  <1> HIDE DEF r
  <1>3. CommandIs(t, r.op, r.id, r.at, r.n, r.srv)
    BY <1>1, MovesIt, CommandFacts
  <1> QED
    BY <1>2, <1>3

LEMMA StepWithIs ==
    ASSUME SessionsInv, NEW t \in Task, NEW s \in AllStages, NEW v \in Nat,
           cmd' = [cmd EXCEPT ![t].at = s, ![t].srv = v]
    PROVE  CommandIs(t, cmd[t].op, cmd[t].id, s, cmd[t].n, v)
  <1> DEFINE r == [cmd[t] EXCEPT !.at = s, !.srv = v]
  <1>1. r \in CmdSet /\ cmd' = [cmd EXCEPT ![t] = r]
    BY CommandFacts DEF CmdSet
  <1>2. r.op = cmd[t].op /\ r.id = cmd[t].id /\ r.at = s /\ r.n = cmd[t].n /\ r.srv = v
    BY CommandFacts DEF CmdSet
  <1> HIDE DEF r
  <1>3. CommandIs(t, r.op, r.id, r.at, r.n, r.srv)
    BY <1>1, MovesIt, CommandFacts
  <1> QED
    BY <1>2, <1>3

LEMMA FinishIs ==
    ASSUME SessionsInv, NEW t \in Task, Finish(t)
    PROVE  CommandIs(t, "none", "none", "idle", None, None) /\ cmd'[t] = Idle
  <1>1. CommandIs(t, Idle.op, Idle.id, Idle.at, Idle.n, Idle.srv) /\ cmd'[t] = Idle
    BY IdleIs, MovesIt, CommandFacts DEF Finish
  <1> QED
    BY <1>1, IdleIs

LEMMA NewIs ==
    ASSUME SessionsInv, NEW t \in Task, NEW o \in Commands, NEW i \in Id, NEW s \in AllStages, NEW v \in Nat,
           cmd[t] = Idle, issued < MaxCommands, issued' = issued + 1,
           cmd' = [cmd EXCEPT ![t] = [op |-> o, id |-> i, at |-> s, n |-> issued', srv |-> v]]
    PROVE  CommandIs(t, o, i, s, issued + 1, v) /\ issued' \in 1..MaxCommands
  <1> DEFINE r == [op |-> o, id |-> i, at |-> s, n |-> issued', srv |-> v]
  <1>1. issued' \in 1..MaxCommands
    BY CommandFacts, SessionsAssumption DEF SessionsAssumption
  <1>2. r \in CmdSet /\ cmd' = [cmd EXCEPT ![t] = r]
    BY <1>1 DEF CmdSet
  <1>3. r.op = o /\ r.id = i /\ r.at = s /\ r.n = issued + 1 /\ r.srv = v
    OBVIOUS
  <1> HIDE DEF r
  <1>4. CommandIs(t, r.op, r.id, r.at, r.n, r.srv)
    BY <1>2, MovesIt, CommandFacts
  <1> QED
    BY <1>1, <1>3, <1>4

LEMMA IssueIs ==
    ASSUME SessionsInv, NEW t \in Task, NEW o \in Commands, NEW i \in Id, NEW s \in AllStages, Issue(t, o, i, s)
    PROVE  CommandIs(t, o, i, s, issued + 1, None) /\ issued' = issued + 1 /\ issued' \in 1..MaxCommands
           /\ cmd[t] = Idle
  BY NewIs DEF Issue, None

(* ---- The commands stay well formed ---- *)
LEMMA OnSound ==
    ASSUME SessionsInv, NEW t \in Task, NEW s, NEW v, issued' = issued,
           CommandIs(t, cmd[t].op, cmd[t].id, s, cmd[t].n, v), cmd[t].op # "none", s \in Stages(cmd[t].op)
    PROVE  CommandsSound'
  BY CommandFacts, IdleIs DEF CommandIs, CommandsSound

LEMMA OverSound ==
    ASSUME SessionsInv, NEW t \in Task, issued' = issued,
           CommandIs(t, "none", "none", "idle", None, None), cmd'[t] = Idle
    PROVE  CommandsSound'
  BY CommandFacts, StagesAre DEF CommandIs, CommandsSound

LEMMA NewSound ==
    ASSUME SessionsInv, NEW t \in Task, NEW o \in Commands, NEW i \in Id, NEW s, NEW v, issued' = issued + 1,
           CommandIs(t, o, i, s, issued + 1, v), o # "none", s \in Stages(o)
    PROVE  CommandsSound'
  BY CommandFacts, IdleIs DEF CommandIs, CommandsSound

(* ---- What a step elsewhere leaves alone ---- *)
LEMMA RegisteredFrame ==
    ASSUME SessionsInv, UNCHANGED whoVars, NEW t \in Task, NEW o, NEW i, NEW s, NEW n, NEW v,
           CommandIs(t, o, i, s, n, v),
           cmd[t].at \notin {"config", "register", "dropConfig", "unregister"},
           s \notin {"config", "register", "dropConfig", "unregister"},
           o \in {"connect", "disconnect"} => o = cmd[t].op /\ i = cmd[t].id /\ n = cmd[t].n
    PROVE  ConnectedSound' /\ RegisteredSound'
  <1>1. ConnectedSound'
    BY DEF SessionsInv, ConnectedSound, CommandIs, whoVars
  <1>2. RegisteredSound'
    BY DEF SessionsInv, RegisteredSound, CommandIs, whoVars
  <1> QED
    BY <1>1, <1>2

LEMMA DisksFrame ==
    ASSUME SessionsInv, UNCHANGED disksVars, NEW t \in Task, NEW o, NEW i, NEW s, NEW n, NEW v,
           CommandIs(t, o, i, s, n, v), cmd[t].at \notin Owning, s \notin Owning,
           o \notin {"mount", "status"}, s # "takeOld", cmd[t].op \notin {"mount", "status"}
    PROVE  ServersOwned' /\ MountsSound' /\ VolumesSound'
  <1>1. ServersOwned'
    BY DEF SessionsInv, ServersOwned, CommandIs, disksVars
  <1>2. MountsSound'
    BY DEF SessionsInv, MountsSound, Unborn, Exclusive, Owning, CommandIs, disksVars
  <1>3. VolumesSound'
    BY DEF SessionsInv, VolumesSound, VolumeSound, Owning, CommandIs, disksVars
  <1> QED
    BY <1>1, <1>2, <1>3

LEMMA ServedFrame ==
    ASSUME SessionsInv, UNCHANGED <<sessions, reused, late, serves, disks>>,
           NEW t \in Task, NEW o, NEW i, NEW s, NEW n, NEW v, CommandIs(t, o, i, s, n, v),
           o = "mount" => o = cmd[t].op /\ i = cmd[t].id /\ n = cmd[t].n /\ s # "insert",
           cmd[t].op = "disconnect" => cmd[t].at \in {"unmount", "stop"}
                \/ (s \in {"dropConfig", "unregister", "stopTarget", "takeDisk"} /\ o = "disconnect" /\ i = cmd[t].id)
    PROVE  ServedSound'
  BY DEF SessionsInv, ServedSound, CommandIs

LEMMA SyncFrame ==
    ASSUME SessionsInv, UNCHANGED syncVars, NEW t \in Task, NEW o, NEW i, NEW s, NEW n, NEW v,
           CommandIs(t, o, i, s, n, v), s # "watch"
    PROVE  SyncSound'
  BY DEF SessionsInv, SyncSound, CommandIs, syncVars

LEMMA TypedStep ==
    ASSUME SessionsInv, RestTyped', cmd' \in [Task -> CmdSet]
    PROVE  SessionsTyped'
  BY DEF SessionsTyped, RestTyped, CmdSet, AllStages

LEMMA ConnectKeeps ==
    ASSUME SessionsInv, NEW t \in Task, NEW i \in Id, ConnectSession(t, i)
    PROVE  SessionsInv'
  <1>1. CommandIs(t, "connect", i, "config", issued + 1, None) /\ issued' = issued + 1 /\ cmd[t] = Idle
        /\ issued' \in 1..MaxCommands
    BY IssueIs, StagesListed DEF ConnectSession, Commands
  <1>2. /\ sessions[i] = None /\ sessions' = [sessions EXCEPT ![i] = issued']
        /\ (Doing("disconnect", i) \cup Doing("mount", i) # {} => reused' = reused \cup {i})
        /\ reused \subseteq reused' /\ reused' \subseteq reused \cup {i}
        /\ UNCHANGED <<configs, agents, disks, mounting, running, volume, serves, stolen, late>>
        /\ UNCHANGED disksVars /\ UNCHANGED syncVars
    BY DEF ConnectSession, disksVars
  <1>3. SessionsTyped' /\ CommandsSound'
    <2>1. RestTyped'
      BY <1>1, <1>2, CommandFacts DEF RestTyped, syncVars
    <2>2. "connect" \in Commands /\ "config" \in Stages("connect")
      BY StagesAre DEF Commands
    <2>3. CommandsSound'
      BY <1>1, <2>2, NewSound
    <2> QED
      BY <1>1, <2>1, <2>3, TypedStep DEF CommandIs
  <1>4. \A u \in Task : cmd[u].id = i => cmd[u].op # "connect"
    BY <1>2, CommandFacts DEF SessionsInv, ConnectedSound, None
  <1>5. ConnectedSound'
    <2>1. ASSUME NEW u \in Task PROVE
             /\ cmd'[u].op = "connect" => sessions'[cmd'[u].id] = cmd'[u].n
             /\ cmd'[u].op = "disconnect" /\ cmd'[u].id \notin reused' => sessions'[cmd'[u].id] = None
      <3>1. CASE u = t
        BY <1>1, <1>2, <3>1, CommandFacts DEF CommandIs, RestTyped
      <3>2. CASE u # t
        <4>1. cmd'[u] = cmd[u]
          BY <1>1, <3>2 DEF CommandIs
        <4>2. cmd[u].op = "disconnect" /\ cmd[u].id = i => i \in reused'
          BY <1>2 DEF Doing, IdOf
        <4>3. cmd[u].op = "connect" \/ cmd[u].op = "disconnect" => cmd[u].id \in Id
          BY CommandFacts
        <4> QED
          BY <1>2, <1>4, <4>1, <4>2, <4>3, CommandFacts DEF SessionsInv, ConnectedSound, RestTyped
      <3> QED
        BY <3>1, <3>2
    <2> QED
      BY <2>1 DEF ConnectedSound
  <1>6. RegisteredSound'
    <2>1. ASSUME NEW j \in Id \ reused', j # i
          PROVE  /\ configs'[j] = sessions'[j] \/ \E u \in Task : cmd'[u].id = j /\ cmd'[u].at \in {"config", "dropConfig"}
                 /\ agents'[j] = sessions'[j]
                    \/ \E u \in Task : cmd'[u].id = j /\ cmd'[u].at \in {"config", "register", "dropConfig", "unregister"}
      <3>1. j \in Id \ reused /\ sessions'[j] = sessions[j]
        BY <1>2, <2>1, CommandFacts DEF RestTyped
      <3>2. \A u \in Task : cmd[u].at # "idle" => cmd'[u] = cmd[u]
        BY <1>1, IdleIs DEF CommandIs
      <3> QED
        BY <1>2, <3>1, <3>2 DEF SessionsInv, RegisteredSound
    <2>2. \E u \in Task : cmd'[u].id = i /\ cmd'[u].at = "config"
      BY <1>1 DEF CommandIs
    <2> QED
      BY <2>1, <2>2 DEF RegisteredSound
  <1>7. ServersOwned' /\ MountsSound' /\ VolumesSound'
    BY <1>1, <1>2, IdleIs, DisksFrame DEF Owning
  <1>8. ServedSound'
    <2>1. ASSUME NEW u \in Task, cmd'[u].op = "mount"
          PROVE  /\ serves'[cmd'[u].n] # None
                 /\ cmd'[u].id \notin reused' => sessions'[cmd'[u].id] \in {None, serves'[cmd'[u].n]}
                 /\ cmd'[u].at = "insert" /\ cmd'[u].id \notin late' \cup reused' => sessions'[cmd'[u].id] # None
      <3>1. u # t /\ cmd'[u] = cmd[u]
        BY <1>1, <2>1 DEF CommandIs
      <3>2. cmd[u].id = i => i \in reused'
        BY <1>2, <2>1, <3>1 DEF Doing, IdOf
      <3>3. cmd[u].id \in Id
        BY <2>1, <3>1, CommandFacts
      <3>4. cmd[u].id # i => sessions'[cmd[u].id] = sessions[cmd[u].id]
        BY <1>2, <3>3, CommandFacts DEF RestTyped
      <3> QED
        BY <1>2, <2>1, <3>1, <3>2, <3>4 DEF SessionsInv, ServedSound
    <2>2. ASSUME NEW j \in Id \ (late' \cup reused'), disks'[j] # None
          PROVE  \/ sessions'[j] # None /\ serves'[disks'[j]] = sessions'[j]
                 \/ \E u \in Task : cmd'[u].id = j /\ cmd'[u].op = "disconnect"
                        /\ cmd'[u].at \in {"dropConfig", "unregister", "stopTarget", "takeDisk"}
      <3>1. \/ sessions[j] # None /\ serves[disks[j]] = sessions[j]
            \/ \E u \in Task : cmd[u].id = j /\ cmd[u].op = "disconnect"
                   /\ cmd[u].at \in {"dropConfig", "unregister", "stopTarget", "takeDisk"}
        BY <1>2, <2>2 DEF SessionsInv, ServedSound
      <3>2. CASE j = i
        <4>1. PICK u \in Task : cmd[u].id = i /\ cmd[u].op = "disconnect"
          BY <1>2, <3>1, <3>2
        <4>2. i \in reused'
          BY <1>2, <4>1 DEF Doing, IdOf
        <4> QED
          BY <2>2, <3>2, <4>2
      <3>3. CASE j # i
        <4>1. sessions'[j] = sessions[j]
          BY <1>2, <3>3, CommandFacts DEF RestTyped
        <4>2. \A u \in Task : cmd[u].op # "none" => cmd'[u] = cmd[u]
          BY <1>1, IdleIs DEF CommandIs
        <4> QED
          BY <1>2, <3>1, <4>1, <4>2
      <3> QED
        BY <3>2, <3>3
    <2> QED
      BY <2>1, <2>2 DEF ServedSound
  <1>9. SyncSound'
    BY <1>1, <1>2, SyncFrame
  <1> QED
    BY <1>3, <1>5, <1>6, <1>7, <1>8, <1>9 DEF SessionsInv

LEMMA DisconnectKeeps ==
    ASSUME SessionsInv, NEW t \in Task, NEW i \in Id, Disconnect(t, i)
    PROVE  SessionsInv'
  <1>1. CommandIs(t, "disconnect", i, "dropConfig", issued + 1, None) /\ issued' = issued + 1 /\ cmd[t] = Idle
        /\ issued' \in 1..MaxCommands
    BY IssueIs, StagesListed DEF Disconnect, Commands
  <1>2. /\ sessions[i] # None /\ sessions' = [sessions EXCEPT ![i] = None]
        /\ \A u \in Task : cmd[u].op = "connect" => cmd[u].id # i
        /\ \A u \in Task : cmd[u].id = i /\ cmd[u].at = "insert" => i \in late'
        /\ late \subseteq late'
        /\ UNCHANGED <<configs, agents, reused, disks, mounting, running, volume, serves, stolen>>
        /\ UNCHANGED disksVars /\ UNCHANGED syncVars
    BY DEF Disconnect, disksVars, Doing, IdOf
  <1>3. SessionsTyped' /\ CommandsSound'
    <2>1. RestTyped'
      BY <1>1, <1>2, CommandFacts DEF RestTyped, syncVars, None
    <2>2. "disconnect" \in Commands /\ "dropConfig" \in Stages("disconnect")
      BY StagesAre DEF Commands
    <2>3. CommandsSound'
      BY <1>1, <2>2, NewSound
    <2> QED
      BY <1>1, <2>1, <2>3, TypedStep DEF CommandIs
  <1>4. \A j \in Id : sessions'[j] = (IF j = i THEN None ELSE sessions[j])
    BY <1>2, CommandFacts DEF RestTyped
  <1>5. ConnectedSound'
    <2>1. \A u \in Task : cmd[u].op # "none" => cmd[u].id \in Id
      BY CommandFacts
    <2> QED
      BY <1>1, <1>2, <1>4, <2>1 DEF SessionsInv, ConnectedSound, CommandIs
  <1>6. RegisteredSound'
    <2>1. ASSUME NEW j \in Id \ reused', j # i
          PROVE  /\ configs'[j] = sessions'[j] \/ \E u \in Task : cmd'[u].id = j /\ cmd'[u].at \in {"config", "dropConfig"}
                 /\ agents'[j] = sessions'[j]
                    \/ \E u \in Task : cmd'[u].id = j /\ cmd'[u].at \in {"config", "register", "dropConfig", "unregister"}
      <3>1. j \in Id \ reused /\ sessions'[j] = sessions[j]
        BY <1>2, <1>4, <2>1
      <3>2. \A u \in Task : cmd[u].at # "idle" => cmd'[u] = cmd[u]
        BY <1>1, IdleIs DEF CommandIs
      <3> QED
        BY <1>2, <3>1, <3>2 DEF SessionsInv, RegisteredSound
    <2>2. \E u \in Task : cmd'[u].id = i /\ cmd'[u].at = "dropConfig"
      BY <1>1 DEF CommandIs
    <2> QED
      BY <2>1, <2>2 DEF RegisteredSound
  <1>7. ServersOwned' /\ MountsSound' /\ VolumesSound'
    BY <1>1, <1>2, IdleIs, DisksFrame DEF Owning
  <1>8. ServedSound'
    <2>1. ASSUME NEW u \in Task, cmd'[u].op = "mount"
          PROVE  /\ serves'[cmd'[u].n] # None
                 /\ cmd'[u].id \notin reused' => sessions'[cmd'[u].id] \in {None, serves'[cmd'[u].n]}
                 /\ cmd'[u].at = "insert" /\ cmd'[u].id \notin late' \cup reused' => sessions'[cmd'[u].id] # None
      <3>1. u # t /\ cmd'[u] = cmd[u]
        BY <1>1, <2>1 DEF CommandIs
      <3>2. cmd[u].id \in Id
        BY <2>1, <3>1, CommandFacts
      <3> QED
        BY <1>2, <1>4, <2>1, <3>1, <3>2 DEF SessionsInv, ServedSound
    <2>2. ASSUME NEW j \in Id \ (late' \cup reused'), disks'[j] # None
          PROVE  \/ sessions'[j] # None /\ serves'[disks'[j]] = sessions'[j]
                 \/ \E u \in Task : cmd'[u].id = j /\ cmd'[u].op = "disconnect"
                        /\ cmd'[u].at \in {"dropConfig", "unregister", "stopTarget", "takeDisk"}
      <3>1. \/ sessions[j] # None /\ serves[disks[j]] = sessions[j]
            \/ \E u \in Task : cmd[u].id = j /\ cmd[u].op = "disconnect"
                   /\ cmd[u].at \in {"dropConfig", "unregister", "stopTarget", "takeDisk"}
        BY <1>2, <2>2 DEF SessionsInv, ServedSound
      <3>2. CASE j = i
        BY <1>1, <3>2 DEF CommandIs
      <3>3. CASE j # i
        <4>1. \A u \in Task : cmd[u].op # "none" => cmd'[u] = cmd[u]
          BY <1>1, IdleIs DEF CommandIs
        <4> QED
          BY <1>2, <1>4, <3>1, <3>3, <4>1
      <3> QED
        BY <3>2, <3>3
    <2> QED
      BY <2>1, <2>2 DEF ServedSound
  <1>9. SyncSound'
    BY <1>1, <1>2, SyncFrame
  <1> QED
    BY <1>3, <1>5, <1>6, <1>7, <1>8, <1>9 DEF SessionsInv

LEMMA PutConfigKeeps ==
    ASSUME SessionsInv, NEW t \in Task, PutConfig(t)
    PROVE  SessionsInv'
  <1> DEFINE i == cmd[t].id
  <1>1. CommandIs(t, cmd[t].op, cmd[t].id, "register", cmd[t].n, cmd[t].srv)
    BY StepIs, StagesListed DEF PutConfig
  <1>2. cmd[t].at = "config" /\ cmd[t].op = "connect" /\ i \in Id /\ cmd[t].n \in Nat
    BY CommandFacts, StageOf DEF PutConfig, At
  <1>3. /\ configs' = [configs EXCEPT ![i] = cmd[t].n]
        /\ UNCHANGED <<sessions, agents, reused, late, issued, serves, disks>> /\ UNCHANGED disksVars /\ UNCHANGED syncVars
    BY DEF PutConfig, IdOf, disksVars
  <1>4. SessionsTyped' /\ CommandsSound'
    <2>1. RestTyped'
      BY <1>2, <1>3, CommandFacts DEF RestTyped, disksVars, syncVars, None
    <2> QED
      BY <1>1, <1>2, <1>3, <2>1, TypedStep, OnSound, StagesAre DEF CommandIs
  <1>5. ConnectedSound'
    BY <1>1, <1>2, <1>3 DEF SessionsInv, ConnectedSound, CommandIs
  <1>6. RegisteredSound'
    <2>1. i \notin reused => sessions[i] = cmd[t].n
      BY <1>2 DEF SessionsInv, ConnectedSound
    <2>2. configs'[i] = cmd[t].n /\ \A j \in Id : j # i => configs'[j] = configs[j]
      BY <1>2, <1>3, CommandFacts DEF RestTyped
    <2> HIDE DEF i
    <2>3. ASSUME NEW j \in Id \ reused'
          PROVE  /\ configs'[j] = sessions'[j] \/ \E u \in Task : cmd'[u].id = j /\ cmd'[u].at \in {"config", "dropConfig"}
                 /\ agents'[j] = sessions'[j]
                    \/ \E u \in Task : cmd'[u].id = j /\ cmd'[u].at \in {"config", "register", "dropConfig", "unregister"}
      <3>1. /\ configs[j] = sessions[j] \/ \E u \in Task : cmd[u].id = j /\ cmd[u].at \in {"config", "dropConfig"}
            /\ agents[j] = sessions[j]
               \/ \E u \in Task : cmd[u].id = j /\ cmd[u].at \in {"config", "register", "dropConfig", "unregister"}
        BY <1>3, <2>3 DEF SessionsInv, RegisteredSound
      <3>2. \A u \in Task : cmd[u].id # i => cmd'[u] = cmd[u]
        BY <1>1 DEF CommandIs, i
      <3>3. CASE j # i
        BY <1>3, <2>2, <3>1, <3>2, <3>3
      <3>4. CASE j = i
        BY <1>1, <1>2, <1>3, <2>1, <2>2, <2>3, <3>1, <3>4 DEF CommandIs, i
      <3> QED
        BY <3>3, <3>4
    <2> QED
      BY <2>3 DEF RegisteredSound
  <1>7. ServersOwned' /\ MountsSound' /\ VolumesSound'
    BY <1>1, <1>2, <1>3, DisksFrame DEF Owning
  <1>8. ServedSound'
    BY <1>1, <1>2, <1>3, ServedFrame
  <1>9. SyncSound'
    BY <1>1, <1>3, SyncFrame
  <1> QED
    BY <1>4, <1>5, <1>6, <1>7, <1>8, <1>9 DEF SessionsInv

LEMMA RegisterKeeps ==
    ASSUME SessionsInv, NEW t \in Task, Register(t)
    PROVE  SessionsInv'
  <1> DEFINE i == cmd[t].id
  <1>1. CommandIs(t, "none", "none", "idle", None, None) /\ cmd'[t] = Idle
    BY FinishIs DEF Register
  <1>2. cmd[t].at = "register" /\ cmd[t].op = "connect" /\ i \in Id /\ cmd[t].n \in Nat
    BY CommandFacts, StageOf DEF Register, At
  <1>3. /\ agents' = [agents EXCEPT ![i] = cmd[t].n]
        /\ UNCHANGED <<sessions, configs, reused, late, issued, serves, disks>> /\ UNCHANGED disksVars /\ UNCHANGED syncVars
    BY DEF Register, IdOf, disksVars
  <1>4. SessionsTyped' /\ CommandsSound'
    <2>1. RestTyped'
      BY <1>2, <1>3, CommandFacts DEF RestTyped, disksVars, syncVars, None
    <2> QED
      BY <1>1, <1>2, <1>3, <2>1, TypedStep, OverSound, StagesAre DEF CommandIs
  <1>5. ConnectedSound'
    BY <1>1, <1>2, <1>3 DEF SessionsInv, ConnectedSound, CommandIs
  <1>6. RegisteredSound'
    <2>1. i \notin reused => sessions[i] = cmd[t].n
      BY <1>2 DEF SessionsInv, ConnectedSound
    <2>2. agents'[i] = cmd[t].n /\ \A j \in Id : j # i => agents'[j] = agents[j]
      BY <1>2, <1>3, CommandFacts DEF RestTyped
    <2> HIDE DEF i
    <2>3. ASSUME NEW j \in Id \ reused'
          PROVE  /\ configs'[j] = sessions'[j] \/ \E u \in Task : cmd'[u].id = j /\ cmd'[u].at \in {"config", "dropConfig"}
                 /\ agents'[j] = sessions'[j]
                    \/ \E u \in Task : cmd'[u].id = j /\ cmd'[u].at \in {"config", "register", "dropConfig", "unregister"}
      <3>1. /\ configs[j] = sessions[j] \/ \E u \in Task : cmd[u].id = j /\ cmd[u].at \in {"config", "dropConfig"}
            /\ agents[j] = sessions[j]
               \/ \E u \in Task : cmd[u].id = j /\ cmd[u].at \in {"config", "register", "dropConfig", "unregister"}
        BY <1>3, <2>3 DEF SessionsInv, RegisteredSound
      <3>2. \A u \in Task : cmd[u].id # i => cmd'[u] = cmd[u]
        BY <1>1 DEF CommandIs, i
      <3>3. CASE j # i
        BY <1>3, <2>2, <3>1, <3>2, <3>3
      <3>4. CASE j = i
        BY <1>1, <1>2, <1>3, <2>1, <2>2, <2>3, <3>1, <3>4 DEF CommandIs, i
      <3> QED
        BY <3>3, <3>4
    <2> QED
      BY <2>3 DEF RegisteredSound
  <1>7. ServersOwned' /\ MountsSound' /\ VolumesSound'
    BY <1>1, <1>2, <1>3, DisksFrame DEF Owning
  <1>8. ServedSound'
    BY <1>1, <1>2, <1>3, ServedFrame
  <1>9. SyncSound'
    BY <1>1, <1>3, SyncFrame
  <1> QED
    BY <1>4, <1>5, <1>6, <1>7, <1>8, <1>9 DEF SessionsInv

LEMMA DropConfigKeeps ==
    ASSUME SessionsInv, NEW t \in Task, DropConfig(t)
    PROVE  SessionsInv'
  <1> DEFINE i == cmd[t].id
  <1>1. CommandIs(t, cmd[t].op, cmd[t].id, "unregister", cmd[t].n, cmd[t].srv)
    BY StepIs, StagesListed DEF DropConfig
  <1>2. cmd[t].at = "dropConfig" /\ cmd[t].op = "disconnect" /\ i \in Id /\ cmd[t].n \in Nat
    BY CommandFacts, StageOf DEF DropConfig, At
  <1>3. /\ configs' = [configs EXCEPT ![i] = None]
        /\ UNCHANGED <<sessions, agents, reused, late, issued, serves, disks>> /\ UNCHANGED disksVars /\ UNCHANGED syncVars
    BY DEF DropConfig, IdOf, disksVars
  <1>4. SessionsTyped' /\ CommandsSound'
    <2>1. RestTyped'
      BY <1>2, <1>3, CommandFacts DEF RestTyped, disksVars, syncVars, None
    <2> QED
      BY <1>1, <1>2, <1>3, <2>1, TypedStep, OnSound, StagesAre DEF CommandIs
  <1>5. ConnectedSound'
    BY <1>1, <1>2, <1>3 DEF SessionsInv, ConnectedSound, CommandIs
  <1>6. RegisteredSound'
    <2>1. i \notin reused => sessions[i] = None
      BY <1>2 DEF SessionsInv, ConnectedSound
    <2>2. configs'[i] = None /\ \A j \in Id : j # i => configs'[j] = configs[j]
      BY <1>2, <1>3, CommandFacts DEF RestTyped
    <2> HIDE DEF i
    <2>3. ASSUME NEW j \in Id \ reused'
          PROVE  /\ configs'[j] = sessions'[j] \/ \E u \in Task : cmd'[u].id = j /\ cmd'[u].at \in {"config", "dropConfig"}
                 /\ agents'[j] = sessions'[j]
                    \/ \E u \in Task : cmd'[u].id = j /\ cmd'[u].at \in {"config", "register", "dropConfig", "unregister"}
      <3>1. /\ configs[j] = sessions[j] \/ \E u \in Task : cmd[u].id = j /\ cmd[u].at \in {"config", "dropConfig"}
            /\ agents[j] = sessions[j]
               \/ \E u \in Task : cmd[u].id = j /\ cmd[u].at \in {"config", "register", "dropConfig", "unregister"}
        BY <1>3, <2>3 DEF SessionsInv, RegisteredSound
      <3>2. \A u \in Task : cmd[u].id # i => cmd'[u] = cmd[u]
        BY <1>1 DEF CommandIs, i
      <3>3. CASE j # i
        BY <1>3, <2>2, <3>1, <3>2, <3>3
      <3>4. CASE j = i
        BY <1>1, <1>2, <1>3, <2>1, <2>2, <2>3, <3>1, <3>4 DEF CommandIs, i
      <3> QED
        BY <3>3, <3>4
    <2> QED
      BY <2>3 DEF RegisteredSound
  <1>7. ServersOwned' /\ MountsSound' /\ VolumesSound'
    BY <1>1, <1>2, <1>3, DisksFrame DEF Owning
  <1>8. ServedSound'
    BY <1>1, <1>2, <1>3, ServedFrame
  <1>9. SyncSound'
    BY <1>1, <1>3, SyncFrame
  <1> QED
    BY <1>4, <1>5, <1>6, <1>7, <1>8, <1>9 DEF SessionsInv

LEMMA UnregisterKeeps ==
    ASSUME SessionsInv, NEW t \in Task, Unregister(t)
    PROVE  SessionsInv'
  <1> DEFINE i == cmd[t].id
  <1>1. CommandIs(t, cmd[t].op, cmd[t].id, "stopTarget", cmd[t].n, cmd[t].srv)
    BY StepIs, StagesListed DEF Unregister
  <1>2. cmd[t].at = "unregister" /\ cmd[t].op = "disconnect" /\ i \in Id /\ cmd[t].n \in Nat
    BY CommandFacts, StageOf DEF Unregister, At
  <1>3. /\ agents' = [agents EXCEPT ![i] = None]
        /\ UNCHANGED <<sessions, configs, reused, late, issued, serves, disks>> /\ UNCHANGED disksVars /\ UNCHANGED syncVars
    BY DEF Unregister, IdOf, disksVars
  <1>4. SessionsTyped' /\ CommandsSound'
    <2>1. RestTyped'
      BY <1>2, <1>3, CommandFacts DEF RestTyped, disksVars, syncVars, None
    <2> QED
      BY <1>1, <1>2, <1>3, <2>1, TypedStep, OnSound, StagesAre DEF CommandIs
  <1>5. ConnectedSound'
    BY <1>1, <1>2, <1>3 DEF SessionsInv, ConnectedSound, CommandIs
  <1>6. RegisteredSound'
    <2>1. i \notin reused => sessions[i] = None
      BY <1>2 DEF SessionsInv, ConnectedSound
    <2>2. agents'[i] = None /\ \A j \in Id : j # i => agents'[j] = agents[j]
      BY <1>2, <1>3, CommandFacts DEF RestTyped
    <2> HIDE DEF i
    <2>3. ASSUME NEW j \in Id \ reused'
          PROVE  /\ configs'[j] = sessions'[j] \/ \E u \in Task : cmd'[u].id = j /\ cmd'[u].at \in {"config", "dropConfig"}
                 /\ agents'[j] = sessions'[j]
                    \/ \E u \in Task : cmd'[u].id = j /\ cmd'[u].at \in {"config", "register", "dropConfig", "unregister"}
      <3>1. /\ configs[j] = sessions[j] \/ \E u \in Task : cmd[u].id = j /\ cmd[u].at \in {"config", "dropConfig"}
            /\ agents[j] = sessions[j]
               \/ \E u \in Task : cmd[u].id = j /\ cmd[u].at \in {"config", "register", "dropConfig", "unregister"}
        BY <1>3, <2>3 DEF SessionsInv, RegisteredSound
      <3>2. \A u \in Task : cmd[u].id # i => cmd'[u] = cmd[u]
        BY <1>1 DEF CommandIs, i
      <3>3. CASE j # i
        BY <1>3, <2>2, <3>1, <3>2, <3>3
      <3>4. CASE j = i
        BY <1>1, <1>2, <1>3, <2>1, <2>2, <2>3, <3>1, <3>4 DEF CommandIs, i
      <3> QED
        BY <3>3, <3>4
    <2> QED
      BY <2>3 DEF RegisteredSound
  <1>7. ServersOwned' /\ MountsSound' /\ VolumesSound'
    BY <1>1, <1>2, <1>3, DisksFrame DEF Owning
  <1>8. ServedSound'
    BY <1>1, <1>2, <1>3, ServedFrame
  <1>9. SyncSound'
    BY <1>1, <1>3, SyncFrame
  <1> QED
    BY <1>4, <1>5, <1>6, <1>7, <1>8, <1>9 DEF SessionsInv

LEMMA StopsSync ==
    ASSUME SessionsInv, StopSync, runs' = runs, NEW l \in Nat, lock' = l,
           \A u \in Task : cmd'[u].at = "watch" => l = cmd'[u].n
    PROVE  SyncSound'
  <1>1. guard' = None /\ latest' = None /\ active' = FALSE /\ target' = "none"
        /\ cancelled \subseteq cancelled' /\ (guard # None => guard \in cancelled')
    BY DEF StopSync
  <1>2. \A n \in Number : runs[n].at = "on" => n \in cancelled \/ (active /\ n = guard)
    BY DEF SessionsInv, SyncSound
  <1>3. \A n \in Number : n # None
    BY SessionsAssumption DEF SessionsAssumption, Number, None
  <1> QED
    BY <1>1, <1>2, <1>3 DEF SyncSound

LEMMA LockedOut ==
    ASSUME SessionsInv, lock = None
    PROVE  \A u \in Task : cmd[u].at # "watch"
  <1> SUFFICES ASSUME NEW u \in Task, cmd[u].at = "watch" PROVE FALSE
    OBVIOUS
  <1>1. cmd[u].n = None
    BY DEF SessionsInv, SyncSound
  <1>2. cmd[u].op # "none"
    BY StageOf
  <1> QED
    BY <1>1, <1>2, CommandFacts DEF None

LEMMA SyncTyped ==
    ASSUME SessionsInv, StopSync \/ UNCHANGED <<guard, latest, active, target>>
    PROVE  guard' \in SomeNumber /\ latest' \in SomeNumber /\ active' \in BOOLEAN
  <1>1. CASE StopSync
    <2>1. None \in SomeNumber
      BY SessionsAssumption DEF SessionsAssumption, SomeNumber, None
    <2>2. guard' = None /\ latest' = None /\ active' = FALSE
      BY <1>1 DEF StopSync
    <2> QED
      BY <2>1, <2>2
  <1>2. CASE UNCHANGED <<guard, latest, active, target>>
    BY <1>2, CommandFacts DEF SessionsInv, SessionsTyped
  <1> QED
    BY <1>1, <1>2

LEMMA StopIfTargetsKeeps ==
    ASSUME SessionsInv, NEW t \in Task, StopIfTargets(t)
    PROVE  SessionsInv'
  <1>1. CommandIs(t, cmd[t].op, cmd[t].id, "takeDisk", cmd[t].n, cmd[t].srv)
    BY StepIs, StagesListed DEF StopIfTargets
  <1>2. cmd[t].at = "stopTarget" /\ cmd[t].op = "disconnect" /\ lock = None
    BY StageOf DEF StopIfTargets, At
  <1>3. /\ UNCHANGED <<whoVars, disksVars, issued, late>> /\ UNCHANGED <<sessions, reused, serves, disks, late, issued>>
        /\ UNCHANGED whoVars /\ UNCHANGED disksVars /\ lock' = lock /\ runs' = runs
    BY DEF StopIfTargets, whoVars, disksVars
  <1>4. StopSync \/ UNCHANGED <<guard, latest, active, target, cancelled>>
    BY DEF StopIfTargets
  <1>5. SessionsTyped' /\ CommandsSound'
    <2>1. RestTyped'
      BY <1>3, <1>4, CommandFacts, SyncTyped DEF RestTyped, whoVars, disksVars
    <2>2. CommandsSound'
      BY <1>1, <1>2, <1>3, OnSound, StagesAre
    <2> QED
      BY <1>1, <2>1, <2>2, TypedStep DEF CommandIs
  <1>6. ConnectedSound' /\ RegisteredSound'
    BY <1>1, <1>2, <1>3, RegisteredFrame
  <1>7. ServersOwned' /\ MountsSound' /\ VolumesSound'
    BY <1>1, <1>2, <1>3, DisksFrame DEF Owning
  <1>8. ServedSound'
    BY <1>1, <1>2, <1>3, ServedFrame
  <1>9. SyncSound'
    <2>1. \A u \in Task : cmd'[u].at # "watch"
      BY <1>1, <1>2, LockedOut DEF CommandIs
    <2>2. CASE StopSync
      BY <1>2, <1>3, <2>1, <2>2, StopsSync DEF None
    <2>3. CASE UNCHANGED <<guard, latest, active, target, cancelled>>
      BY <1>1, <1>3, <2>3, SyncFrame DEF syncVars
    <2> QED
      BY <1>4, <2>2, <2>3
  <1> QED
    BY <1>5, <1>6, <1>7, <1>8, <1>9 DEF SessionsInv

LEMMA SyncCommandKeeps ==
    ASSUME SessionsInv, NEW t \in Task, NEW i \in Id, SyncCommand(t, i)
    PROVE  SessionsInv'
  <1>1. CommandIs(t, "sync", i, "startLock", issued + 1, None) /\ issued' = issued + 1 /\ cmd[t] = Idle
        /\ issued' \in 1..MaxCommands
    BY IssueIs, StagesListed DEF SyncCommand, Commands
  <1>2. UNCHANGED whoVars /\ UNCHANGED disksVars /\ UNCHANGED syncVars /\ UNCHANGED <<sessions, reused, serves, disks, late>>
    BY DEF SyncCommand, whoVars, disksVars
  <1>3. SessionsTyped' /\ CommandsSound'
    <2>1. RestTyped'
      BY <1>1, <1>2, CommandFacts DEF RestTyped, whoVars, disksVars, syncVars
    <2>2. "sync" \in Commands /\ "startLock" \in Stages("sync")
      BY StagesAre DEF Commands
    <2>3. CommandsSound'
      BY <1>1, <2>2, NewSound
    <2> QED
      BY <1>1, <2>1, <2>3, TypedStep DEF CommandIs
  <1>4. ConnectedSound' /\ RegisteredSound'
    BY <1>1, <1>2, IdleIs, RegisteredFrame
  <1>5. ServersOwned' /\ MountsSound' /\ VolumesSound'
    BY <1>1, <1>2, IdleIs, DisksFrame DEF Owning
  <1>6. ServedSound'
    BY <1>1, <1>2, IdleIs, ServedFrame
  <1>7. SyncSound'
    BY <1>1, <1>2, SyncFrame
  <1> QED
    BY <1>3, <1>4, <1>5, <1>6, <1>7 DEF SessionsInv

LEMMA StartLockKeeps ==
    ASSUME SessionsInv, NEW t \in Task, StartLock(t)
    PROVE  SessionsInv'
  <1>1. CommandIs(t, cmd[t].op, cmd[t].id, "watch", cmd[t].n, cmd[t].srv)
    BY StepIs, StagesListed DEF StartLock
  <1>2. cmd[t].at = "startLock" /\ cmd[t].op = "sync" /\ lock = None /\ lock' = cmd[t].n
        /\ cmd[t].n \in 0..MaxCommands /\ cmd[t].n \in Nat
    BY StageOf, CommandFacts, SessionsAssumption DEF StartLock, At, SessionsAssumption
  <1>3. /\ UNCHANGED whoVars /\ UNCHANGED disksVars /\ runs' = runs
        /\ UNCHANGED <<sessions, reused, serves, disks, late, issued>>
    BY DEF StartLock, whoVars, disksVars
  <1>4. StopSync \/ (guard = None /\ ~active /\ UNCHANGED <<guard, latest, active, target, cancelled>>)
    BY DEF StartLock
  <1>5. SessionsTyped' /\ CommandsSound'
    <2>1. RestTyped'
      BY <1>2, <1>3, <1>4, CommandFacts, SyncTyped DEF RestTyped, whoVars, disksVars, SomeNumber
    <2>2. CommandsSound'
      BY <1>1, <1>2, <1>3, OnSound, StagesAre
    <2> QED
      BY <1>1, <2>1, <2>2, TypedStep DEF CommandIs
  <1>6. ConnectedSound' /\ RegisteredSound'
    BY <1>1, <1>2, <1>3, RegisteredFrame
  <1>7. ServersOwned' /\ MountsSound' /\ VolumesSound'
    BY <1>1, <1>2, <1>3, DisksFrame DEF Owning
  <1>8. ServedSound'
    BY <1>1, <1>2, <1>3, ServedFrame
  <1>9. SyncSound'
    <2>1. \A u \in Task : cmd'[u].at = "watch" => lock' = cmd'[u].n
      BY <1>1, <1>2, LockedOut DEF CommandIs
    <2>2. CASE StopSync
      BY <1>2, <1>3, <2>1, <2>2, StopsSync
    <2>3. CASE guard = None /\ ~active /\ UNCHANGED <<guard, latest, active, target, cancelled>>
      BY <1>3, <2>1, <2>3 DEF SessionsInv, SyncSound
    <2> QED
      BY <1>4, <2>2, <2>3
  <1> QED
    BY <1>5, <1>6, <1>7, <1>8, <1>9 DEF SessionsInv

LEMMA WatchKeeps ==
    ASSUME SessionsInv, NEW t \in Task, Watch(t)
    PROVE  SessionsInv'
  <1> DEFINE n == cmd[t].n
  <1>1. CommandIs(t, "none", "none", "idle", None, None) /\ cmd'[t] = Idle
    BY FinishIs DEF Watch
  <1>2. cmd[t].at = "watch" /\ cmd[t].op = "sync" /\ lock = n /\ n \in 1..issued /\ issued \in 0..MaxCommands
        /\ cmd[t].id \in Id
    BY StageOf, CommandFacts DEF Watch, At, SessionsInv, SyncSound
  <1>3. /\ UNCHANGED whoVars /\ UNCHANGED disksVars /\ lock' = None /\ cancelled' = cancelled
        /\ UNCHANGED <<sessions, reused, serves, disks, late, issued>>
    BY DEF Watch, whoVars, disksVars
  <1>4. n # None /\ n \in Number /\ n \in SomeNumber
    BY <1>2, SessionsAssumption DEF SessionsAssumption, Number, SomeNumber, None
  <1>5. guard = None /\ ~active /\ target = "none" /\ guard = latest
    BY <1>2, <1>4 DEF SessionsInv, SyncSound
  <1>6. \/ /\ guard' = n /\ latest' = n /\ active' = TRUE /\ target' = cmd[t].id
           /\ runs' = [runs EXCEPT ![n] = [id |-> cmd[t].id, at |-> "on"]]
        \/ UNCHANGED <<guard, latest, active, target, runs>>
    BY DEF Watch, IdOf
  <1>7. SessionsTyped' /\ CommandsSound'
    <2>1. guard' \in SomeNumber /\ latest' \in SomeNumber /\ active' \in BOOLEAN
      BY <1>4, <1>6, CommandFacts DEF RestTyped
    <2>2. runs' \in [Number -> [id : Id \cup {"none"}, at : {"none", "on", "winding", "over"}]]
      BY <1>2, <1>6, CommandFacts DEF RestTyped
    <2>3. None \in SomeNumber
      BY SessionsAssumption DEF SessionsAssumption, SomeNumber, None
    <2>4. RestTyped'
      BY <1>3, <2>1, <2>2, <2>3, CommandFacts DEF RestTyped, whoVars, disksVars
    <2>5. CommandsSound'
      BY <1>1, <1>3, OverSound
    <2> QED
      BY <1>1, <2>4, <2>5, TypedStep DEF CommandIs
  <1>8. ConnectedSound' /\ RegisteredSound'
    BY <1>1, <1>2, <1>3, RegisteredFrame
  <1>9. ServersOwned' /\ MountsSound' /\ VolumesSound'
    BY <1>1, <1>2, <1>3, DisksFrame DEF Owning
  <1>10. ServedSound'
    BY <1>1, <1>2, <1>3, ServedFrame
  <1>11. SyncSound'
    <2> HIDE DEF n
    <2>1. \A u \in Task : cmd'[u].at # "watch"
      <3>1. ASSUME NEW u \in Task, u # t, cmd[u].at = "watch" PROVE FALSE
        <4>1. cmd[u].n = cmd[t].n
          BY <1>2, <3>1 DEF SessionsInv, SyncSound, n
        <4> QED
          BY <1>4, <3>1, <4>1, CommandFacts DEF n
      <3> QED
        BY <1>1, <3>1 DEF CommandIs
    <2>2. CASE UNCHANGED <<guard, latest, active, target, runs>>
      BY <1>3, <1>5, <2>1, <2>2 DEF SessionsInv, SyncSound
    <2>3. CASE /\ guard' = n /\ latest' = n /\ active' = TRUE /\ target' = cmd[t].id
               /\ runs' = [runs EXCEPT ![n] = [id |-> cmd[t].id, at |-> "on"]]
      <3>1. runs'[n].at = "on" /\ runs'[n].id = cmd[t].id /\ \A m \in Number : m # n => runs'[m] = runs[m]
        BY <1>4, <2>3, CommandFacts DEF RestTyped
      <3>2. \A m \in Number : runs[m].at = "on" => m \in cancelled
        BY <1>5 DEF SessionsInv, SyncSound
      <3> QED
        BY <1>3, <1>4, <2>1, <2>3, <3>1, <3>2 DEF SyncSound
    <2> QED
      BY <1>6, <2>2, <2>3 DEF n
  <1> QED
    BY <1>7, <1>8, <1>9, <1>10, <1>11 DEF SessionsInv

(* What belongs to no command leaves all but the disks or the runs alone. *)
LEMMA AloneKeeps ==
    ASSUME SessionsInv, UNCHANGED whoVars, UNCHANGED <<disks, mounting, running, serves, late, cmd>>,
           issued' \in issued..MaxCommands, RestTyped', VolumesSound', SyncSound'
    PROVE  SessionsInv'
  <1>1. UNCHANGED <<sessions, configs, agents, reused>> /\ cmd \in [Task -> CmdSet]
    BY DEF whoVars, SessionsInv, SessionsTyped, CmdSet, AllStages
  <1>2. SessionsTyped'
    BY <1>1, TypedStep
  <1>3. CommandsSound'
    <2>1. issued \in Nat /\ issued' \in Nat /\ issued <= issued'
      BY SessionsAssumption DEF SessionsInv, SessionsTyped, SessionsAssumption
    <2> QED
      BY <2>1 DEF SessionsInv, CommandsSound
  <1>4. ConnectedSound' /\ RegisteredSound'
    BY <1>1 DEF SessionsInv, ConnectedSound, RegisteredSound
  <1>5. ServersOwned' /\ MountsSound'
    BY DEF SessionsInv, ServersOwned, MountsSound, Unborn, Exclusive
  <1>6. ServedSound'
    BY <1>1 DEF SessionsInv, ServedSound
  <1> QED
    BY <1>2, <1>3, <1>4, <1>5, <1>6 DEF SessionsInv

LEMMA RestFacts == SessionsInv => RestTyped /\ cmd \in [Task -> CmdSet]
  BY DEF SessionsInv, SessionsTyped, RestTyped, CmdSet, AllStages

LEMMA StopCommandKeeps ==
    ASSUME SessionsInv, NEW t \in Task, StopCommand(t)
    PROVE  SessionsInv'
  <1>1. /\ UNCHANGED whoVars /\ UNCHANGED disksVars /\ UNCHANGED <<late, cmd>> /\ UNCHANGED <<runs, lock>>
        /\ lock = None /\ issued < MaxCommands /\ issued' = issued + 1 /\ StopSync
    BY DEF StopCommand
  <1>2. issued' \in issued..MaxCommands /\ issued' \in 0..MaxCommands /\ 1..issued \subseteq 1..issued'
    BY <1>1, RestFacts, SessionsAssumption DEF RestTyped, SessionsAssumption
  <1>3. RestTyped'
    BY <1>1, <1>2, RestFacts, SyncTyped DEF RestTyped, whoVars, disksVars
  <1>4. VolumesSound'
    BY <1>1 DEF SessionsInv, VolumesSound, VolumeSound, disksVars
  <1>5. SyncSound'
    BY <1>1, LockedOut, StopsSync DEF None
  <1>6. UNCHANGED <<disks, mounting, running, serves, late, cmd>>
    BY <1>1 DEF disksVars
  <1> QED
    BY <1>1, <1>2, <1>3, <1>4, <1>5, <1>6, AloneKeeps

LEMMA RunEndsKeeps ==
    ASSUME SessionsInv, NEW n \in Number, RunEnds(n)
    PROVE  SessionsInv'
  <1>1. /\ UNCHANGED whoVars /\ UNCHANGED disksVars /\ UNCHANGED <<late, cmd, issued>>
        /\ UNCHANGED <<guard, lock, latest, active, target, cancelled>>
        /\ runs' = [runs EXCEPT ![n].at = "winding"] /\ runs[n].at = "on"
    BY DEF RunEnds
  <1>2. /\ runs' \in [Number -> [id : Id \cup {"none"}, at : {"none", "on", "winding", "over"}]]
        /\ runs'[n].at = "winding" /\ runs'[n].id = runs[n].id /\ \A m \in Number : m # n => runs'[m] = runs[m]
    BY <1>1, RestFacts DEF RestTyped
  <1>3. RestTyped'
    BY <1>1, <1>2, RestFacts DEF RestTyped, whoVars, disksVars
  <1>4. VolumesSound'
    BY <1>1 DEF SessionsInv, VolumesSound, VolumeSound, disksVars
  <1>5. SyncSound'
    <2>1. latest \in SomeNumber /\ (latest # None => latest \in Number)
      BY RestFacts, SessionsAssumption DEF RestTyped, SomeNumber, Number, None, SessionsAssumption
    <2> QED
      BY <1>1, <1>2, <2>1 DEF SessionsInv, SyncSound
  <1>6. UNCHANGED <<disks, mounting, running, serves, late, cmd>> /\ issued' \in issued..MaxCommands
    BY <1>1, RestFacts, SessionsAssumption DEF disksVars, RestTyped, SessionsAssumption
  <1> QED
    BY <1>1, <1>3, <1>4, <1>5, <1>6, AloneKeeps

LEMMA RunClearsKeeps ==
    ASSUME SessionsInv, NEW n \in Number, RunClears(n)
    PROVE  SessionsInv'
  <1>1. /\ UNCHANGED whoVars /\ UNCHANGED disksVars /\ UNCHANGED <<late, cmd, issued>>
        /\ UNCHANGED <<guard, lock, latest, cancelled>> /\ lock = None
        /\ runs' = [runs EXCEPT ![n].at = "over"] /\ runs[n].at = "winding"
        /\ active' = (active /\ latest # n)
        /\ target' = IF latest = n /\ target = runs[n].id THEN "none" ELSE target
    BY DEF RunClears
  <1>2. /\ runs' \in [Number -> [id : Id \cup {"none"}, at : {"none", "on", "winding", "over"}]]
        /\ runs'[n].at = "over" /\ runs'[n].id = runs[n].id /\ \A m \in Number : m # n => runs'[m] = runs[m]
    BY <1>1, RestFacts DEF RestTyped
  <1>3. RestTyped'
    BY <1>1, <1>2, RestFacts DEF RestTyped, whoVars, disksVars
  <1>4. VolumesSound'
    BY <1>1 DEF SessionsInv, VolumesSound, VolumeSound, disksVars
  <1>5. SyncSound'
    <2>1. latest \in SomeNumber /\ (latest # None => latest \in Number) /\ n # None
      BY RestFacts, SessionsAssumption DEF RestTyped, SomeNumber, Number, None, SessionsAssumption
    <2>2. guard = latest /\ (active => latest # None /\ runs[latest].at \in {"on", "winding"} /\ target = runs[latest].id)
          /\ (~active => target = "none")
          /\ \A m \in Number : runs[m].at = "on" => m \in cancelled \/ (active /\ m = guard)
      BY DEF SessionsInv, SyncSound
    <2>3. CASE active /\ latest # n
      BY <1>1, <1>2, <2>1, <2>2, <2>3, LockedOut DEF SyncSound
    <2>4. CASE ~(active /\ latest # n)
      <3>1. ~active' /\ target' = "none"
        BY <1>1, <2>2, <2>4
      <3>2. \A m \in Number : runs'[m].at = "on" => m \in cancelled'
        BY <1>1, <1>2, <2>2, <2>4
      <3> QED
        BY <1>1, <2>2, <3>1, <3>2, LockedOut DEF SyncSound
    <2> QED
      BY <2>3, <2>4
  <1>6. UNCHANGED <<disks, mounting, running, serves, late, cmd>> /\ issued' \in issued..MaxCommands
    BY <1>1, RestFacts, SessionsAssumption DEF disksVars, RestTyped, SessionsAssumption
  <1> QED
    BY <1>1, <1>3, <1>4, <1>5, <1>6, AloneKeeps

LEMMA EjectKeeps ==
    ASSUME SessionsInv, NEW i \in Id, Eject(i)
    PROVE  SessionsInv'
  <1>1. /\ UNCHANGED whoVars /\ UNCHANGED syncVars /\ UNCHANGED <<disks, mounting, running, serves, cmd, issued, late>>
        /\ volume' = [volume EXCEPT ![i] = None] /\ stolen' = stolen \cup {i}
    BY DEF Eject
  <1>2. volume'[i] = None /\ (\A j \in Id : j # i => volume'[j] = volume[j]) /\ volume' \in [Id -> Nat]
    BY <1>1, RestFacts DEF RestTyped, None
  <1>3. RestTyped'
    BY <1>1, <1>2, RestFacts DEF RestTyped, whoVars, syncVars
  <1>4. VolumesSound'
    BY <1>1, <1>2 DEF SessionsInv, VolumesSound, VolumeSound
  <1>5. SyncSound'
    BY <1>1 DEF SessionsInv, SyncSound, syncVars
  <1>6. issued' \in issued..MaxCommands
    BY <1>1, RestFacts, SessionsAssumption DEF RestTyped, SessionsAssumption
  <1> QED
    BY <1>1, <1>3, <1>4, <1>5, <1>6, AloneKeeps

(* ---- The disks: what belongs to every step of theirs ---- *)
DisksTyped ==
    /\ disks \in [Id -> Nat] /\ volume \in [Id -> Nat]
    /\ mounting \subseteq Id /\ running \subseteq 1..issued
DisksSound == ServersOwned /\ MountsSound /\ VolumesSound /\ ServedSound

LEMMA DiskFacts ==
    ASSUME SessionsInv
    PROVE  /\ DisksTyped /\ None \notin running
           /\ \A i \in Id : disks[i] \in Nat /\ volume[i] \in Nat
           /\ issued \in 0..MaxCommands
  <1>1. DisksTyped /\ issued \in 0..MaxCommands
    BY DEF SessionsInv, SessionsTyped, DisksTyped
  <1> QED
    BY <1>1, SessionsAssumption DEF DisksTyped, None, SessionsAssumption

LEMMA DiskStep ==
    ASSUME SessionsInv, NEW t \in Task, NEW s, NEW v,
           CommandIs(t, cmd[t].op, cmd[t].id, s, cmd[t].n, v), s \in Stages(cmd[t].op),
           cmd[t].at \notin {"idle", "config", "register", "dropConfig", "unregister"},
           s \notin {"config", "register", "dropConfig", "unregister", "watch"},
           UNCHANGED whoVars, UNCHANGED syncVars, UNCHANGED <<serves, issued, late>>,
           DisksTyped', DisksSound'
    PROVE  SessionsInv'
  <1>1. cmd[t].op # "none"
    BY StageOf
  <1>2. RestTyped'
    BY CommandFacts DEF RestTyped, DisksTyped, whoVars, syncVars
  <1>3. CommandsSound'
    BY <1>1, OnSound
  <1>4. SessionsTyped'
    BY <1>2, TypedStep DEF CommandIs
  <1>5. ConnectedSound' /\ RegisteredSound'
    BY RegisteredFrame
  <1>6. SyncSound'
    BY SyncFrame
  <1> QED
    BY <1>3, <1>4, <1>5, <1>6 DEF SessionsInv, DisksSound

LEMMA DiskEnds ==
    ASSUME SessionsInv, NEW t \in Task,
           CommandIs(t, "none", "none", "idle", None, None), cmd'[t] = Idle,
           cmd[t].at \notin {"config", "register", "dropConfig", "unregister"},
           UNCHANGED whoVars, UNCHANGED syncVars, UNCHANGED <<serves, issued, late>>,
           DisksTyped', DisksSound'
    PROVE  SessionsInv'
  <1>2. RestTyped'
    BY CommandFacts DEF RestTyped, DisksTyped, whoVars, syncVars
  <1>3. CommandsSound'
    BY OverSound
  <1>4. SessionsTyped'
    BY <1>2, TypedStep DEF CommandIs
  <1>5. ConnectedSound' /\ RegisteredSound'
    BY RegisteredFrame
  <1>6. SyncSound'
    BY SyncFrame
  <1> QED
    BY <1>3, <1>4, <1>5, <1>6 DEF SessionsInv, DisksSound

LEMMA DiskBegins ==
    ASSUME SessionsInv, NEW t \in Task, NEW o \in {"unmount", "mount", "status"}, NEW i \in Id, NEW s, NEW v,
           CommandIs(t, o, i, s, issued + 1, v), s \in Stages(o), cmd[t] = Idle,
           issued' = issued + 1, issued' \in 1..MaxCommands,
           UNCHANGED whoVars, UNCHANGED syncVars, late' = late, serves' \in [Number -> Nat],
           DisksTyped', DisksSound'
    PROVE  SessionsInv'
  <1>1. o \in Commands /\ o # "none" /\ s \notin {"config", "register", "dropConfig", "unregister", "watch"}
    BY StagesAre DEF Commands
  <1>2. RestTyped'
    BY CommandFacts DEF RestTyped, DisksTyped, whoVars, syncVars
  <1>3. CommandsSound'
    BY <1>1, NewSound
  <1>4. SessionsTyped'
    BY <1>2, TypedStep DEF CommandIs
  <1>5. ConnectedSound' /\ RegisteredSound'
    BY <1>1, IdleIs, RegisteredFrame
  <1>6. SyncSound'
    BY <1>1, SyncFrame
  <1> QED
    BY <1>3, <1>4, <1>5, <1>6 DEF SessionsInv, DisksSound

LEMMA TakeNone ==
    ASSUME SessionsInv, NEW t \in Task, NEW i \in Id, i = cmd[t].id, 
           CommandIs(t, "none", "none", "idle", None, None), cmd'[t] = Idle,
           UNCHANGED whoVars, UNCHANGED syncVars, UNCHANGED <<serves, issued, late>>, cmd[t].at = "takeDisk",
           disks[i] = None,
           UNCHANGED disksVars
    PROVE  SessionsInv'
  <1>1. UNCHANGED <<disks, mounting, running, volume, serves, stolen>>
    BY DEF disksVars
  <1>2. cmd[t].op \in {"disconnect", "unmount"}
    BY StageOf
  <1>21. ServersOwned'
    BY <1>1, <1>2, CommandFacts, StageOf, DiskFacts DEF SessionsInv, ServersOwned, Owning, CommandIs
  <1>22. MountsSound'
    BY <1>1, <1>2, CommandFacts, StageOf, DiskFacts DEF SessionsInv, MountsSound, Unborn, Exclusive, CommandIs
  <1>23. VolumesSound'
    BY <1>1, <1>2, CommandFacts, StageOf, DiskFacts DEF SessionsInv, VolumesSound, VolumeSound, CommandIs
  <1>24. ServedSound'
    BY <1>1, <1>2, CommandFacts, StageOf, DiskFacts DEF SessionsInv, ServedSound, CommandIs, whoVars
  <1>25. DisksTyped'
    BY <1>1, <1>2, DiskFacts DEF DisksTyped
  <1>26. DisksSound'
    BY <1>21, <1>22, <1>23, <1>24 DEF DisksSound
  <1> QED
    BY <1>1, <1>2, <1>25, <1>26, DiskEnds, StagesAre, StageOf

LEMMA TakeSome ==
    ASSUME SessionsInv, NEW t \in Task, NEW i \in Id, i = cmd[t].id, 
           CommandIs(t, cmd[t].op, i, "unmount", cmd[t].n, disks[i]),
           UNCHANGED whoVars, UNCHANGED syncVars, UNCHANGED <<serves, issued, late>>, cmd[t].at = "takeDisk",
           disks[i] # None,
           disks' = [disks EXCEPT ![i] = None],
           UNCHANGED <<mounting, running, volume, stolen>>
    PROVE  SessionsInv'
  <1>1. disks'[i] = None /\ (\A j \in Id : j # i => disks'[j] = disks[j]) /\ disks' \in [Id -> Nat]
    BY DiskFacts DEF DisksTyped, None
  <1>2. cmd[t].op \in {"disconnect", "unmount"}
    BY StageOf
  <1>21. ServersOwned'
    BY <1>1, <1>2, CommandFacts, StageOf, DiskFacts DEF SessionsInv, ServersOwned, Owning, CommandIs
  <1>22. MountsSound'
    BY <1>1, <1>2, CommandFacts, StageOf, DiskFacts DEF SessionsInv, MountsSound, Unborn, Exclusive, CommandIs
  <1>23. VolumesSound'
    BY <1>1, <1>2, CommandFacts, StageOf, DiskFacts DEF SessionsInv, VolumesSound, VolumeSound, CommandIs
  <1>24. ServedSound'
    BY <1>1, <1>2, CommandFacts, StageOf, DiskFacts DEF SessionsInv, ServedSound, CommandIs, whoVars
  <1>25. DisksTyped'
    BY <1>1, <1>2, DiskFacts DEF DisksTyped
  <1>26. DisksSound'
    BY <1>21, <1>22, <1>23, <1>24 DEF DisksSound
  <1> QED
    BY <1>1, <1>2, <1>25, <1>26, DiskStep, StagesAre, StageOf

LEMMA UnmountsIt ==
    ASSUME SessionsInv, NEW t \in Task, NEW i \in Id, i = cmd[t].id, 
           CommandIs(t, cmd[t].op, i, "stop", cmd[t].n, cmd[t].srv),
           UNCHANGED whoVars, UNCHANGED syncVars, UNCHANGED <<serves, issued, late>>, cmd[t].at = "unmount",
           volume' = [volume EXCEPT ![i] = None],
           stolen' = (IF volume[i] \notin {None, cmd[t].srv} THEN stolen \cup {i} ELSE stolen),
           UNCHANGED <<disks, mounting, running>>
    PROVE  SessionsInv'
  <1>1. volume'[i] = None /\ (\A j \in Id : j # i => volume'[j] = volume[j]) /\ volume' \in [Id -> Nat]
    BY DiskFacts DEF DisksTyped, None
  <1>2. cmd[t].srv \in running /\ stolen \subseteq stolen'
    BY DEF SessionsInv, ServersOwned, Owning
  <1>21. ServersOwned'
    BY <1>1, <1>2, CommandFacts, StageOf, DiskFacts DEF SessionsInv, ServersOwned, Owning, CommandIs
  <1>22. MountsSound'
    BY <1>1, <1>2, CommandFacts, StageOf, DiskFacts DEF SessionsInv, MountsSound, Unborn, Exclusive, CommandIs
  <1>23. VolumesSound'
    <2>1. ASSUME NEW j \in Id, j # i
          PROVE  VolumeSound(j)'
      <3>1. volume'[j] = volume[j] /\ disks'[j] = disks[j] /\ stolen \subseteq stolen'
        BY <1>1, <1>2, <2>1
      <3>2. \A u \in Task : cmd'[u].id = j => cmd'[u] = cmd[u]
        BY <2>1 DEF CommandIs
      <3>3. \A u \in Task : cmd[u].id = j => cmd'[u] = cmd[u]
        BY <2>1 DEF CommandIs
      <3> QED
        BY <3>1, <3>2, <3>3 DEF SessionsInv, VolumesSound, VolumeSound
    <2>2. VolumeSound(i)'
      <3>1. \A u \in Task : u # t => cmd'[u] = cmd[u]
        BY DEF CommandIs
      <3>2. \A u \in Task : u # t /\ cmd[u].at \in {"check", "insert"} => cmd[u].srv \in running /\ cmd[u].srv # cmd[t].srv
        BY DEF SessionsInv, ServersOwned, Owning
      <3>3. disks[i] # None => disks[i] # cmd[t].srv
        BY DEF SessionsInv, ServersOwned, Owning
      <3>4. i \notin stolen' => i \notin stolen /\ volume[i] \in {None, cmd[t].srv}
        BY <1>2
      <3>5. i \notin stolen =>
               /\ disks[i] # None => volume[i] = disks[i]
               /\ \A u \in Task : cmd[u].id = i /\ cmd[u].at \in {"check", "insert"} => volume[i] = cmd[u].srv
        BY DEF SessionsInv, VolumesSound, VolumeSound
      <3>6. cmd'[t].at = "stop"
        BY DEF CommandIs
      <3>7. i \notin stolen' => disks'[i] = None
        BY <3>3, <3>4, <3>5
      <3>8. ASSUME i \notin stolen', NEW u \in Task, cmd'[u].id = i, cmd'[u].at \in {"check", "insert"} PROVE FALSE
        <4>1. u # t /\ cmd[u].id = i /\ cmd[u].at \in {"check", "insert"}
          BY <3>1, <3>6, <3>8
        <4> QED
          BY <4>1, <3>2, <3>4, <3>5, <3>8, DiskFacts
      <3> QED
        BY <1>1, <3>7, <3>8 DEF VolumeSound
    <2> QED
      BY <2>1, <2>2 DEF VolumesSound
  <1>24. ServedSound'
    BY <1>1, <1>2, ServedFrame, StageOf DEF whoVars
  <1>25. DisksTyped'
    BY <1>1, <1>2, DiskFacts DEF DisksTyped
  <1>26. DisksSound'
    BY <1>21, <1>22, <1>23, <1>24 DEF DisksSound
  <1> QED
    BY <1>1, <1>2, <1>25, <1>26, DiskStep, StagesAre, StageOf

LEMMA StopsThenStarts ==
    ASSUME SessionsInv, NEW t \in Task, NEW i \in Id, i = cmd[t].id, 
           CommandIs(t, cmd[t].op, i, "start", cmd[t].n, cmd[t].srv),
           UNCHANGED whoVars, UNCHANGED syncVars, UNCHANGED <<serves, issued, late>>, cmd[t].at = "stop",
           cmd[t].op = "mount",
           cmd[t].srv # cmd[t].n,
           running' = running \ {cmd[t].srv},
           UNCHANGED <<disks, mounting, volume, stolen>>
    PROVE  SessionsInv'
  <1>21. ServersOwned'
    BY CommandFacts, StageOf, DiskFacts DEF SessionsInv, ServersOwned, Owning, CommandIs
  <1>22. MountsSound'
    BY CommandFacts, StageOf, DiskFacts DEF SessionsInv, MountsSound, Unborn, Exclusive, CommandIs
  <1>23. VolumesSound'
    BY CommandFacts, StageOf, DiskFacts DEF SessionsInv, VolumesSound, VolumeSound, CommandIs
  <1>24. ServedSound'
    BY ServedFrame, StageOf DEF whoVars
  <1>25. DisksTyped'
    BY DiskFacts DEF DisksTyped
  <1>26. DisksSound'
    BY <1>21, <1>22, <1>23, <1>24 DEF DisksSound
  <1> QED
    BY <1>25, <1>26, DiskStep, StagesAre, StageOf

LEMMA StopsThenReleases ==
    ASSUME SessionsInv, NEW t \in Task, NEW i \in Id, i = cmd[t].id, 
           CommandIs(t, cmd[t].op, i, "release", cmd[t].n, cmd[t].srv),
           UNCHANGED whoVars, UNCHANGED syncVars, UNCHANGED <<serves, issued, late>>, cmd[t].at = "stop",
           cmd[t].op \in {"mount", "status"},
           cmd[t].op = "mount" => cmd[t].srv = cmd[t].n,
           running' = running \ {cmd[t].srv},
           UNCHANGED <<disks, mounting, volume, stolen>>
    PROVE  SessionsInv'
  <1>21. ServersOwned'
    BY CommandFacts, StageOf, DiskFacts DEF SessionsInv, ServersOwned, Owning, CommandIs
  <1>22. MountsSound'
    BY CommandFacts, StageOf, DiskFacts DEF SessionsInv, MountsSound, Unborn, Exclusive, CommandIs
  <1>23. VolumesSound'
    BY CommandFacts, StageOf, DiskFacts DEF SessionsInv, VolumesSound, VolumeSound, CommandIs
  <1>24. ServedSound'
    BY ServedFrame, StageOf DEF whoVars
  <1>25. DisksTyped'
    BY DiskFacts DEF DisksTyped
  <1>26. DisksSound'
    BY <1>21, <1>22, <1>23, <1>24 DEF DisksSound
  <1> QED
    BY <1>25, <1>26, DiskStep, StagesAre, StageOf

LEMMA StopsAndEnds ==
    ASSUME SessionsInv, NEW t \in Task, NEW i \in Id, i = cmd[t].id, 
           CommandIs(t, "none", "none", "idle", None, None), cmd'[t] = Idle,
           UNCHANGED whoVars, UNCHANGED syncVars, UNCHANGED <<serves, issued, late>>, cmd[t].at = "stop",
           cmd[t].op \in {"disconnect", "unmount"},
           running' = running \ {cmd[t].srv},
           UNCHANGED <<disks, mounting, volume, stolen>>
    PROVE  SessionsInv'
  <1>21. ServersOwned'
    BY CommandFacts, StageOf, DiskFacts DEF SessionsInv, ServersOwned, Owning, CommandIs
  <1>22. MountsSound'
    BY CommandFacts, StageOf, DiskFacts DEF SessionsInv, MountsSound, Unborn, Exclusive, CommandIs
  <1>23. VolumesSound'
    BY CommandFacts, StageOf, DiskFacts DEF SessionsInv, VolumesSound, VolumeSound, CommandIs
  <1>24. ServedSound'
    BY ServedFrame, StageOf DEF whoVars
  <1>25. DisksTyped'
    BY DiskFacts DEF DisksTyped
  <1>26. DisksSound'
    BY <1>21, <1>22, <1>23, <1>24 DEF DisksSound
  <1> QED
    BY <1>25, <1>26, DiskEnds, StagesAre, StageOf

LEMMA ClaimedAlready ==
    ASSUME SessionsInv, NEW t \in Task, NEW i \in Id, i = cmd[t].id, 
           CommandIs(t, "none", "none", "idle", None, None), cmd'[t] = Idle,
           UNCHANGED whoVars, UNCHANGED syncVars, UNCHANGED <<serves, issued, late>>, cmd[t].at = "claim",
           UNCHANGED disksVars
    PROVE  SessionsInv'
  <1>1. UNCHANGED <<disks, mounting, running, volume, serves, stolen>>
    BY DEF disksVars
  <1>21. ServersOwned'
    BY <1>1, CommandFacts, StageOf, DiskFacts DEF SessionsInv, ServersOwned, Owning, CommandIs
  <1>22. MountsSound'
    BY <1>1, CommandFacts, StageOf, DiskFacts DEF SessionsInv, MountsSound, Unborn, Exclusive, CommandIs
  <1>23. VolumesSound'
    BY <1>1, CommandFacts, StageOf, DiskFacts DEF SessionsInv, VolumesSound, VolumeSound, CommandIs
  <1>24. ServedSound'
    BY <1>1, ServedFrame, StageOf DEF whoVars
  <1>25. DisksTyped'
    BY <1>1, DiskFacts DEF DisksTyped
  <1>26. DisksSound'
    BY <1>21, <1>22, <1>23, <1>24 DEF DisksSound
  <1> QED
    BY <1>1, <1>25, <1>26, DiskEnds, StagesAre, StageOf

LEMMA ClaimsToMount ==
    ASSUME SessionsInv, NEW t \in Task, NEW i \in Id, i = cmd[t].id, 
           CommandIs(t, cmd[t].op, i, "look", cmd[t].n, cmd[t].srv),
           UNCHANGED whoVars, UNCHANGED syncVars, UNCHANGED <<serves, issued, late>>, cmd[t].at = "claim",
           cmd[t].op = "mount",
           i \notin mounting,
           mounting' = mounting \cup {i},
           UNCHANGED <<disks, running, volume, stolen>>
    PROVE  SessionsInv'
  <1>21. ServersOwned'
    BY CommandFacts, StageOf, DiskFacts DEF SessionsInv, ServersOwned, Owning, CommandIs
  <1>22. MountsSound'
    BY CommandFacts, StageOf, DiskFacts DEF SessionsInv, MountsSound, Unborn, Exclusive, CommandIs
  <1>23. VolumesSound'
    BY CommandFacts, StageOf, DiskFacts DEF SessionsInv, VolumesSound, VolumeSound, CommandIs
  <1>24. ServedSound'
    BY ServedFrame, StageOf DEF whoVars
  <1>25. DisksTyped'
    BY DiskFacts DEF DisksTyped
  <1>26. DisksSound'
    BY <1>21, <1>22, <1>23, <1>24 DEF DisksSound
  <1> QED
    BY <1>25, <1>26, DiskStep, StagesAre, StageOf

LEMMA ClaimsToRetire ==
    ASSUME SessionsInv, NEW t \in Task, NEW i \in Id, i = cmd[t].id, 
           CommandIs(t, cmd[t].op, i, "takeOld", cmd[t].n, cmd[t].srv),
           UNCHANGED whoVars, UNCHANGED syncVars, UNCHANGED <<serves, issued, late>>, cmd[t].at = "claim",
           cmd[t].op = "status",
           i \notin mounting,
           mounting' = mounting \cup {i},
           UNCHANGED <<disks, running, volume, stolen>>
    PROVE  SessionsInv'
  <1>21. ServersOwned'
    BY CommandFacts, StageOf, DiskFacts DEF SessionsInv, ServersOwned, Owning, CommandIs
  <1>22. MountsSound'
    BY CommandFacts, StageOf, DiskFacts DEF SessionsInv, MountsSound, Unborn, Exclusive, CommandIs
  <1>23. VolumesSound'
    BY CommandFacts, StageOf, DiskFacts DEF SessionsInv, VolumesSound, VolumeSound, CommandIs
  <1>24. ServedSound'
    BY ServedFrame, StageOf DEF whoVars
  <1>25. DisksTyped'
    BY DiskFacts DEF DisksTyped
  <1>26. DisksSound'
    BY <1>21, <1>22, <1>23, <1>24 DEF DisksSound
  <1> QED
    BY <1>25, <1>26, DiskStep, StagesAre, StageOf

LEMMA LooksAtNone ==
    ASSUME SessionsInv, NEW t \in Task, NEW i \in Id, i = cmd[t].id, 
           CommandIs(t, cmd[t].op, i, "start", cmd[t].n, None),
           UNCHANGED whoVars, UNCHANGED syncVars, UNCHANGED <<serves, issued, late>>, cmd[t].at = "look",
           disks[i] = None,
           UNCHANGED disksVars
    PROVE  SessionsInv'
  <1>1. UNCHANGED <<disks, mounting, running, volume, serves, stolen>>
    BY DEF disksVars
  <1>21. ServersOwned'
    BY <1>1, CommandFacts, StageOf, DiskFacts DEF SessionsInv, ServersOwned, Owning, CommandIs
  <1>22. MountsSound'
    BY <1>1, CommandFacts, StageOf, DiskFacts DEF SessionsInv, MountsSound, Unborn, Exclusive, CommandIs
  <1>23. VolumesSound'
    BY <1>1, CommandFacts, StageOf, DiskFacts DEF SessionsInv, VolumesSound, VolumeSound, CommandIs
  <1>24. ServedSound'
    BY <1>1, ServedFrame, StageOf DEF whoVars
  <1>25. DisksTyped'
    BY <1>1, DiskFacts DEF DisksTyped
  <1>26. DisksSound'
    BY <1>21, <1>22, <1>23, <1>24 DEF DisksSound
  <1> QED
    BY <1>1, <1>25, <1>26, DiskStep, StagesAre, StageOf

LEMMA LooksAtEjected ==
    ASSUME SessionsInv, NEW t \in Task, NEW i \in Id, i = cmd[t].id, 
           CommandIs(t, cmd[t].op, i, "takeOld", cmd[t].n, disks[i]),
           UNCHANGED whoVars, UNCHANGED syncVars, UNCHANGED <<serves, issued, late>>, cmd[t].at = "look",
           disks[i] # None,
           UNCHANGED disksVars
    PROVE  SessionsInv'
  <1>1. UNCHANGED <<disks, mounting, running, volume, serves, stolen>>
    BY DEF disksVars
  <1>21. ServersOwned'
    BY <1>1, CommandFacts, StageOf, DiskFacts DEF SessionsInv, ServersOwned, Owning, CommandIs
  <1>22. MountsSound'
    BY <1>1, CommandFacts, StageOf, DiskFacts DEF SessionsInv, MountsSound, Unborn, Exclusive, CommandIs
  <1>23. VolumesSound'
    BY <1>1, CommandFacts, StageOf, DiskFacts DEF SessionsInv, VolumesSound, VolumeSound, CommandIs
  <1>24. ServedSound'
    BY <1>1, ServedFrame, StageOf DEF whoVars
  <1>25. DisksTyped'
    BY <1>1, DiskFacts DEF DisksTyped
  <1>26. DisksSound'
    BY <1>21, <1>22, <1>23, <1>24 DEF DisksSound
  <1> QED
    BY <1>1, <1>25, <1>26, DiskStep, StagesAre, StageOf

LEMMA LooksAtMounted ==
    ASSUME SessionsInv, NEW t \in Task, NEW i \in Id, i = cmd[t].id, 
           CommandIs(t, cmd[t].op, i, "release", cmd[t].n, disks[i]),
           UNCHANGED whoVars, UNCHANGED syncVars, UNCHANGED <<serves, issued, late>>, cmd[t].at = "look",
           UNCHANGED disksVars
    PROVE  SessionsInv'
  <1>1. UNCHANGED <<disks, mounting, running, volume, serves, stolen>>
    BY DEF disksVars
  <1>21. ServersOwned'
    BY <1>1, CommandFacts, StageOf, DiskFacts DEF SessionsInv, ServersOwned, Owning, CommandIs
  <1>22. MountsSound'
    BY <1>1, CommandFacts, StageOf, DiskFacts DEF SessionsInv, MountsSound, Unborn, Exclusive, CommandIs
  <1>23. VolumesSound'
    BY <1>1, CommandFacts, StageOf, DiskFacts DEF SessionsInv, VolumesSound, VolumeSound, CommandIs
  <1>24. ServedSound'
    BY <1>1, ServedFrame, StageOf DEF whoVars
  <1>25. DisksTyped'
    BY <1>1, DiskFacts DEF DisksTyped
  <1>26. DisksSound'
    BY <1>21, <1>22, <1>23, <1>24 DEF DisksSound
  <1> QED
    BY <1>1, <1>25, <1>26, DiskStep, StagesAre, StageOf

LEMMA TakesOld ==
    ASSUME SessionsInv, NEW t \in Task, NEW i \in Id, i = cmd[t].id, 
           CommandIs(t, cmd[t].op, i, "unmount", cmd[t].n, cmd[t].srv),
           UNCHANGED whoVars, UNCHANGED syncVars, UNCHANGED <<serves, issued, late>>, cmd[t].at = "takeOld",
           disks[i] = cmd[t].srv,
           disks' = [disks EXCEPT ![i] = None],
           UNCHANGED <<mounting, running, volume, stolen>>
    PROVE  SessionsInv'
  <1>1. disks'[i] = None /\ (\A j \in Id : j # i => disks'[j] = disks[j]) /\ disks' \in [Id -> Nat]
    BY DiskFacts DEF DisksTyped, None
  <1>2. cmd[t].srv # None /\ cmd[t].op \in {"mount", "status"} /\ cmd[t].srv \in running
    BY StageOf DEF SessionsInv, MountsSound, ServersOwned
  <1>21. ServersOwned'
    BY <1>1, <1>2, CommandFacts, StageOf, DiskFacts DEF SessionsInv, ServersOwned, Owning, CommandIs
  <1>22. MountsSound'
    BY <1>1, <1>2, CommandFacts, StageOf, DiskFacts DEF SessionsInv, MountsSound, Unborn, Exclusive, CommandIs
  <1>23. VolumesSound'
    BY <1>1, <1>2, CommandFacts, StageOf, DiskFacts DEF SessionsInv, VolumesSound, VolumeSound, CommandIs
  <1>24. ServedSound'
    BY <1>1, <1>2, CommandFacts, StageOf, DiskFacts DEF SessionsInv, ServedSound, CommandIs, whoVars
  <1>25. DisksTyped'
    BY <1>1, <1>2, DiskFacts DEF DisksTyped
  <1>26. DisksSound'
    BY <1>21, <1>22, <1>23, <1>24 DEF DisksSound
  <1> QED
    BY <1>1, <1>2, <1>25, <1>26, DiskStep, StagesAre, StageOf

LEMMA OldGone ==
    ASSUME SessionsInv, NEW t \in Task, NEW i \in Id, i = cmd[t].id, 
           CommandIs(t, cmd[t].op, i, "start", cmd[t].n, cmd[t].srv),
           UNCHANGED whoVars, UNCHANGED syncVars, UNCHANGED <<serves, issued, late>>, cmd[t].at = "takeOld",
           disks[i] # cmd[t].srv,
           cmd[t].op = "mount",
           UNCHANGED <<disks, mounting, running, volume, stolen>>
    PROVE  SessionsInv'
  <1>21. ServersOwned'
    BY CommandFacts, StageOf, DiskFacts DEF SessionsInv, ServersOwned, Owning, CommandIs
  <1>22. MountsSound'
    BY CommandFacts, StageOf, DiskFacts DEF SessionsInv, MountsSound, Unborn, Exclusive, CommandIs
  <1>23. VolumesSound'
    BY CommandFacts, StageOf, DiskFacts DEF SessionsInv, VolumesSound, VolumeSound, CommandIs
  <1>24. ServedSound'
    BY ServedFrame, StageOf DEF whoVars
  <1>25. DisksTyped'
    BY DiskFacts DEF DisksTyped
  <1>26. DisksSound'
    BY <1>21, <1>22, <1>23, <1>24 DEF DisksSound
  <1> QED
    BY <1>25, <1>26, DiskStep, StagesAre, StageOf

LEMMA RetiredAlready ==
    ASSUME SessionsInv, NEW t \in Task, NEW i \in Id, i = cmd[t].id, 
           CommandIs(t, cmd[t].op, i, "release", cmd[t].n, cmd[t].srv),
           UNCHANGED whoVars, UNCHANGED syncVars, UNCHANGED <<serves, issued, late>>, cmd[t].at = "takeOld",
           cmd[t].op = "status",
           UNCHANGED <<disks, mounting, running, volume, stolen>>
    PROVE  SessionsInv'
  <1>21. ServersOwned'
    BY CommandFacts, StageOf, DiskFacts DEF SessionsInv, ServersOwned, Owning, CommandIs
  <1>22. MountsSound'
    BY CommandFacts, StageOf, DiskFacts DEF SessionsInv, MountsSound, Unborn, Exclusive, CommandIs
  <1>23. VolumesSound'
    BY CommandFacts, StageOf, DiskFacts DEF SessionsInv, VolumesSound, VolumeSound, CommandIs
  <1>24. ServedSound'
    BY ServedFrame, StageOf DEF whoVars
  <1>25. DisksTyped'
    BY DiskFacts DEF DisksTyped
  <1>26. DisksSound'
    BY <1>21, <1>22, <1>23, <1>24 DEF DisksSound
  <1> QED
    BY <1>25, <1>26, DiskStep, StagesAre, StageOf

LEMMA StartsServer ==
    ASSUME SessionsInv, NEW t \in Task, NEW i \in Id, i = cmd[t].id, 
           CommandIs(t, cmd[t].op, i, "mountIt", cmd[t].n, cmd[t].n),
           UNCHANGED whoVars, UNCHANGED syncVars, UNCHANGED <<serves, issued, late>>, cmd[t].at = "start",
           running' = running \cup {cmd[t].n},
           volume' = [volume EXCEPT ![i] = None],
           stolen' = (IF volume[i] \notin {None, cmd[t].srv} THEN stolen \cup {i} ELSE stolen),
           UNCHANGED <<disks, mounting>>
    PROVE  SessionsInv'
  <1>1. volume'[i] = None /\ (\A j \in Id : j # i => volume'[j] = volume[j]) /\ volume' \in [Id -> Nat]
    BY DiskFacts DEF DisksTyped, None
  <1>2. /\ cmd[t].n \notin running /\ disks[i] = None /\ stolen \subseteq stolen' /\ Exclusive(t)
        /\ cmd[t].op = "mount" /\ cmd[t].n \in 1..issued /\ cmd[t].n \in Nat
    BY StageOf, CommandFacts, SessionsAssumption DEF SessionsInv, MountsSound, Unborn, Exclusive, SessionsAssumption
  <1>21. ServersOwned'
    <2>1. \A j \in Id : disks'[j] # cmd[t].n /\ (disks[j] # None => disks[j] \in running)
      BY <1>2, CommandFacts DEF SessionsInv, ServersOwned, None
    <2>2. \A u \in Task : u # t => cmd'[u] = cmd[u] /\ (cmd[u].at \in Owning => cmd[u].srv # cmd[t].n)
      BY <1>2 DEF SessionsInv, ServersOwned, CommandIs
    <2>3. cmd'[t].at \in Owning /\ cmd'[t].srv = cmd[t].n /\ cmd[t].at \notin Owning
      BY DEF CommandIs, Owning
    <2>4. /\ \A j \in Id : disks[j] # None => disks[j] \in running /\ \A k \in Id : k # j => disks[k] # disks[j]
          /\ \A u \in Task : cmd[u].at \in Owning =>
                /\ cmd[u].srv \in running
                /\ \A j \in Id : disks[j] # cmd[u].srv
                /\ \A w \in Task : w # u /\ cmd[w].at \in Owning => cmd[w].srv # cmd[u].srv
          /\ \A r \in running : (\E j \in Id : disks[j] = r) \/ \E u \in Task : cmd[u].at \in Owning /\ cmd[u].srv = r
      BY DEF SessionsInv, ServersOwned
    <2>5. \A j \in Id : disks'[j] # None => disks'[j] \in running' /\ \A k \in Id : k # j => disks'[k] # disks'[j]
      BY <2>4
    <2>6. ASSUME NEW u \in Task, cmd'[u].at \in Owning
          PROVE  /\ cmd'[u].srv \in running'
                 /\ \A j \in Id : disks'[j] # cmd'[u].srv
                 /\ \A w \in Task : w # u /\ cmd'[w].at \in Owning => cmd'[w].srv # cmd'[u].srv
      BY <2>1, <2>2, <2>3, <2>4, <2>6
    <2>7. \A r \in running' : (\E j \in Id : disks'[j] = r) \/ \E u \in Task : cmd'[u].at \in Owning /\ cmd'[u].srv = r
      BY <2>2, <2>3, <2>4
    <2> QED
      BY <2>5, <2>6, <2>7 DEF ServersOwned
  <1>22. MountsSound'
    <2>1. \A u \in Task : u # t => cmd'[u] = cmd[u] /\ (Unborn(u) => cmd[u].n # cmd[t].n)
      BY <1>2, CommandFacts DEF CommandIs, Unborn, None
    <2>2. /\ cmd'[t].op = "mount" /\ cmd'[t].at = "mountIt" /\ cmd'[t].id = i
          /\ cmd'[t].n = cmd[t].n /\ cmd'[t].srv = cmd[t].n
      BY <1>2 DEF CommandIs
    <2>3. \A u \in Task : u # t /\ Exclusive(u) => cmd[u].id # i
      BY <1>2 DEF SessionsInv, MountsSound
    <2>4. i \in mounting
      BY <1>2 DEF SessionsInv, MountsSound
    <2>5. \A u \in Task : u # t => (Unborn(u)' <=> Unborn(u)) /\ (Exclusive(u)' <=> Exclusive(u))
      BY <2>1 DEF Unborn, Exclusive
    <2>6. ~Unborn(t)'
      BY <2>2 DEF Unborn
    <2>7. \A u \in Task : Unborn(u)' => cmd'[u].n \notin running'
      BY <2>1, <2>5, <2>6 DEF SessionsInv, MountsSound
    <2>8. ASSUME NEW u \in Task, Exclusive(u)'
          PROVE  cmd'[u].id \in mounting' /\ \A w \in Task : w # u /\ Exclusive(w)' => cmd'[w].id # cmd'[u].id
      <3>1. CASE u = t
        BY <2>1, <2>2, <2>3, <2>4, <2>5, <3>1
      <3>2. CASE u # t
        <4>1. cmd[u].id \in mounting /\ \A w \in Task : w # u /\ Exclusive(w) => cmd[w].id # cmd[u].id
          BY <2>5, <2>8, <3>2 DEF SessionsInv, MountsSound
        <4> QED
          BY <1>2, <2>1, <2>2, <2>5, <3>2, <4>1
      <3> QED
        BY <3>1, <3>2
    <2>9. ASSUME NEW u \in Task
          PROVE  /\ cmd'[u].at \in {"mountIt", "check", "insert"} => cmd'[u].srv = cmd'[u].n
                 /\ cmd'[u].at = "takeOld" \/ (cmd'[u].op = "status" /\ cmd'[u].at = "claim") => cmd'[u].srv # None
                 /\ cmd'[u].op = "mount" /\ cmd'[u].at = "takeOld" => disks'[cmd'[u].id] \in {None, cmd'[u].srv}
                 /\ cmd'[u].op = "mount" /\ cmd'[u].at \in {"unmount", "stop", "start", "mountIt", "check", "insert"} =>
                       disks'[cmd'[u].id] = None
      BY <1>2, <2>1, <2>2 DEF SessionsInv, MountsSound
    <2> QED
      BY <2>7, <2>8, <2>9 DEF MountsSound
  <1>23. VolumesSound'
    <2>1. ASSUME NEW j \in Id, j # i
          PROVE  VolumeSound(j)'
      <3>1. volume'[j] = volume[j] /\ disks'[j] = disks[j] /\ stolen \subseteq stolen'
        BY <1>1, <1>2, <2>1
      <3>2. \A u \in Task : cmd'[u].id = j => cmd'[u] = cmd[u]
        BY <2>1 DEF CommandIs
      <3>3. \A u \in Task : cmd[u].id = j => cmd'[u] = cmd[u]
        BY <2>1 DEF CommandIs
      <3> QED
        BY <3>1, <3>2, <3>3 DEF SessionsInv, VolumesSound, VolumeSound
    <2>2. VolumeSound(i)'
      <3>1. \A u \in Task : cmd'[u].id = i => cmd'[u].at \notin {"check", "insert"}
        BY <1>2, StageOf DEF CommandIs, SessionsInv, MountsSound, Exclusive
      <3> QED
        BY <1>1, <1>2, <3>1 DEF VolumeSound
    <2> QED
      BY <2>1, <2>2 DEF VolumesSound
  <1>24. ServedSound'
    BY <1>1, <1>2, ServedFrame, StageOf DEF whoVars
  <1>25. DisksTyped'
    BY <1>1, <1>2, DiskFacts DEF DisksTyped
  <1>26. DisksSound'
    BY <1>21, <1>22, <1>23, <1>24 DEF DisksSound
  <1> QED
    BY <1>1, <1>2, <1>25, <1>26, DiskStep, StagesAre, StageOf

LEMMA MountsVolume ==
    ASSUME SessionsInv, NEW t \in Task, NEW i \in Id, i = cmd[t].id, 
           CommandIs(t, cmd[t].op, i, "check", cmd[t].n, cmd[t].srv),
           UNCHANGED whoVars, UNCHANGED syncVars, UNCHANGED <<serves, issued, late>>, cmd[t].at = "mountIt",
           volume' = [volume EXCEPT ![i] = cmd[t].srv],
           UNCHANGED <<disks, mounting, running, stolen>>
    PROVE  SessionsInv'
  <1>1. volume'[i] = cmd[t].srv /\ (\A j \in Id : j # i => volume'[j] = volume[j]) /\ volume' \in [Id -> Nat]
    BY DiskFacts, CommandFacts DEF DisksTyped
  <1>2. disks[i] = None /\ Exclusive(t) /\ cmd[t].op = "mount" /\ cmd[t].srv = cmd[t].n /\ cmd[t].srv \in running
    BY StageOf DEF SessionsInv, MountsSound, Exclusive, ServersOwned, Owning
  <1>3. \A u \in Task : u # t /\ Exclusive(u) => cmd[u].id # i
    BY <1>2 DEF SessionsInv, MountsSound
  <1>21. ServersOwned'
    BY <1>1, <1>2, <1>3, CommandFacts, StageOf, DiskFacts DEF SessionsInv, ServersOwned, Owning, CommandIs
  <1>22. MountsSound'
    BY <1>1, <1>2, <1>3, CommandFacts, StageOf, DiskFacts DEF SessionsInv, MountsSound, Unborn, Exclusive, CommandIs
  <1>23. VolumesSound'
    <2>1. ASSUME NEW j \in Id, j # i
          PROVE  VolumeSound(j)'
      <3>1. volume'[j] = volume[j] /\ disks'[j] = disks[j] /\ stolen \subseteq stolen'
        BY <1>1, <2>1
      <3>2. \A u \in Task : cmd'[u].id = j => cmd'[u] = cmd[u]
        BY <2>1 DEF CommandIs
      <3>3. \A u \in Task : cmd[u].id = j => cmd'[u] = cmd[u]
        BY <2>1 DEF CommandIs
      <3> QED
        BY <3>1, <3>2, <3>3 DEF SessionsInv, VolumesSound, VolumeSound
    <2>2. VolumeSound(i)'
      <3>1. \A u \in Task : u # t /\ cmd[u].at \in {"check", "insert"} => cmd[u].id # i /\ cmd'[u] = cmd[u]
        BY <1>3, StageOf DEF CommandIs, Exclusive
      <3>2. cmd'[t].id = i /\ cmd'[t].at = "check" /\ cmd'[t].srv = cmd[t].srv
        BY DEF CommandIs
      <3>3. \A u \in Task : cmd'[u].id = i /\ cmd'[u].at \in {"check", "insert"} => u = t
        BY <3>1 DEF CommandIs
      <3> QED
        BY <1>1, <1>2, <3>2, <3>3 DEF VolumeSound
    <2> QED
      BY <2>1, <2>2 DEF VolumesSound
  <1>24. ServedSound'
    BY <1>1, <1>2, <1>3, ServedFrame, StageOf DEF whoVars
  <1>25. DisksTyped'
    BY <1>1, <1>2, <1>3, DiskFacts DEF DisksTyped
  <1>26. DisksSound'
    BY <1>21, <1>22, <1>23, <1>24 DEF DisksSound
  <1> QED
    BY <1>1, <1>2, <1>3, <1>25, <1>26, DiskStep, StagesAre, StageOf

LEMMA MountFails ==
    ASSUME SessionsInv, NEW t \in Task, NEW i \in Id, i = cmd[t].id, 
           CommandIs(t, cmd[t].op, i, "stop", cmd[t].n, cmd[t].srv),
           UNCHANGED whoVars, UNCHANGED syncVars, UNCHANGED <<serves, issued, late>>, cmd[t].at = "mountIt",
           UNCHANGED <<disks, mounting, running, volume, stolen>>
    PROVE  SessionsInv'
  <1>1. disks[i] = None /\ Exclusive(t) /\ cmd[t].op = "mount" /\ cmd[t].srv = cmd[t].n /\ cmd[t].srv \in running
    BY StageOf DEF SessionsInv, MountsSound, Exclusive, ServersOwned, Owning
  <1>2. \A u \in Task : u # t /\ Exclusive(u) => cmd[u].id # i
    BY <1>1 DEF SessionsInv, MountsSound
  <1>21. ServersOwned'
    BY <1>1, <1>2, CommandFacts, StageOf, DiskFacts DEF SessionsInv, ServersOwned, Owning, CommandIs
  <1>22. MountsSound'
    BY <1>1, <1>2, CommandFacts, StageOf, DiskFacts DEF SessionsInv, MountsSound, Unborn, Exclusive, CommandIs
  <1>23. VolumesSound'
    BY <1>1, <1>2, CommandFacts, StageOf, DiskFacts DEF SessionsInv, VolumesSound, VolumeSound, CommandIs
  <1>24. ServedSound'
    BY <1>1, <1>2, ServedFrame, StageOf DEF whoVars
  <1>25. DisksTyped'
    BY <1>1, <1>2, DiskFacts DEF DisksTyped
  <1>26. DisksSound'
    BY <1>21, <1>22, <1>23, <1>24 DEF DisksSound
  <1> QED
    BY <1>1, <1>2, <1>25, <1>26, DiskStep, StagesAre, StageOf

LEMMA SessionIsGone ==
    ASSUME SessionsInv, NEW t \in Task, NEW i \in Id, i = cmd[t].id, 
           CommandIs(t, cmd[t].op, i, "unmount", cmd[t].n, cmd[t].srv),
           UNCHANGED whoVars, UNCHANGED syncVars, UNCHANGED <<serves, issued, late>>, cmd[t].at = "check",
           UNCHANGED disksVars
    PROVE  SessionsInv'
  <1>1. UNCHANGED <<disks, mounting, running, volume, serves, stolen>>
    BY DEF disksVars
  <1>2. disks[i] = None /\ Exclusive(t) /\ cmd[t].op = "mount" /\ cmd[t].srv = cmd[t].n /\ cmd[t].srv \in running
    BY StageOf DEF SessionsInv, MountsSound, Exclusive, ServersOwned, Owning
  <1>3. \A u \in Task : u # t /\ Exclusive(u) => cmd[u].id # i
    BY <1>2 DEF SessionsInv, MountsSound
  <1>21. ServersOwned'
    BY <1>1, <1>2, <1>3, CommandFacts, StageOf, DiskFacts DEF SessionsInv, ServersOwned, Owning, CommandIs
  <1>22. MountsSound'
    BY <1>1, <1>2, <1>3, CommandFacts, StageOf, DiskFacts DEF SessionsInv, MountsSound, Unborn, Exclusive, CommandIs
  <1>23. VolumesSound'
    BY <1>1, <1>2, <1>3, CommandFacts, StageOf, DiskFacts DEF SessionsInv, VolumesSound, VolumeSound, CommandIs
  <1>24. ServedSound'
    BY <1>1, <1>2, <1>3, ServedFrame, StageOf DEF whoVars
  <1>25. DisksTyped'
    BY <1>1, <1>2, <1>3, DiskFacts DEF DisksTyped
  <1>26. DisksSound'
    BY <1>21, <1>22, <1>23, <1>24 DEF DisksSound
  <1> QED
    BY <1>1, <1>2, <1>3, <1>25, <1>26, DiskStep, StagesAre, StageOf

LEMMA SessionIsThere ==
    ASSUME SessionsInv, NEW t \in Task, NEW i \in Id, i = cmd[t].id, 
           CommandIs(t, cmd[t].op, i, "insert", cmd[t].n, cmd[t].srv),
           UNCHANGED whoVars, UNCHANGED syncVars, UNCHANGED <<serves, issued, late>>, cmd[t].at = "check",
           sessions[i] # None,
           UNCHANGED disksVars
    PROVE  SessionsInv'
  <1>1. UNCHANGED <<disks, mounting, running, volume, serves, stolen>>
    BY DEF disksVars
  <1>2. disks[i] = None /\ Exclusive(t) /\ cmd[t].op = "mount" /\ cmd[t].srv = cmd[t].n /\ cmd[t].srv \in running
    BY StageOf DEF SessionsInv, MountsSound, Exclusive, ServersOwned, Owning
  <1>3. \A u \in Task : u # t /\ Exclusive(u) => cmd[u].id # i
    BY <1>2 DEF SessionsInv, MountsSound
  <1>21. ServersOwned'
    BY <1>1, <1>2, <1>3, CommandFacts, StageOf, DiskFacts DEF SessionsInv, ServersOwned, Owning, CommandIs
  <1>22. MountsSound'
    BY <1>1, <1>2, <1>3, CommandFacts, StageOf, DiskFacts DEF SessionsInv, MountsSound, Unborn, Exclusive, CommandIs
  <1>23. VolumesSound'
    BY <1>1, <1>2, <1>3, CommandFacts, StageOf, DiskFacts DEF SessionsInv, VolumesSound, VolumeSound, CommandIs
  <1>24. ServedSound'
    BY <1>1, <1>2, <1>3, CommandFacts, StageOf, DiskFacts DEF SessionsInv, ServedSound, CommandIs, whoVars
  <1>25. DisksTyped'
    BY <1>1, <1>2, <1>3, DiskFacts DEF DisksTyped
  <1>26. DisksSound'
    BY <1>21, <1>22, <1>23, <1>24 DEF DisksSound
  <1> QED
    BY <1>1, <1>2, <1>3, <1>25, <1>26, DiskStep, StagesAre, StageOf

LEMMA InsertsDisk ==
    ASSUME SessionsInv, NEW t \in Task, NEW i \in Id, i = cmd[t].id, 
           CommandIs(t, cmd[t].op, i, "release", cmd[t].n, cmd[t].srv),
           UNCHANGED whoVars, UNCHANGED syncVars, UNCHANGED <<serves, issued, late>>, cmd[t].at = "insert",
           disks' = [disks EXCEPT ![i] = cmd[t].srv],
           running' = running \ {disks[i]},
           UNCHANGED <<mounting, volume, stolen>>
    PROVE  SessionsInv'
  <1>1. disks[i] = None /\ Exclusive(t) /\ cmd[t].op = "mount" /\ cmd[t].srv = cmd[t].n /\ cmd[t].srv \in running
    BY StageOf DEF SessionsInv, MountsSound, Exclusive, ServersOwned, Owning
  <1>2. \A u \in Task : u # t /\ Exclusive(u) => cmd[u].id # i
    BY <1>1 DEF SessionsInv, MountsSound
  <1>3. disks'[i] = cmd[t].srv /\ (\A j \in Id : j # i => disks'[j] = disks[j]) /\ disks' \in [Id -> Nat]
    BY DiskFacts, CommandFacts DEF DisksTyped
  <1>4. running' = running
    BY <1>1, DiskFacts
  <1>21. ServersOwned'
    BY <1>1, <1>2, <1>3, <1>4, CommandFacts, StageOf, DiskFacts DEF SessionsInv, ServersOwned, Owning, CommandIs
  <1>22. MountsSound'
    BY <1>1, <1>2, <1>3, <1>4, CommandFacts, StageOf, DiskFacts DEF SessionsInv, MountsSound, Unborn, Exclusive, CommandIs
  <1>23. VolumesSound'
    BY <1>1, <1>2, <1>3, <1>4, CommandFacts, StageOf, DiskFacts DEF SessionsInv, VolumesSound, VolumeSound, CommandIs
  <1>24. ServedSound'
    BY <1>1, <1>2, <1>3, <1>4, CommandFacts, StageOf, DiskFacts DEF SessionsInv, ServedSound, CommandIs, whoVars
  <1>25. DisksTyped'
    BY <1>1, <1>2, <1>3, <1>4, DiskFacts DEF DisksTyped
  <1>26. DisksSound'
    BY <1>21, <1>22, <1>23, <1>24 DEF DisksSound
  <1> QED
    BY <1>1, <1>2, <1>3, <1>4, <1>25, <1>26, DiskStep, StagesAre, StageOf

LEMMA ReleasesIt ==
    ASSUME SessionsInv, NEW t \in Task, NEW i \in Id, i = cmd[t].id, 
           CommandIs(t, "none", "none", "idle", None, None), cmd'[t] = Idle,
           UNCHANGED whoVars, UNCHANGED syncVars, UNCHANGED <<serves, issued, late>>, cmd[t].at = "release",
           mounting' = mounting \ {i},
           UNCHANGED <<disks, running, volume, stolen>>
    PROVE  SessionsInv'
  <1>1. \A u \in Task : u # t /\ Exclusive(u) => cmd[u].id # i
    BY StageOf DEF SessionsInv, MountsSound, Exclusive
  <1>21. ServersOwned'
    BY <1>1, CommandFacts, StageOf, DiskFacts DEF SessionsInv, ServersOwned, Owning, CommandIs
  <1>22. MountsSound'
    BY <1>1, CommandFacts, StageOf, DiskFacts DEF SessionsInv, MountsSound, Unborn, Exclusive, CommandIs
  <1>23. VolumesSound'
    BY <1>1, CommandFacts, StageOf, DiskFacts DEF SessionsInv, VolumesSound, VolumeSound, CommandIs
  <1>24. ServedSound'
    BY <1>1, ServedFrame, StageOf DEF whoVars
  <1>25. DisksTyped'
    BY <1>1, DiskFacts DEF DisksTyped
  <1>26. DisksSound'
    BY <1>21, <1>22, <1>23, <1>24 DEF DisksSound
  <1> QED
    BY <1>1, <1>25, <1>26, DiskEnds, StagesAre, StageOf

LEMMA AsksToUnmount ==
    ASSUME SessionsInv, NEW t \in Task, NEW i \in Id, 
           CommandIs(t, "unmount", i, "takeDisk", issued + 1, None),
           UNCHANGED whoVars, UNCHANGED syncVars, late' = late, issued' = issued + 1, issued' \in 1..MaxCommands, cmd[t] = Idle,
           UNCHANGED disksVars,
           serves' = serves
    PROVE  SessionsInv'
  <1>1. UNCHANGED <<disks, mounting, running, volume, serves, stolen>>
    BY DEF disksVars
  <1>2. running \subseteq 1..issued /\ 1..issued \subseteq 1..issued' /\ issued + 1 \notin running
        /\ \A u \in Task : cmd[u].n # issued + 1
    BY DiskFacts, CommandFacts, SessionsAssumption, IdleIs DEF DisksTyped, SessionsAssumption, None
  <1>3. cmd[t].op = "none" /\ cmd[t].at = "idle"
    BY IdleIs
  <1>21. ServersOwned'
    BY <1>1, <1>2, <1>3, CommandFacts, StageOf, DiskFacts DEF SessionsInv, ServersOwned, Owning, CommandIs
  <1>22. MountsSound'
    BY <1>1, <1>2, <1>3, CommandFacts, StageOf, DiskFacts DEF SessionsInv, MountsSound, Unborn, Exclusive, CommandIs
  <1>23. VolumesSound'
    BY <1>1, <1>2, <1>3, CommandFacts, StageOf, DiskFacts DEF SessionsInv, VolumesSound, VolumeSound, CommandIs
  <1>24. ServedSound'
    BY <1>1, <1>2, <1>3, ServedFrame, StageOf DEF whoVars
  <1>25. DisksTyped'
    BY <1>1, <1>2, <1>3, DiskFacts DEF DisksTyped
  <1>26. DisksSound'
    BY <1>21, <1>22, <1>23, <1>24 DEF DisksSound
  <1> QED
    BY <1>1, <1>2, <1>3, <1>25, <1>26, DiskBegins, StagesAre, StageOf, RestFacts DEF RestTyped

LEMMA AsksStatus ==
    ASSUME SessionsInv, NEW t \in Task, NEW i \in Id, 
           CommandIs(t, "status", i, "claim", issued + 1, disks[i]),
           UNCHANGED whoVars, UNCHANGED syncVars, late' = late, issued' = issued + 1, issued' \in 1..MaxCommands, cmd[t] = Idle,
           disks[i] # None,
           UNCHANGED disksVars,
           serves' = serves
    PROVE  SessionsInv'
  <1>1. UNCHANGED <<disks, mounting, running, volume, serves, stolen>>
    BY DEF disksVars
  <1>2. running \subseteq 1..issued /\ 1..issued \subseteq 1..issued' /\ issued + 1 \notin running
        /\ \A u \in Task : cmd[u].n # issued + 1
    BY DiskFacts, CommandFacts, SessionsAssumption, IdleIs DEF DisksTyped, SessionsAssumption, None
  <1>3. cmd[t].op = "none" /\ cmd[t].at = "idle"
    BY IdleIs
  <1>21. ServersOwned'
    BY <1>1, <1>2, <1>3, CommandFacts, StageOf, DiskFacts DEF SessionsInv, ServersOwned, Owning, CommandIs
  <1>22. MountsSound'
    BY <1>1, <1>2, <1>3, CommandFacts, StageOf, DiskFacts DEF SessionsInv, MountsSound, Unborn, Exclusive, CommandIs
  <1>23. VolumesSound'
    BY <1>1, <1>2, <1>3, CommandFacts, StageOf, DiskFacts DEF SessionsInv, VolumesSound, VolumeSound, CommandIs
  <1>24. ServedSound'
    BY <1>1, <1>2, <1>3, ServedFrame, StageOf DEF whoVars
  <1>25. DisksTyped'
    BY <1>1, <1>2, <1>3, DiskFacts DEF DisksTyped
  <1>26. DisksSound'
    BY <1>21, <1>22, <1>23, <1>24 DEF DisksSound
  <1> QED
    BY <1>1, <1>2, <1>3, <1>25, <1>26, DiskBegins, StagesAre, StageOf, RestFacts DEF RestTyped

LEMMA AsksToMount ==
    ASSUME SessionsInv, NEW t \in Task, NEW i \in Id, 
           CommandIs(t, "mount", i, "claim", issued + 1, None),
           UNCHANGED whoVars, UNCHANGED syncVars, late' = late, issued' = issued + 1, issued' \in 1..MaxCommands, cmd[t] = Idle,
           sessions[i] # None,
           serves' = [serves EXCEPT ![issued + 1] = sessions[i]],
           UNCHANGED <<disks, mounting, running, volume, stolen>>
    PROVE  SessionsInv'
  <1>1. /\ serves' \in [Number -> Nat] /\ serves'[issued + 1] = sessions[i]
        /\ \A n \in Number : n # issued + 1 => serves'[n] = serves[n]
    BY RestFacts DEF RestTyped, Number
  <1>2. running \subseteq 1..issued /\ 1..issued \subseteq 1..issued' /\ issued + 1 \notin running
        /\ \A u \in Task : cmd[u].n # issued + 1
    BY DiskFacts, CommandFacts, SessionsAssumption, IdleIs DEF DisksTyped, SessionsAssumption, None
  <1>4. running \subseteq Number /\ \A u \in Task : cmd[u].op # "none" => cmd[u].n \in Number
    BY DiskFacts, CommandFacts, SessionsAssumption DEF DisksTyped, SessionsAssumption, Number
  <1>3. cmd[t].op = "none" /\ cmd[t].at = "idle"
    BY IdleIs
  <1>21. ServersOwned'
    BY <1>1, <1>2, <1>4, <1>3, CommandFacts, StageOf, DiskFacts DEF SessionsInv, ServersOwned, Owning, CommandIs
  <1>22. MountsSound'
    BY <1>1, <1>2, <1>4, <1>3, CommandFacts, StageOf, DiskFacts DEF SessionsInv, MountsSound, Unborn, Exclusive, CommandIs
  <1>23. VolumesSound'
    BY <1>1, <1>2, <1>4, <1>3, CommandFacts, StageOf, DiskFacts DEF SessionsInv, VolumesSound, VolumeSound, CommandIs
  <1>24. ServedSound'
    <2>1. UNCHANGED <<sessions, reused, late, disks>>
      BY DEF whoVars
    <2>2. ASSUME NEW u \in Task, cmd'[u].op = "mount"
          PROVE  /\ serves'[cmd'[u].n] # None
                 /\ cmd'[u].id \notin reused' => sessions'[cmd'[u].id] \in {None, serves'[cmd'[u].n]}
                 /\ cmd'[u].at = "insert" /\ cmd'[u].id \notin late' \cup reused' => sessions'[cmd'[u].id] # None
      <3>1. CASE u = t
        BY <1>1, <2>1, <3>1 DEF CommandIs
      <3>2. CASE u # t
        <4>1. cmd'[u] = cmd[u]
          BY <3>2 DEF CommandIs
        <4>2. serves'[cmd[u].n] = serves[cmd[u].n]
          BY <1>1, <1>2, <1>4, <2>2, <4>1
        <4> QED
          BY <2>1, <2>2, <4>1, <4>2 DEF SessionsInv, ServedSound
      <3> QED
        BY <3>1, <3>2
    <2>3. ASSUME NEW j \in Id \ (late' \cup reused'), disks'[j] # None
          PROVE  \/ sessions'[j] # None /\ serves'[disks'[j]] = sessions'[j]
                 \/ \E u \in Task : cmd'[u].id = j /\ cmd'[u].op = "disconnect"
                        /\ cmd'[u].at \in {"dropConfig", "unregister", "stopTarget", "takeDisk"}
      <3>1. disks[j] \in running
        BY <2>1, <2>3 DEF SessionsInv, ServersOwned
      <3>2. serves'[disks[j]] = serves[disks[j]]
        BY <1>1, <1>2, <1>4, <3>1
      <3>3. \A u \in Task : cmd[u].op = "disconnect" => cmd'[u] = cmd[u]
        BY <1>3 DEF CommandIs
      <3>4. \/ sessions[j] # None /\ serves[disks[j]] = sessions[j]
            \/ \E u \in Task : cmd[u].id = j /\ cmd[u].op = "disconnect"
                   /\ cmd[u].at \in {"dropConfig", "unregister", "stopTarget", "takeDisk"}
        BY <2>1, <2>3 DEF SessionsInv, ServedSound
      <3> QED
        BY <2>1, <3>2, <3>3, <3>4
    <2> QED
      BY <2>2, <2>3 DEF ServedSound
  <1>25. DisksTyped'
    BY <1>1, <1>2, <1>4, <1>3, DiskFacts DEF DisksTyped
  <1>26. DisksSound'
    BY <1>21, <1>22, <1>23, <1>24 DEF DisksSound
  <1> QED
    BY <1>1, <1>2, <1>4, <1>3, <1>25, <1>26, DiskBegins, StagesAre, StageOf

(* ---- The actions on the disks ---- *)
LEMMA TakeDiskKeeps ==
    ASSUME SessionsInv, NEW t \in Task, TakeDisk(t)
    PROVE  SessionsInv'
  <1>1. cmd[t].at = "takeDisk" /\ cmd[t].id \in Id /\ disks[cmd[t].id] \in Nat
    BY StageOf, CommandFacts, DiskFacts DEF TakeDisk, At
  <1>2. UNCHANGED whoVars /\ UNCHANGED syncVars
        /\ UNCHANGED <<mounting, running, volume, serves, stolen, issued, late>>
        /\ disks' = [disks EXCEPT ![cmd[t].id] = None]
    BY DEF TakeDisk, IdOf
  <1>3. CASE disks[cmd[t].id] = None
    <2>1. CommandIs(t, "none", "none", "idle", None, None) /\ cmd'[t] = Idle
      BY <1>3, FinishIs DEF TakeDisk, IdOf
    <2>2. disks' = disks
      BY <1>2, <1>3, DiskFacts DEF DisksTyped
    <2> QED
      BY <1>1, <1>2, <1>3, <2>1, <2>2, TakeNone DEF disksVars
  <1>4. CASE disks[cmd[t].id] # None
    <2>1. CommandIs(t, cmd[t].op, cmd[t].id, "unmount", cmd[t].n, disks[cmd[t].id])
      BY <1>1, <1>4, StepWithIs, StagesListed DEF TakeDisk, IdOf
    <2> QED
      BY <1>1, <1>2, <1>4, <2>1, TakeSome
  <1> QED
    BY <1>3, <1>4

LEMMA UnmountKeeps ==
    ASSUME SessionsInv, NEW t \in Task, Unmount(t)
    PROVE  SessionsInv'
  <1>1. cmd[t].at = "unmount" /\ cmd[t].id \in Id
    BY StageOf, CommandFacts DEF Unmount, At
  <1>2. CommandIs(t, cmd[t].op, cmd[t].id, "stop", cmd[t].n, cmd[t].srv)
    BY StepIs, StagesListed DEF Unmount
  <1> QED
    BY <1>1, <1>2, UnmountsIt DEF Unmount, ForceUnmount, IdOf

LEMMA StopServerKeeps ==
    ASSUME SessionsInv, NEW t \in Task, StopServer(t)
    PROVE  SessionsInv'
  <1>1. cmd[t].at = "stop" /\ cmd[t].id \in Id /\ cmd[t].op \in {"disconnect", "unmount", "mount", "status"}
    BY StageOf, CommandFacts DEF StopServer, At
  <1>2. UNCHANGED whoVars /\ UNCHANGED syncVars
        /\ UNCHANGED <<disks, mounting, volume, serves, stolen, issued, late>>
        /\ running' = running \ {cmd[t].srv}
    BY DEF StopServer
  <1>3. CASE cmd[t].op = "mount" /\ cmd[t].srv # cmd[t].n
    <2>1. Step(t, "start")
      BY <1>3 DEF StopServer
    <2>2. CommandIs(t, cmd[t].op, cmd[t].id, "start", cmd[t].n, cmd[t].srv)
      BY <2>1, StepIs, StagesListed
    <2> QED
      BY <1>1, <1>2, <1>3, <2>2, StopsThenStarts
  <1>4. CASE cmd[t].op \in {"mount", "status"} /\ ~(cmd[t].op = "mount" /\ cmd[t].srv # cmd[t].n)
    <2>1. CommandIs(t, cmd[t].op, cmd[t].id, "release", cmd[t].n, cmd[t].srv)
      BY <1>4, StepIs, StagesListed DEF StopServer
    <2> QED
      BY <1>1, <1>2, <1>4, <2>1, StopsThenReleases
  <1>5. CASE cmd[t].op \in {"disconnect", "unmount"}
    <2>1. CommandIs(t, "none", "none", "idle", None, None) /\ cmd'[t] = Idle
      BY <1>5, FinishIs DEF StopServer
    <2> QED
      BY <1>1, <1>2, <1>5, <2>1, StopsAndEnds
  <1> QED
    BY <1>1, <1>3, <1>4, <1>5

LEMMA ClaimKeeps ==
    ASSUME SessionsInv, NEW t \in Task, Claim(t)
    PROVE  SessionsInv'
  <1>1. cmd[t].at = "claim" /\ cmd[t].id \in Id /\ cmd[t].op \in {"mount", "status"}
    BY StageOf, CommandFacts DEF Claim, At
  <1>2. UNCHANGED whoVars /\ UNCHANGED syncVars
        /\ UNCHANGED <<disks, running, volume, serves, stolen, issued, late>>
    BY DEF Claim
  <1>3. CASE cmd[t].id \in mounting
    <2>1. CommandIs(t, "none", "none", "idle", None, None) /\ cmd'[t] = Idle /\ mounting' = mounting
      BY <1>3, FinishIs DEF Claim, IdOf
    <2> QED
      BY <1>1, <1>2, <1>3, <2>1, ClaimedAlready DEF disksVars
  <1>4. CASE cmd[t].id \notin mounting /\ cmd[t].op = "mount"
    <2>1. Step(t, "look") /\ mounting' = mounting \cup {cmd[t].id}
      BY <1>4 DEF Claim, IdOf
    <2>2. CommandIs(t, cmd[t].op, cmd[t].id, "look", cmd[t].n, cmd[t].srv)
      BY <2>1, StepIs, StagesListed
    <2> QED
      BY <1>1, <1>2, <1>4, <2>1, <2>2, ClaimsToMount
  <1>5. CASE cmd[t].id \notin mounting /\ cmd[t].op = "status"
    <2>1. Step(t, "takeOld") /\ mounting' = mounting \cup {cmd[t].id}
      BY <1>5 DEF Claim, IdOf
    <2>2. CommandIs(t, cmd[t].op, cmd[t].id, "takeOld", cmd[t].n, cmd[t].srv)
      BY <2>1, StepIs, StagesListed
    <2> QED
      BY <1>1, <1>2, <1>5, <2>1, <2>2, ClaimsToRetire
  <1> QED
    BY <1>1, <1>3, <1>4, <1>5

LEMMA LookAtDiskKeeps ==
    ASSUME SessionsInv, NEW t \in Task, LookAtDisk(t)
    PROVE  SessionsInv'
  <1> DEFINE s == disks[cmd[t].id]
  <1>1. cmd[t].at = "look" /\ cmd[t].id \in Id /\ s \in Nat
    BY StageOf, CommandFacts, DiskFacts DEF LookAtDisk, At
  <1>2. UNCHANGED whoVars /\ UNCHANGED syncVars /\ UNCHANGED disksVars /\ UNCHANGED <<serves, issued, late>>
    BY DEF LookAtDisk, disksVars
  <1>3. CASE s = None
    <2>1. cmd' = [cmd EXCEPT ![t].at = "start", ![t].srv = s]
      BY <1>3 DEF LookAtDisk, IdOf
    <2>2. CommandIs(t, cmd[t].op, cmd[t].id, "start", cmd[t].n, s)
      BY <1>1, <2>1, StepWithIs, StagesListed
    <2> QED
      BY <1>1, <1>2, <1>3, <2>2, LooksAtNone
  <1>4. CASE s # None /\ Ejected(cmd[t].id, s)
    <2>1. cmd' = [cmd EXCEPT ![t].at = "takeOld", ![t].srv = s]
      BY <1>4 DEF LookAtDisk, IdOf
    <2>2. CommandIs(t, cmd[t].op, cmd[t].id, "takeOld", cmd[t].n, s)
      BY <1>1, <2>1, StepWithIs, StagesListed
    <2> QED
      BY <1>1, <1>2, <1>4, <2>2, LooksAtEjected
  <1>5. CASE s # None /\ ~Ejected(cmd[t].id, s)
    <2>1. cmd' = [cmd EXCEPT ![t].at = "release", ![t].srv = s]
      BY <1>5 DEF LookAtDisk, IdOf
    <2>2. CommandIs(t, cmd[t].op, cmd[t].id, "release", cmd[t].n, s)
      BY <1>1, <2>1, StepWithIs, StagesListed
    <2> QED
      BY <1>1, <1>2, <2>2, LooksAtMounted
  <1> QED
    BY <1>3, <1>4, <1>5

LEMMA TakeOldKeeps ==
    ASSUME SessionsInv, NEW t \in Task, TakeOld(t)
    PROVE  SessionsInv'
  <1>1. cmd[t].at = "takeOld" /\ cmd[t].id \in Id /\ cmd[t].op \in {"mount", "status"}
    BY StageOf, CommandFacts DEF TakeOld, At
  <1>2. UNCHANGED whoVars /\ UNCHANGED syncVars
        /\ UNCHANGED <<mounting, running, volume, serves, stolen, issued, late>>
    BY DEF TakeOld
  <1>3. CASE disks[cmd[t].id] = cmd[t].srv
    <2>1. CommandIs(t, cmd[t].op, cmd[t].id, "unmount", cmd[t].n, cmd[t].srv)
          /\ disks' = [disks EXCEPT ![cmd[t].id] = None]
      BY <1>3, StepIs, StagesListed DEF TakeOld, IdOf
    <2> QED
      BY <1>1, <1>2, <1>3, <2>1, TakesOld
  <1>4. CASE disks[cmd[t].id] # cmd[t].srv /\ cmd[t].op = "mount"
    <2>1. Step(t, "start") /\ disks' = disks
      BY <1>4 DEF TakeOld, IdOf
    <2>2. CommandIs(t, cmd[t].op, cmd[t].id, "start", cmd[t].n, cmd[t].srv)
      BY <2>1, StepIs, StagesListed
    <2> QED
      BY <1>1, <1>2, <1>4, <2>1, <2>2, OldGone
  <1>5. CASE disks[cmd[t].id] # cmd[t].srv /\ cmd[t].op = "status"
    <2>1. Step(t, "release") /\ disks' = disks
      BY <1>5 DEF TakeOld, IdOf
    <2>2. CommandIs(t, cmd[t].op, cmd[t].id, "release", cmd[t].n, cmd[t].srv)
      BY <2>1, StepIs, StagesListed
    <2> QED
      BY <1>1, <1>2, <1>5, <2>1, <2>2, RetiredAlready
  <1> QED
    BY <1>1, <1>3, <1>4, <1>5

LEMMA StartKeeps ==
    ASSUME SessionsInv, NEW t \in Task, Start(t)
    PROVE  SessionsInv'
  <1>1. cmd[t].at = "start" /\ cmd[t].id \in Id /\ cmd[t].n \in Nat
    BY StageOf, CommandFacts, SessionsAssumption DEF Start, At, SessionsAssumption
  <1>2. CommandIs(t, cmd[t].op, cmd[t].id, "mountIt", cmd[t].n, cmd[t].n)
    BY <1>1, StepWithIs, StagesListed DEF Start
  <1> QED
    BY <1>1, <1>2, StartsServer DEF Start, ForceUnmount, IdOf

LEMMA MountInOsKeeps ==
    ASSUME SessionsInv, NEW t \in Task, MountInOs(t)
    PROVE  SessionsInv'
  <1>1. cmd[t].at = "mountIt" /\ cmd[t].id \in Id
    BY StageOf, CommandFacts DEF MountInOs, At
  <1>2. UNCHANGED whoVars /\ UNCHANGED syncVars
        /\ UNCHANGED <<disks, mounting, running, serves, stolen, issued, late>>
    BY DEF MountInOs
  <1>3. CASE Step(t, "check") /\ volume' = [volume EXCEPT ![cmd[t].id] = cmd[t].srv]
    <2>1. CommandIs(t, cmd[t].op, cmd[t].id, "check", cmd[t].n, cmd[t].srv)
      BY <1>3, StepIs, StagesListed
    <2> QED
      BY <1>1, <1>2, <1>3, <2>1, MountsVolume
  <1>4. CASE Step(t, "stop") /\ UNCHANGED volume
    <2>1. CommandIs(t, cmd[t].op, cmd[t].id, "stop", cmd[t].n, cmd[t].srv)
      BY <1>4, StepIs, StagesListed
    <2> QED
      BY <1>1, <1>2, <1>4, <2>1, MountFails
  <1> QED
    BY <1>3, <1>4 DEF MountInOs, IdOf

LEMMA CheckConnectedKeeps ==
    ASSUME SessionsInv, NEW t \in Task, CheckConnected(t)
    PROVE  SessionsInv'
  <1>1. cmd[t].at = "check" /\ cmd[t].id \in Id
    BY StageOf, CommandFacts DEF CheckConnected, At
  <1>2. UNCHANGED whoVars /\ UNCHANGED syncVars /\ UNCHANGED disksVars /\ UNCHANGED <<serves, issued, late>>
    BY DEF CheckConnected, disksVars
  <1>3. CASE sessions[cmd[t].id] = None
    <2>1. Step(t, "unmount")
      BY <1>3 DEF CheckConnected, IdOf
    <2>2. CommandIs(t, cmd[t].op, cmd[t].id, "unmount", cmd[t].n, cmd[t].srv)
      BY <2>1, StepIs, StagesListed
    <2> QED
      BY <1>1, <1>2, <2>2, SessionIsGone
  <1>4. CASE sessions[cmd[t].id] # None
    <2>1. Step(t, "insert")
      BY <1>4 DEF CheckConnected, IdOf
    <2>2. CommandIs(t, cmd[t].op, cmd[t].id, "insert", cmd[t].n, cmd[t].srv)
      BY <2>1, StepIs, StagesListed
    <2> QED
      BY <1>1, <1>2, <1>4, <2>2, SessionIsThere
  <1> QED
    BY <1>3, <1>4

LEMMA InsertDiskKeeps ==
    ASSUME SessionsInv, NEW t \in Task, InsertDisk(t)
    PROVE  SessionsInv'
  <1>1. cmd[t].at = "insert" /\ cmd[t].id \in Id
    BY StageOf, CommandFacts DEF InsertDisk, At
  <1>2. CommandIs(t, cmd[t].op, cmd[t].id, "release", cmd[t].n, cmd[t].srv)
    BY StepIs, StagesListed DEF InsertDisk
  <1> QED
    BY <1>1, <1>2, InsertsDisk DEF InsertDisk, IdOf

LEMMA ReleaseKeeps ==
    ASSUME SessionsInv, NEW t \in Task, Release(t)
    PROVE  SessionsInv'
  <1>1. cmd[t].at = "release" /\ cmd[t].id \in Id
    BY StageOf, CommandFacts DEF Release, At
  <1>2. CommandIs(t, "none", "none", "idle", None, None) /\ cmd'[t] = Idle
    BY FinishIs DEF Release
  <1> QED
    BY <1>1, <1>2, ReleasesIt DEF Release, IdOf

LEMMA UnmountDiskKeeps ==
    ASSUME SessionsInv, NEW t \in Task, NEW i \in Id, UnmountDisk(t, i)
    PROVE  SessionsInv'
  <1>1. CommandIs(t, "unmount", i, "takeDisk", issued + 1, None) /\ issued' = issued + 1 /\ cmd[t] = Idle
        /\ issued' \in 1..MaxCommands
    BY IssueIs, StagesListed DEF UnmountDisk, Commands
  <1> QED
    BY <1>1, AsksToUnmount DEF UnmountDisk, disksVars

LEMMA StatusKeeps ==
    ASSUME SessionsInv, NEW t \in Task, NEW i \in Id, Status(t, i)
    PROVE  SessionsInv'
  <1>1. disks[i] \in Nat /\ "claim" \in AllStages /\ "status" \in Commands
    BY DiskFacts, StagesListed DEF Commands
  <1>2. CommandIs(t, "status", i, "claim", issued + 1, disks[i]) /\ issued' \in 1..MaxCommands
    BY <1>1, NewIs DEF Status
  <1> QED
    BY <1>2, AsksStatus DEF Status, disksVars

LEMMA MountKeeps ==
    ASSUME SessionsInv, NEW t \in Task, NEW i \in Id, Mount(t, i)
    PROVE  SessionsInv'
  <1>1. CommandIs(t, "mount", i, "claim", issued + 1, None) /\ issued' = issued + 1 /\ cmd[t] = Idle
        /\ issued' \in 1..MaxCommands
    BY IssueIs, StagesListed DEF Mount, Commands
  <1> QED
    BY <1>1, AsksToMount DEF Mount

(* ---- The invariant and what follows from it ---- *)
LEMMA SessionsBegin == SessionsInit => SessionsInv
  <1> SUFFICES ASSUME SessionsInit PROVE SessionsInv
    OBVIOUS
  <1>1. \A t \in Task : cmd[t] = Idle
    BY DEF SessionsInit
  <1>2. RestTyped
    <2>1. None \in SomeNumber /\ None \in Nat
      BY SessionsAssumption DEF SessionsAssumption, SomeNumber, None
    <2>2. NoRun \in [id : Id \cup {"none"}, at : {"none", "on", "winding", "over"}]
      BY DEF NoRun
    <2>3. issued \in 0..MaxCommands
      BY SessionsAssumption DEF SessionsAssumption, SessionsInit
    <2> QED
      BY <2>1, <2>2, <2>3 DEF RestTyped, SessionsInit
  <1>3. SessionsTyped
    BY <1>2, IdleIs DEF SessionsTyped, RestTyped, SessionsInit, CmdSet, AllStages
  <1>4. CommandsSound /\ ConnectedSound
    BY <1>1, IdleIs, StagesAre DEF CommandsSound, ConnectedSound
  <1>5. RegisteredSound
    BY DEF RegisteredSound, SessionsInit
  <1>6. ServersOwned /\ MountsSound
    BY <1>1, IdleIs DEF ServersOwned, MountsSound, Unborn, Exclusive, Owning, SessionsInit
  <1>7. VolumesSound /\ ServedSound
    BY <1>1, IdleIs DEF VolumesSound, VolumeSound, ServedSound, SessionsInit
  <1>8. SyncSound
    BY <1>1, IdleIs DEF SyncSound, SessionsInit, NoRun
  <1> QED
    BY <1>3, <1>4, <1>5, <1>6, <1>7, <1>8 DEF SessionsInv

LEMMA SessionsStep == SessionsInv /\ [SessionsNext]_sessionVars => SessionsInv'
  <1> SUFFICES ASSUME SessionsInv, [SessionsNext]_sessionVars PROVE SessionsInv'
    OBVIOUS
  <1>1. CASE SessionsNext
    BY <1>1, ConnectKeeps, DisconnectKeeps, UnmountDiskKeeps, MountKeeps, StatusKeeps, SyncCommandKeeps,
       PutConfigKeeps, RegisterKeeps, DropConfigKeeps, UnregisterKeeps, StopIfTargetsKeeps, TakeDiskKeeps,
       UnmountKeeps, StopServerKeeps, ClaimKeeps, LookAtDiskKeeps, TakeOldKeeps, StartKeeps, MountInOsKeeps,
       CheckConnectedKeeps, InsertDiskKeeps, ReleaseKeeps, StartLockKeeps, WatchKeeps, StopCommandKeeps,
       EjectKeeps, RunEndsKeeps, RunClearsKeeps DEF SessionsNext
  <1>2. CASE UNCHANGED sessionVars
    <2>1. UNCHANGED whoVars /\ UNCHANGED disksVars /\ UNCHANGED syncVars /\ UNCHANGED <<cmd, issued, late>>
      BY <1>2 DEF sessionVars
    <2>2. RestTyped'
      BY <2>1, RestFacts DEF RestTyped, whoVars, disksVars, syncVars
    <2>3. VolumesSound' /\ SyncSound'
      BY <2>1 DEF SessionsInv, VolumesSound, VolumeSound, SyncSound, disksVars, syncVars
    <2>4. issued' \in issued..MaxCommands
      BY <2>1, RestFacts, SessionsAssumption DEF RestTyped, SessionsAssumption
    <2> QED
      BY <2>1, <2>2, <2>3, <2>4, AloneKeeps DEF disksVars
  <1> QED
    BY <1>1, <1>2

(* Every state of the tables and tasks of the desktop satisfies the        *)
(* inductive invariant.                                                    *)
THEOREM SessionsInductive == SessionsSpec => []SessionsInv
  BY SessionsBegin, SessionsStep, PTL DEF SessionsSpec

LEMMA DriversHold == SessionsInv => OneSessionOneDriver
  <1> SUFFICES ASSUME SessionsInv, Quiet, NEW i \in Id \ reused
               PROVE  configs[i] = sessions[i] /\ agents[i] = sessions[i]
    BY DEF OneSessionOneDriver
  <1>1. \A t \in Task : cmd[t].at = "idle"
    BY IdleIs DEF Quiet
  <1> QED
    BY <1>1 DEF SessionsInv, RegisteredSound

LEMMA VolumesHold == SessionsInv => VolumesHaveServers
  BY DEF SessionsInv, VolumesSound, VolumeSound, ServersOwned, Owning, VolumesHaveServers

LEMMA DisksHold == SessionsInv => DisksAreMounted /\ DiskOfLiveSession
  <1> SUFFICES ASSUME SessionsInv, Quiet
               PROVE  /\ running \subseteq {disks[i] : i \in Id}
                      /\ \A i \in Id \ stolen : disks[i] = volume[i]
                      /\ \A i \in Id \ (late \cup reused) :
                             disks[i] # None => sessions[i] # None /\ serves[disks[i]] = sessions[i]
    BY DEF DisksAreMounted, DiskOfLiveSession
  <1>1. \A t \in Task : cmd[t].at = "idle" /\ cmd[t].op = "none"
    BY IdleIs DEF Quiet
  <1>2. running \subseteq {disks[i] : i \in Id}
    BY <1>1 DEF SessionsInv, ServersOwned, Owning
  <1>3. \A i \in Id \ stolen : disks[i] = volume[i]
    BY <1>1 DEF SessionsInv, VolumesSound, VolumeSound
  <1>4. \A i \in Id \ (late \cup reused) : disks[i] # None => sessions[i] # None /\ serves[disks[i]] = sessions[i]
    BY <1>1 DEF SessionsInv, ServedSound
  <1> QED
    BY <1>2, <1>3, <1>4

LEMMA SyncHolds == SessionsInv => ActiveIsRunning
  BY DEF SessionsInv, SyncSound, ActiveIsRunning

(* An id has one driver in every table, what is mounted, served and listed *)
(* is one disk of a live session, and continuous sync is reported active   *)
(* exactly while a run is (connect_session, disconnect_session,            *)
(* mount_virtual_disk, start_continuous_sync).                             *)
THEOREM SessionsAreTrue == SessionsSpec => []SessionsAreSound
  <1>1. SessionsInv => SessionsAreSound
    BY DriversHold, VolumesHold, DisksHold, SyncHolds DEF SessionsAreSound, DisksAreServed
  <1> QED
    BY <1>1, SessionsInductive, PTL
=============================================================================
