----------------------------- MODULE Terminals -----------------------------
(***************************************************************************)
(* A built-in terminal, from the shell on its SSH connection (core         *)
(* terminal.rs) over the state the application keeps of it (terminal.rs of *)
(* the desktop) to its tab and view in the window (terminalStore.ts).  The *)
(* connections a terminal has had are numbered by its generations.         *)
(***************************************************************************)
EXTENDS Naturals, Sequences, FiniteSets, TLC

CONSTANTS
    Generations,   \* bound: connections of the terminal
    MaxSeq,        \* bound: pieces of output
    Redraws        \* bound: how often the window is loaded, or a view made, again

ASSUME TerminalAssumption ==
    {Generations, MaxSeq, Redraws} \subseteq Nat /\ Generations > 0

VARIABLES
    registered,   \* the terminal is in TerminalState
    live,     \* Live: generation, handle (0: none), status, seq, busy, integration
    remote,    \* each connection: where it is, Close in its input, the prompt, lines
              \* entered, output the flush task has not taken
    opens,     \* the open or reconnect that made each connection
    typing,   \* send_input between note_input and the write
    events,   \* on their way to the window
    closes,   \* terminal_close on its way to the backend
    win,      \* the window
    screen,   \* what the view shows: output 1..upto, with a gap or a piece twice
    redraws,
    history   \* history: connections closed while they were opened; typed ahead;
              \* an exit that came before the tab was back; a view made again

termVars == <<registered, live, remote, opens, typing, events, closes, win, screen, redraws, history>>
backend  == <<registered, live, remote, opens, typing>>
frontend == <<win, screen, redraws>>

Gen   == 1..Generations
Blank == [upto |-> 0, gap |-> FALSE, twice |-> FALSE]
NoTab == [tab |-> "none", last |-> 0, view |-> "none", viewed |-> FALSE, pending |-> <<>>]
Loaded(page, t) ==
    [page |-> page, info |-> "none", snap |-> 0, orphans |-> <<>>, viewSnap |-> 0] @@ t
NewLive(g) == [gen |-> g, handle |-> 0, status |-> "connecting", seq |-> 0, busy |-> FALSE,
               integration |-> FALSE]

Alive(g)      == remote[g].at = "up"
Emit(e)    == events' = IF win.page = "gone" THEN events ELSE Append(events, e)
HangUp(g)  == remote' = IF g = 0 THEN remote ELSE [remote EXCEPT ![g].close = TRUE]
CallIs(g, a) == opens' = [opens EXCEPT ![g].at = a]

(* ------------------------------- the shell ------------------------------ *)
(* The task of a connection (run): output, the end of the remote, or Close. *)
Says(g, o, line) ==
    remote' = [remote EXCEPT ![g].out = Append(@, o), ![g].line = line]
Prints(g) ==
    /\ Alive(g) /\ Len(remote[g].out) + live.seq < MaxSeq
    /\ \/ remote[g].line \in {"starting", "running"} /\ Says(g, "prompt", "prompt")
       \/ remote[g].line = "running" /\ Says(g, "text", "running")
RunsLine(g) ==
    /\ Alive(g) /\ remote[g].line = "prompt" /\ remote[g].entered > 0
    /\ remote' = [remote EXCEPT ![g].line = "running", ![g].entered = @ - 1]
ShellEnds(g) ==
    /\ Alive(g)
    /\ \E o \in IF remote[g].close THEN {"closed"} ELSE {"closed", "lost"} :
           remote' = [remote EXCEPT ![g].at = "over", ![g].out = Append(@, o)]
Shell(g) ==
    /\ Prints(g) \/ RunsLine(g) \/ ShellEnds(g)
    /\ UNCHANGED <<registered, live, opens, typing, events, closes, frontend, history>>

(* ------------------------------ flush_output ---------------------------- *)
(* Takes over a piece of output and tells the window: the event follows    *)
(* the change at once (a call of the window takes a round trip).           *)
(* Mutant: any output ends what is busy.                                   *)
AbsorbedAny(o) ==
    [live EXCEPT !.status = IF @ = "connecting" THEN "running" ELSE @, !.seq = @ + 1,
                 !.integration = @ \/ o = "prompt", !.busy = FALSE]
Absorbed(o) ==
    [live EXCEPT !.status = IF @ = "connecting" THEN "running" ELSE @, !.seq = @ + 1,
                 !.integration = @ \/ o = "prompt", !.busy = @ /\ o # "prompt"]
Absorb(g) ==
    /\ remote[g].out # <<>> /\ Head(remote[g].out) \notin {"closed", "lost"}
    /\ remote' = [remote EXCEPT ![g].out = Tail(@)]
    /\ IF live.gen # g THEN UNCHANGED <<live, events>>
       ELSE /\ live' = Absorbed(Head(remote[g].out))
            /\ Emit([is |-> "output", seq |-> live.seq + 1])
    /\ UNCHANGED <<registered, opens, typing, closes, frontend, history>>
Closed(g) ==
    IF live.gen # g THEN UNCHANGED <<live, events>>
    ELSE /\ live' = [live EXCEPT !.handle = 0, !.busy = FALSE,
                                 !.status = IF Head(remote[g].out) = "lost" THEN "lost" ELSE "exited"]
         /\ Emit([is |-> live'.status, seq |-> 0])
AbsorbClosed(g) ==
    /\ remote[g].out # <<>> /\ Head(remote[g].out) \in {"closed", "lost"}
    /\ remote' = [remote EXCEPT ![g].out = Tail(@)]
    /\ Closed(g)
    /\ UNCHANGED <<registered, opens, typing, closes, frontend, history>>

(* ------------------------------- commands ------------------------------- *)
(* terminal_open registers the terminal, unless the session is gone.       *)
ListTerminal(g) ==
    /\ opens[g].at = "asked"
    /\ \/ /\ registered' = TRUE /\ live' = NewLive(g)
          /\ CallIs(g, "opening")
       \/ CallIs(g, "failed") /\ UNCHANGED <<registered, live>>
    /\ UNCHANGED <<remote, typing, events, closes, frontend, history>>
Opened(g) ==
    /\ opens[g].at = "opening"
    /\ \/ remote' = [remote EXCEPT ![g].at = "up"] /\ CallIs(g, "opened") /\ UNCHANGED <<registered, live>>
       \/ /\ live' = IF live.gen = g THEN [live EXCEPT !.status = "lost"] ELSE live
          /\ registered' = (registered /\ ~opens[g].open)
          /\ CallIs(g, "failed") /\ UNCHANGED remote
    /\ UNCHANGED <<typing, events, closes, frontend, history>>
SetHandle(g) ==
    IF live.gen = g THEN live' = [live EXCEPT !.handle = g] /\ UNCHANGED remote
    ELSE HangUp(g) /\ UNCHANGED live
Connected(g) ==
    /\ opens[g].at = "opened" /\ SetHandle(g)
    /\ opens' = [opens EXCEPT ![g].at = "ok", ![g].info = live.status]
    /\ UNCHANGED <<registered, typing, events, closes, frontend, history>>
(* Mutant: terminal_close takes the terminal from the list only.           *)
CloseListed ==
    registered' = FALSE /\ UNCHANGED <<live, remote>>
Forget ==
    /\ registered' = FALSE /\ HangUp(live.handle) /\ live' = [live EXCEPT !.handle = 0]
Close ==
    /\ closes > 0 /\ closes' = closes - 1
    /\ IF registered THEN Forget ELSE UNCHANGED <<registered, live, remote>>
    /\ history' = [history EXCEPT !.abandoned = @ \cup
           {g \in Gen : registered /\ g = live.gen /\ opens[g].at \in {"opening", "opened"}}]
    /\ UNCHANGED <<opens, typing, events, frontend>>

(* send_input: the state is noted before the line can have an effect.      *)
Usable == live.handle # 0 /\ Alive(live.handle)
Note ==
    /\ win.tab = "running" /\ typing = 0 /\ remote[live.gen].entered = 0 /\ registered /\ Usable /\ win.page = "ready"
    /\ typing' = live.gen
    /\ live' = [live EXCEPT !.busy = @ \/ live.integration]
    /\ history' = [history EXCEPT !.ahead = @ \/ remote[live.gen].line # "prompt"
                                              \/ remote[live.gen].out # <<>> \/ remote[live.gen].entered > 0]
    /\ UNCHANGED <<registered, remote, opens, events, closes, frontend>>
WriteInput ==
    /\ typing # 0 /\ typing' = 0
    /\ remote' = IF Alive(typing) THEN [remote EXCEPT ![typing].entered = @ + 1] ELSE remote
    /\ UNCHANGED <<registered, live, opens, events, closes, frontend, history>>

(* ------------------------------ the window ------------------------------ *)
Ready == win.page = "ready"
NextGen == CHOOSE g \in Gen : opens[g].at = "none" /\ \A h \in 1..(g - 1) : opens[h].at # "none"
OpenTab ==          \* a new tab, or a first connection that failed tried again
    /\ Ready
    /\ win.tab = "failed" \/ (win.tab = "none" /\ opens[1].at = "none")
    /\ \E g \in Gen : opens[g].at = "none"
    /\ opens' = [opens EXCEPT ![NextGen] = [at |-> "asked", open |-> TRUE, deaf |-> FALSE, info |-> "none"]]
    /\ win' = [win EXCEPT !.tab = "connecting"]
    /\ UNCHANGED <<registered, live, remote, typing, events, closes, screen, redraws, history>>
ReconnectTab ==     \* what was on its way has come when a person sees the tab and decides
    /\ Ready /\ events = <<>> /\ \A g \in Gen : opens[g].at \in {"none", "over"} \/ opens[g].deaf
    /\ win.tab \in {"exited", "lost"} /\ registered /\ \E g \in Gen : opens[g].at = "none"
    /\ opens' = [opens EXCEPT ![NextGen] = [at |-> "opening", open |-> FALSE, deaf |-> FALSE, info |-> "none"]]
    /\ HangUp(live.handle)
    /\ live' = [NewLive(NextGen) EXCEPT !.seq = live.seq]
    /\ win' = [win EXCEPT !.tab = "connecting"]
    /\ UNCHANGED <<registered, typing, events, closes, screen, redraws, history>>
OpenAnswered(g) ==   \* a tab closed meanwhile has its terminal closed again
    /\ opens[g].at \in {"ok", "failed"} /\ ~opens[g].deaf
    /\ CallIs(g, "over")
    /\ win' = [win EXCEPT !.tab =
           IF @ = "none" THEN "none"
           ELSE IF opens[g].at = "failed" THEN IF opens[g].open THEN "failed" ELSE "lost"
           ELSE IF @ # "connecting" THEN @
           ELSE IF opens[g].open /\ opens[g].info # "connecting" THEN opens[g].info ELSE "running"]
    /\ closes' = closes + (IF win.tab = "none" /\ opens[g].open /\ opens[g].at = "ok" THEN 1 ELSE 0)
    /\ UNCHANGED <<registered, live, remote, typing, events, screen, redraws, history>>
CloseTab ==
    /\ Ready /\ win.tab # "none"
    /\ win' = Loaded("ready", NoTab) /\ screen' = Blank /\ closes' = closes + 1
    /\ UNCHANGED <<backend, events, redraws, history>>

Shown(s, piece) ==
    [upto  |-> IF piece[2] > s.upto THEN piece[2] ELSE s.upto,
     gap   |-> s.gap \/ piece[1] > s.upto + 1,
     twice |-> s.twice \/ piece[1] <= s.upto]
AllShown(s, pieces) ==
    LET f[i \in 0..Len(pieces)] == IF i = 0 THEN s ELSE Shown(f[i - 1], pieces[i]) IN f[Len(pieces)]
(* deliver: to the view, or kept until there is one.                       *)
Deliver(w, piece) ==
    IF w.view = "on" THEN win' = w /\ screen' = Shown(screen, piece)
    ELSE win' = [w EXCEPT !.pending = Append(@, piece)] /\ UNCHANGED screen
OnOutput(seq) ==
    CASE win.tab = "none" /\ win.page # "ready" ->
             win' = [win EXCEPT !.orphans = Append(@, seq)] /\ UNCHANGED screen
      [] win.tab # "none" /\ seq > win.last ->
             Deliver([win EXCEPT !.last = seq, !.tab = IF @ = "connecting" THEN "running" ELSE @], <<seq, seq>>)
      [] OTHER -> UNCHANGED <<win, screen>>
Event ==
    /\ events # <<>> /\ win.page # "gone" /\ events' = Tail(events)
    /\ LET e == Head(events) IN
       IF e.is = "output" THEN OnOutput(e.seq) /\ UNCHANGED history
       ELSE /\ win' = IF win.tab = "none" THEN win ELSE [win EXCEPT !.tab = e.is]
            /\ history' = [history EXCEPT !.missed = @ \/ ~Ready]
            /\ UNCHANGED screen
    /\ UNCHANGED <<backend, closes, redraws>>

(* initTerminalStore after a reload: it listens, asks for the list, then   *)
(* for what was printed, and continues with what came meanwhile.           *)
Reload ==        \* closing is over long before the page is there again
    /\ Ready /\ closes = 0 /\ redraws < Redraws /\ redraws' = redraws + 1
    /\ win' = Loaded("gone", NoTab) /\ screen' = Blank /\ events' = <<>>
    /\ opens' = [g \in Gen |-> [opens[g] EXCEPT !.deaf = @ \/ opens[g].at \notin {"none", "over"}]]
    /\ UNCHANGED <<registered, live, remote, typing, closes, history>>
Loads ==
    \/ win.page = "gone"    /\ win' = [win EXCEPT !.page = "listing"]
    \/ win.page = "listing" /\ win' = [win EXCEPT !.page = IF registered THEN "asking" ELSE "ready", !.info = live.status]
    \/ win.page = "asking"  /\ win' = [win EXCEPT !.page = "told", !.snap = IF registered THEN live.seq ELSE 0]
Load ==
    /\ Loads
    /\ UNCHANGED <<backend, events, closes, screen, redraws, history>>
(* Mutant: what came meanwhile is shown also if the snapshot has it.        *)
AllOrphans(snap) == [i \in 1..Len(win.orphans) |-> <<win.orphans[i], win.orphans[i]>>]
Later(snap) ==
    LET s == SelectSeq(win.orphans, LAMBDA n : n > snap) IN [i \in 1..Len(s) |-> <<s[i], s[i]>>]
Restore ==
    /\ win.page = "told"
    /\ win' = Loaded("ready",
           [tab |-> IF Later(win.snap) # <<>> /\ win.info = "connecting" THEN "running" ELSE win.info,
            last |-> IF Later(win.snap) = <<>> THEN win.snap ELSE Later(win.snap)[Len(Later(win.snap))][2],
            view |-> "none", viewed |-> FALSE,
            pending |-> (IF win.snap = 0 THEN <<>> ELSE <<<<1, win.snap>>>>) \o Later(win.snap)])
    /\ UNCHANGED <<backend, events, closes, screen, redraws, history>>

(* registerView: the first view gets what was kept; a view made again is   *)
(* redrawn from the backend, then gets what came after.                    *)
MountView ==
    /\ Ready /\ win.tab # "none" /\ win.view = "none"
    /\ IF win.viewed THEN win' = [win EXCEPT !.view = "asking"] /\ UNCHANGED screen
       ELSE /\ win' = [win EXCEPT !.view = "on", !.viewed = TRUE, !.pending = <<>>]
            /\ screen' = AllShown(Blank, win.pending)
    /\ UNCHANGED <<backend, events, closes, redraws, history>>
UnmountView ==
    /\ win.view # "none" /\ redraws < Redraws /\ redraws' = redraws + 1
    /\ win' = [win EXCEPT !.view = "none"] /\ screen' = Blank
    /\ history' = [history EXCEPT !.again = TRUE]
    /\ UNCHANGED <<backend, events, closes>>
SnapshotTaken ==
    /\ win.view = "asking" /\ registered
    /\ win' = [win EXCEPT !.view = "restoring", !.viewSnap = live.seq]
    /\ UNCHANGED <<backend, events, closes, screen, redraws, history>>
(* Mutant: what came while the snapshot was fetched is taken to be in it.   *)
NoneQueued(snap) == <<>>
Queued(snap) == SelectSeq(win.pending, LAMBDA p : p[2] > snap)
Redrawn ==
    /\ win.view = "restoring"
    /\ win' = [win EXCEPT !.view = "on", !.pending = <<>>, !.viewSnap = 0]
    /\ screen' = AllShown(Blank, (IF win.viewSnap = 0 THEN <<>> ELSE <<<<1, win.viewSnap>>>>) \o Queued(win.viewSnap))
    /\ UNCHANGED <<backend, events, closes, redraws, history>>

TerminalsInit ==
    /\ registered = FALSE /\ live = NewLive(0) /\ typing = 0 /\ events = <<>> /\ closes = 0
    /\ remote = [g \in Gen |-> [at |-> "none", close |-> FALSE, line |-> "starting", entered |-> 0, out |-> <<>>]]
    /\ opens = [g \in Gen |-> [at |-> "none", open |-> FALSE, deaf |-> FALSE, info |-> "none"]]
    /\ win = Loaded("ready", NoTab) /\ screen = Blank /\ redraws = 0
    /\ history = [abandoned |-> {}, ahead |-> FALSE, missed |-> FALSE, again |-> FALSE]
TerminalsNext ==
    \/ \E g \in Gen :
           \/ Shell(g) \/ Absorb(g) \/ AbsorbClosed(g)
           \/ ListTerminal(g) \/ Opened(g) \/ Connected(g) \/ OpenAnswered(g)
    \/ Close \/ Note \/ WriteInput \/ OpenTab \/ ReconnectTab \/ CloseTab
    \/ Event \/ Reload \/ Load \/ Restore \/ MountView \/ UnmountView \/ SnapshotTaken \/ Redrawn
TerminalsSpec == TerminalsInit /\ [][TerminalsNext]_termVars

(* ------------------------------- Properties ----------------------------- *)
(* A shell that runs can be reached from the list, is still being handed   *)
(* over, or was told to end.  The exception is a defect of the code: a     *)
(* terminal closed while it connects is off the list when its shell comes. *)
ShellsAreReachable ==
    \A g \in Gen : Alive(g) /\ ~remote[g].close =>
        \/ registered /\ live.handle = g
        \/ opens[g].at = "opened" \/ g \in history.abandoned
(* Whatever the window was doing when output came, a reload or a new view  *)
(* included: no piece is missing from the screen, and none is there twice  *)
(* unless a view was made again (its snapshot may hold events on their way).*)
ScreenIsWhole ==
    /\ ~screen.gap /\ (screen.twice => history.again)
    /\ Ready /\ registered /\ win.view = "on" /\ events = <<>> => screen.upto = live.seq
(* When nothing is under way the tab tells whether there is a connection,  *)
(* unless its end was reported before the reloaded window had the tab.     *)
TabIsTrue ==
    Ready /\ registered /\ events = <<>> /\ ~history.missed
    /\ (\A g \in Gen : opens[g].at \in {"none", "over"} /\ remote[g].out = <<>>) =>
        /\ win.tab = "running" => Usable
        /\ win.tab \in {"exited", "lost", "failed"} => ~Usable
(* If lines are entered at a prompt that is shown: busy is what the shell  *)
(* is once its output has arrived.                                         *)
BusyIsTrue ==
    LET g == live.gen IN
    g # 0 /\ Usable /\ live.integration /\ ~history.ahead /\ typing = 0 /\ remote[g].out = <<>> =>
        (live.busy <=> remote[g].line = "running" \/ remote[g].entered > 0)
TerminalsAreTrue ==
    ShellsAreReachable /\ ScreenIsWhole /\ TabIsTrue /\ BusyIsTrue
=============================================================================
