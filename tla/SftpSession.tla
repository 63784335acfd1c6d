---------------------------- MODULE SftpSession ----------------------------
(***************************************************************************)
(* The main connection of the SFTP driver (sftp.rs): the channel all       *)
(* operations share, how it is started on a session of the connection      *)
(* (natively, or as a command in compatibility mode), what becomes of it   *)
(* when an operation fails, and the file a stream of writes keeps open on  *)
(* it.  Sessions are numbered by session_gen.                              *)
(***************************************************************************)
EXTENDS Naturals, FiniteSets

CONSTANTS
    Op,        \* operations on the shared channel
    Up,        \* one upload, whose steps are operations too
    NoChan,    \* no channel
    Chunks,    \* steps of the upload
    MaxGen,    \* bound: sessions
    MaxChan    \* bound: channels ever started

ASSUME SftpAssumption ==
    /\ Up \notin Op /\ NoChan \notin Op \cup {Up} \cup Nat \cup [gen : Nat, chan : Nat]
    /\ Chunks \in Nat /\ MaxGen \in Nat /\ MaxChan \in Nat

User == Op \cup {Up}

VARIABLES
    gen,      \* session_gen: the session in use
    mode,     \* GenMode of a session, "unknown" for any other: <<gen, mode>>
    compat,   \* the site allows compatibility mode (SftpMode::Auto)
    proven,   \* native_proven
    slow,     \* the server is one whose subsystem fails slowly
    cache,    \* the shared channel and its session, or NoChan
    chans,    \* channels ever started
    user,     \* where each operation is
    using,    \* the channel it took
    starter,  \* the start under way: the session it is for, its step, "idle"
    failedOn, \* history: sessions on which a native start failed
    askedTwice, \* history: one of them was asked again
    next,     \* the upload's next chunk
    up,       \* "writing", "finished" or "failed"
    file,     \* the stream's open file: its channel, or NoChan
    held,     \* chunks the server may drop when that file is closed
    stored,   \* chunks that are in the file
    unheard   \* history: a file was closed with nobody to hear the answer

startVars  == <<gen, compat, mode, proven, slow, failedOn, askedTwice>>
streamVars == <<next, up, file, held, stored, unheard>>
sftpVars   == <<startVars, cache, chans, user, using, starter, streamVars>>

gen_mode == IF mode[1] = gen THEN mode[2] ELSE "unknown"
exec_allowed == compat /\ ~proven
UserTo(u, s) == user' = [user EXCEPT ![u] = s]
Step(s) == starter' = [starter EXCEPT !.step = s]
SetMode(g, m) == mode' = <<g, m>>

(* --------------------------- acquire_sftp ------------------------------- *)
cached_sftp == cache # NoChan /\ cache.gen = gen
Acquire(u) ==                      \* one start at a time: the others wait
    /\ user[u] \in {"idle", "waiting"} /\ (u = Up => up = "writing" /\ next < Chunks)
    /\ \/ /\ cached_sftp /\ UserTo(u, "running") /\ using' = [using EXCEPT ![u] = cache.chan]
          /\ UNCHANGED starter
       \/ /\ ~cached_sftp /\ UserTo(u, "waiting") /\ starter.step = "idle"
          /\ starter' = [gen |-> gen, step |-> "begin", by |-> u] /\ UNCHANGED using
    /\ UNCHANGED <<startVars, cache, chans, streamVars>>
(* The start is a task of its own: it goes on when its caller gives up.    *)
Quit(u) ==
    /\ user[u] = "waiting" /\ UserTo(u, "idle")
    /\ up' = IF u = Up THEN "failed" ELSE up
    /\ starter' = IF starter.by = u THEN [starter EXCEPT !.by = NoChan] ELSE starter
    /\ UNCHANGED <<startVars, cache, chans, using, next, file, held, stored, unheard>>

NoStart == [gen |-> 0, step |-> "idle", by |-> NoChan]
ChannelStarts ==
    /\ chans < MaxChan /\ chans' = chans + 1
    /\ cache' = [gen |-> starter.gen, chan |-> chans + 1]
    /\ starter' = NoStart
    /\ IF starter.by = NoChan THEN UNCHANGED <<user, using>>
       ELSE UserTo(starter.by, "running") /\ using' = [using EXCEPT ![starter.by] = chans + 1]
    /\ UNCHANGED <<gen, compat, streamVars>>
StartFails ==
    /\ starter' = NoStart
    /\ IF starter.by = NoChan THEN UNCHANGED user ELSE UserTo(starter.by, "idle")
    /\ up' = IF starter.by = Up THEN "failed" ELSE up
    /\ UNCHANGED <<gen, compat, cache, chans, using, next, file, held, stored, unheard>>
StartGoes(s) == Step(s) /\ UNCHANGED <<gen, compat, cache, chans, user, using, streamVars>>

(* ----------------- start_sftp, start_on_new_session --------------------- *)
BeginStart ==
    /\ starter.step = "begin"
    /\ CASE gen_mode = "exec"   -> StartGoes("restart")
         [] gen_mode = "failed" -> StartGoes("reconnect")
         [] gen_mode = "refused" -> StartFails
         [] OTHER -> StartGoes(IF slow /\ exec_allowed THEN "remembered" ELSE "native")
    /\ UNCHANGED <<mode, proven, slow, failedOn, askedTwice>>

(* try_exec: it starts, its channel is lost, or it cannot run.             *)
ExecStarts(why) ==
    /\ starter.step = why /\ ChannelStarts /\ SetMode(starter.gen, "exec")
    /\ slow' = (slow \/ why = "exec slow")
    /\ UNCHANGED <<proven, failedOn, askedTwice>>
Restart ==                         \* a broken command channel, on its session
    /\ starter.step = "restart" /\ (StartGoes("reconnect") \/ StartFails)
    /\ UNCHANGED <<mode, proven, slow, failedOn, askedTwice>>
Remembered ==                      \* a wrong memory is dropped
    /\ starter.step \in {"remembered", "new remembered"}
    /\ slow' = FALSE /\ StartGoes(IF starter.step = "remembered" THEN "native" ELSE "new native")
    /\ UNCHANGED <<mode, proven, failedOn, askedTwice>>

AskNative == askedTwice' = (askedTwice \/ starter.gen \in failedOn)
NativeStarts ==                    \* use_native
    /\ starter.step \in {"native", "new native"} /\ ChannelStarts /\ AskNative
    /\ SetMode(starter.gen, "native") /\ proven' = TRUE /\ UNCHANGED <<slow, failedOn>>
(* The start fails: refused, which a dead socket looks like too, lost, or  *)
(* otherwise.  Mutant: a lost start is not remembered.                     *)
NativeNotStarted ==
    /\ AskNative /\ failedOn' = failedOn \cup {starter.gen}
    /\ UNCHANGED <<proven, slow>>
NativeLostForgotten ==
    /\ starter.step = "native" /\ NativeNotStarted /\ UNCHANGED mode
    /\ (StartGoes("reconnect") \/ StartFails)
NativeLost ==
    /\ starter.step = "native" /\ NativeNotStarted /\ SetMode(starter.gen, "failed")
    /\ (StartGoes("reconnect") \/ StartFails)
(* Mutant: a server known to be good may be served in compatibility mode.  *)
AfterRefusedAnyway ==
    /\ starter.step = "native" /\ NativeNotStarted /\ SetMode(starter.gen, "failed")
    /\ StartGoes("exec refused")
AfterRefused ==                    \* after_subsystem_refused
    /\ starter.step = "native" /\ NativeNotStarted /\ SetMode(starter.gen, "failed")
    /\ StartGoes(IF exec_allowed THEN "exec refused" ELSE "probe")
ExecRefused ==                     \* and so is the command, or the socket is dead
    /\ starter.step = "exec refused"
    /\ \/ StartGoes("reconnect") /\ UNCHANGED mode
       \/ StartFails /\ SetMode(starter.gen, "refused")
    /\ UNCHANGED <<proven, slow, failedOn, askedTwice>>
ProbeChannel ==
    /\ starter.step = "probe"
    /\ \/ StartGoes("reconnect") /\ UNCHANGED mode
       \/ StartFails /\ IF proven THEN UNCHANGED mode ELSE SetMode(starter.gen, "refused")
    /\ UNCHANGED <<proven, slow, failedOn, askedTwice>>
NewNativeFails ==
    /\ starter.step = "new native" /\ NativeNotStarted
    /\ \/ StartFails /\ SetMode(starter.gen, "failed")
       \/ ~compat /\ ~proven /\ StartFails /\ SetMode(starter.gen, "refused")
       \/ /\ exec_allowed /\ SetMode(starter.gen, "failed")
          /\ \E w \in {"exec new", "exec slow"} : StartGoes(w)
ExecNewFails ==
    /\ starter.step \in {"exec new", "exec slow"} /\ StartFails
    /\ \/ UNCHANGED mode           \* lost
       \/ SetMode(starter.gen, "refused")
    /\ UNCHANGED <<proven, slow, failedOn, askedTwice>>

(* ------------------ reconnect, install_primary_session ------------------ *)
Reconnect ==
    /\ starter.step = "reconnect"
    /\ \/ /\ gen < MaxGen /\ gen' = gen + 1 /\ cache' = NoChan
          /\ starter' = [starter EXCEPT !.gen = gen + 1,
                         !.step = IF slow /\ exec_allowed THEN "new remembered" ELSE "new native"]
          /\ UNCHANGED <<compat, chans, user, using, streamVars>>
       \/ StartFails
    /\ UNCHANGED <<mode, proven, slow, failedOn, askedTwice>>

(* --------------------------- with_sftp, stream_step --------------------- *)
(* The channel of an operation that failed is dropped if it is the shared  *)
(* one still.  Mutant: whatever is shared by then is dropped.              *)
DropAny(chan) == cache' = NoChan
DropChannel(chan) == cache' = IF cache # NoChan /\ cache.chan = chan THEN NoChan ELSE cache
OpEnds(u) ==
    /\ u \in Op /\ user[u] = "running" /\ UserTo(u, "idle")
    /\ using' = [using EXCEPT ![u] = NoChan]
    /\ (UNCHANGED cache \/ DropChannel(using[u]))
    /\ UNCHANGED <<startVars, chans, starter, streamVars>>

(* The next chunk goes into the file the stream keeps open, or into one    *)
(* opened for it; the other is closed where nobody hears the answer.       *)
WriteStep ==
    /\ user[Up] = "running" /\ UserTo(Up, "idle") /\ using' = [using EXCEPT ![Up] = NoChan]
    /\ LET same == file = using[Up] IN
       \/ /\ next' = next + 1 /\ file' = using[Up] /\ UNCHANGED up
          /\ held' = (IF same THEN held ELSE {}) \cup {next}
          /\ \E lost \in IF same THEN {{}} ELSE {{}, held} : stored' = (stored \cup {next}) \ lost
          /\ unheard' = (unheard \/ (~same /\ held # {})) /\ UNCHANGED cache
       \/ /\ up' = "failed" /\ file' = NoChan /\ held' = {} /\ UNCHANGED <<next, stored, unheard>>
          /\ (UNCHANGED cache \/ DropChannel(using[Up]))
    /\ UNCHANGED <<startVars, chans, starter>>
(* The keepalive task closes the files of streams nobody went on with.     *)
IdleClose ==
    /\ file # NoChan /\ file' = NoChan
    /\ unheard' = (unheard \/ held # {}) /\ held' = {} /\ stored' \in {stored, stored \ held}
    /\ UNCHANGED <<startVars, cache, chans, user, using, starter, next, up>>
(* finish_stream: the server's answer decides.  Mutant: it is not heard.   *)
FinishQuietly ==
    /\ up = "writing" /\ next = Chunks /\ up' = "finished"
    /\ file' = NoChan /\ held' = {} /\ stored' \in {stored, stored \ held}
    /\ UNCHANGED <<startVars, cache, chans, user, using, starter, next, unheard>>
Finish ==
    /\ up = "writing" /\ next = Chunks /\ file' = NoChan /\ held' = {}
    /\ \/ up' = "finished" /\ UNCHANGED stored
       \/ file # NoChan /\ up' = "failed" /\ stored' \in {stored, stored \ held}
    /\ UNCHANGED <<startVars, cache, chans, user, using, starter, next, unheard>>

SftpInit ==
    /\ gen = 1 /\ mode = <<0, "unknown">> /\ proven = FALSE /\ slow \in BOOLEAN /\ compat \in BOOLEAN
    /\ cache = NoChan /\ chans = 0
    /\ user = [u \in User |-> "idle"] /\ using = [u \in User |-> NoChan]
    /\ starter = NoStart /\ failedOn = {} /\ askedTwice = FALSE
    /\ next = 0 /\ up = "writing" /\ file = NoChan /\ held = {} /\ stored = {} /\ unheard = FALSE
ExecStep == \E why \in {"restart", "remembered", "new remembered", "exec refused", "exec new", "exec slow"} :
                ExecStarts(why)
StartStep == BeginStart \/ ExecStep \/ Restart \/ Remembered \/ NativeStarts \/ NativeLost
             \/ AfterRefused \/ ExecRefused \/ ProbeChannel \/ NewNativeFails \/ ExecNewFails \/ Reconnect
SftpNext ==
    \/ \E u \in User : Acquire(u) \/ Quit(u) \/ OpEnds(u)
    \/ StartStep
    \/ WriteStep \/ IdleClose \/ Finish
SftpSpec == SftpInit /\ [][SftpNext]_sftpVars

(* ------------------------------- Properties ----------------------------- *)
(* "libssh2 cannot retry a failed start on the same session, so a          *)
(* generation is never asked twice", however operations, restarts and      *)
(* reconnects follow each other.                                           *)
NeverAskedTwice == ~askedTwice

(* "A known-good server never falls back because of a transient error":    *)
(* once native SFTP worked, no channel of compatibility mode is started.   *)
KnownGoodStaysNative == [][proven => (mode' = mode \/ mode'[2] # "exec")]_sftpVars

(* A channel others share is dropped for an operation that failed on it,   *)
(* or with its session; never for one that failed on an older channel.     *)
SharedDroppedByItsUser ==
    [][cache # NoChan /\ cache' = NoChan =>
          gen' # gen \/ \E u \in User : using[u] = cache.chan /\ using'[u] # using[u]]_sftpVars

(* An upload that is finished is in the file, if the answer to every close *)
(* of it was heard.                                                        *)
FinishedIsStoredIfHeard == up = "finished" /\ ~unheard => stored = 0..Chunks - 1

(* "The file is complete once finish_stream succeeds", as vfs.rs has it.   *)
FinishedIsStored == up = "finished" => stored = 0..Chunks - 1

(* The shared channel is started, shared and given up as it should be      *)
(* (acquire_sftp, start_sftp, with_sftp, finish_stream).                   *)
ChannelIsSound ==
    /\ [][NeverAskedTwice' /\ FinishedIsStoredIfHeard']_sftpVars
    /\ KnownGoodStaysNative /\ SharedDroppedByItsUser
=============================================================================
