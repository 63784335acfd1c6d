---------------------------- MODULE SftpCommands ---------------------------
(***************************************************************************)
(* Commands run over SSH (sftp.rs): on the dedicated shell connection,     *)
(* which is opened on demand, or on the main one; and the question asked   *)
(* once per driver, whether the account may run commands at all.           *)
(***************************************************************************)
EXTENDS Naturals, FiniteSets

CONSTANTS
    Command,   \* commands to run
    Probe      \* SHELL_PROBE_COMMAND, run like them

ASSUME CommandsAssumption == Probe \notin Command

Ran == Command \cup {Probe}

VARIABLES
    account,     \* "shell", or "sftp": any command just starts sftp-server
    shell,       \* the dedicated connection is there
    backoff,     \* shell_retry_after has not passed
    shell_state, \* "unknown", "available" or "unavailable"
    prober,      \* the command that holds shell_probe_lock and asks, or Probe
    cmd,         \* where each command is
    dedicated,   \* those that use the dedicated connection
    runs,        \* how often the account ran each
    unanswered   \* history: those whose start was never confirmed

linkVars    == <<shell, backoff>>
runVars     == <<runs, unanswered>>
commandVars == <<account, linkVars, shell_state, prober, cmd, dedicated, runVars>>

CommandIs(c, s) == cmd[c] = s
CommandTo(c, s) == cmd' = [cmd EXCEPT ![c] = s]

(* ------------------------ ensure_shell_available ------------------------ *)
Ensure(c) ==
    /\ c \in Command /\ CommandIs(c, "new")
    /\ CommandTo(c, CASE shell_state = "available" -> "ready"
               [] shell_state = "unavailable" -> "not run"
               [] OTHER -> "asks")
    /\ UNCHANGED <<account, linkVars, shell_state, prober, dedicated, runVars>>
Ask(c) ==                  \* the lock, and another look
    /\ c \in Command /\ CommandIs(c, "asks") /\ prober = Probe
    /\ CASE shell_state = "available" -> CommandTo(c, "ready") /\ UNCHANGED prober
         [] shell_state = "unavailable" -> CommandTo(c, "not run") /\ UNCHANGED prober
         [] OTHER -> prober' = c /\ cmd' = [cmd EXCEPT ![c] = "waits", ![Probe] = "ready"]
    /\ UNCHANGED <<account, linkVars, shell_state, dedicated, runVars>>
(* What the probe printed tells; trouble with the connection tells nothing *)
(* and fails the command.  Mutant: an exit status of 0 will do.            *)
HeardAnything == "available"
Heard == IF account = "shell" THEN "available" ELSE "unavailable"
Learn ==
    /\ prober # Probe /\ cmd[Probe] \in {"ok", "failed", "not started"}
    /\ prober' = Probe
    /\ \/ /\ CommandIs(Probe, "ok") /\ shell_state' = Heard
          /\ cmd' = [cmd EXCEPT ![Probe] = "new", ![prober] =
                        IF Heard = "available" THEN "ready" ELSE "not run"]
       \/ /\ CommandIs(Probe, "not started") /\ shell_state' = "unavailable"     \* refused
          /\ cmd' = [cmd EXCEPT ![Probe] = "new", ![prober] = "not run"]
       \/ /\ ~CommandIs(Probe, "ok") /\ UNCHANGED shell_state
          /\ cmd' = [cmd EXCEPT ![Probe] = "new", ![prober] = "not run"]
    /\ runs' = [runs EXCEPT ![Probe] = 0] /\ unanswered' = unanswered \ {Probe}
    /\ UNCHANGED <<account, linkVars, dedicated>>

(* ------------------- exec_session, exec_once_raw, run_exec -------------- *)
ExecSession(c) ==
    /\ CommandIs(c, "ready")
    /\ \/ shell /\ dedicated' = dedicated \cup {c} /\ CommandTo(c, "running") /\ UNCHANGED linkVars
       \/ ~shell /\ ~backoff /\ shell' = TRUE /\ dedicated' = dedicated \cup {c}
          /\ CommandTo(c, "running") /\ UNCHANGED backoff
       \/ ~shell /\ backoff' = TRUE /\ dedicated' = dedicated \ {c}
          /\ CommandTo(c, "running") /\ UNCHANGED shell
       \/ ~shell /\ CommandTo(c, "not started") /\ UNCHANGED <<linkVars, dedicated>>   \* no main one
    /\ UNCHANGED <<account, shell_state, prober, runVars>>
Counts(c) == runs' = [runs EXCEPT ![c] = IF account = "shell" THEN @ + 1 ELSE @]
(* No channel, or no answer to the request that starts the command: it may *)
(* have been started all the same.  The main connection is tried then.     *)
NotStarted(c) ==
    /\ CommandIs(c, "running")
    /\ \/ UNCHANGED runVars
       \/ Counts(c) /\ unanswered' = unanswered \cup {c}
    /\ IF c \in dedicated
       THEN dedicated' = dedicated \ {c} /\ shell' = FALSE /\ backoff' = TRUE /\ UNCHANGED cmd
       ELSE CommandTo(c, "not started") /\ UNCHANGED <<dedicated, linkVars>>
    /\ UNCHANGED <<account, shell_state, prober>>
(* The command started, and ended or failed.  Mutant: tried again as well. *)
RunsRetried(c) ==
    /\ CommandIs(c, "running") /\ Counts(c)
    /\ \/ CommandTo(c, "ok") /\ UNCHANGED dedicated
       \/ c \in dedicated /\ dedicated' = dedicated \ {c} /\ UNCHANGED cmd
    /\ UNCHANGED <<account, linkVars, shell_state, prober, unanswered>>
Runs(c) ==
    /\ CommandIs(c, "running") /\ Counts(c) /\ (CommandTo(c, "ok") \/ CommandTo(c, "failed"))
    /\ UNCHANGED <<account, linkVars, shell_state, prober, dedicated, unanswered>>

(* --------------- the reconnect of the main session, time ---------------- *)
BackoffOver == backoff /\ backoff' = FALSE
               /\ UNCHANGED <<account, shell, shell_state, prober, cmd, dedicated, runVars>>
ShellDropped == shell /\ shell' = FALSE /\ backoff' = FALSE
                /\ UNCHANGED <<account, shell_state, prober, cmd, dedicated, runVars>>

CommandsInit ==
    /\ account \in {"shell", "sftp"} /\ shell \in BOOLEAN /\ backoff = ~shell
    /\ shell_state = "unknown" /\ prober = Probe /\ cmd = [c \in Ran |-> "new"]
    /\ dedicated = {} /\ runs = [c \in Ran |-> 0] /\ unanswered = {}
CommandsNext ==
    \/ \E c \in Ran : Ensure(c) \/ Ask(c) \/ ExecSession(c) \/ NotStarted(c) \/ Runs(c)
    \/ Learn \/ BackoffOver \/ ShellDropped
CommandsSpec == CommandsInit /\ [][CommandsNext]_commandVars

(* ------------------------------- Properties ----------------------------- *)
(* A command is run once at most, and one said not to have been started    *)
(* never was, unless the answer to the request that starts it was lost.    *)
RunOnceIfAnswered ==
    \A c \in Command \ unanswered :
        runs[c] <= 1 /\ (cmd[c] \in {"not run", "not started"} => runs[c] = 0)

(* On an account that starts sftp-server for any command, no command looks *)
(* successful; what did succeed has run.                                   *)
OkHasRun == \A c \in Command : CommandIs(c, "ok") => runs[c] >= 1

(* The outcome of a command says whether it ran: the two above (run_exec,  *)
(* retry_on_timeout, ensure_shell_available).                              *)
OutcomeIsTrue == RunOnceIfAnswered /\ OkHasRun
=============================================================================
