---------------------------- MODULE McpApprovals ----------------------------
(***************************************************************************)
(* What the application does with the calls of agents: the decision on a   *)
(* call, the prompt the person answers, the work of an approved call and   *)
(* the entry each leaves in the activity log (handle_tool_call of          *)
(* server.rs, McpApprovals and WindowApprover of commands.rs).  A call may *)
(* be dropped wherever it waits: its agent cancelled it or went away, or   *)
(* the gateway was turned off.                                             *)
(***************************************************************************)
EXTENDS Naturals, Sequences, FiniteSets

CONSTANTS
    WriteCall,    \* calls of fs_write_file
    CommandCall,  \* calls of run_command
    ReadCall,     \* calls of the other tools
    MaxChanges    \* bound: changes of the command access

ASSUME ApprovalsAssumption == MaxChanges \in Nat

ToolCall == WriteCall \cup CommandCall \cup ReadCall
Level    == {"off", "ask", "auto", "trusted"}
Risk     == {"safe", "caution", "dangerous"}

VARIABLES
    calls,    \* where each call waits
    prompts,  \* calls with a prompt in the window
    answer,   \* what was sent to the call: "yes", "no" or "none"
    clicked,  \* what the person was told had been taken
    work,     \* the task of an approved call: "none", "run", "log", "done"
    entries,  \* what the activity log says of a call
    notes,    \* withdrawn calls a task of their own will log
    effect,   \* calls that changed something on the server
    access,   \* the command access
    changes,  \* how often it was changed
    allowed   \* history: commands the access let run unasked

approvalVars == <<calls, prompts, answer, clicked, work, entries, notes, effect, access, changes, allowed>>
levelVars    == <<access, changes, allowed>>

Stage(c, s) == calls[c] = s
Goes(c, s) == calls' = [calls EXCEPT ![c] = s]
Log(c, e) == entries' = [entries EXCEPT ![c] = Append(@, e)]

(* --------------------------- handle_tool_call --------------------------- *)
(* The connection is looked up, what it says of the path is asked for; an  *)
(* argument that cannot be, or a read that fails, is an entry too.         *)
Begin(c) ==
    /\ Stage(c, "new")
    /\ \/ Goes(c, "failing")
       \/ Goes(c, IF c \in ReadCall THEN "reading" ELSE IF c \in WriteCall THEN "looking" ELSE "deciding")
    /\ UNCHANGED <<prompts, answer, clicked, work, entries, notes, effect, levelVars>>
Read(c) ==
    /\ Stage(c, "reading") /\ Goes(c, "over") /\ Log(c, "done")
    /\ UNCHANGED <<prompts, answer, clicked, work, notes, effect, levelVars>>
Fail(c) ==
    /\ Stage(c, "failing") /\ Goes(c, "over") /\ Log(c, "error")
    /\ UNCHANGED <<prompts, answer, clicked, work, notes, effect, levelVars>>
LookAtFile(c) ==                  \* a folder is no file
    /\ Stage(c, "looking") /\ calls' \in {[calls EXCEPT ![c] = s] : s \in {"failing", "asking"}}
    /\ UNCHANGED <<prompts, answer, clicked, work, entries, notes, effect, levelVars>>

(* CommandAccess::decide, and the mutant that has it overlook the risk.    *)
DecideAlike(level, risk) ==
    CASE level = "off" -> "deny" [] level = "ask" -> "ask" [] OTHER -> "allow"
Decide(level, risk) ==
    CASE level = "off" -> "deny"
      [] level = "ask" \/ (level = "auto" /\ risk = "dangerous") -> "ask"
      [] OTHER -> "allow"
RunCommand(c) ==
    /\ Stage(c, "deciding")
    /\ \E risk \in Risk : LET d == Decide(access, risk) IN
          /\ Goes(c, CASE d = "deny" -> "refused" [] d = "ask" -> "asking" [] OTHER -> "running")
          /\ work' = [work EXCEPT ![c] = IF d = "allow" THEN "run" ELSE @]
          /\ allowed' = IF access = "trusted" \/ (access = "auto" /\ risk # "dangerous")
                        THEN allowed \cup {c} ELSE allowed
    /\ UNCHANGED <<prompts, answer, clicked, entries, notes, effect, access, changes>>
Refuse(c) ==
    /\ Stage(c, "refused") /\ Goes(c, "over") /\ Log(c, "denied")
    /\ UNCHANGED <<prompts, answer, clicked, work, notes, effect, levelVars>>

(* ------------------------ WindowApprover::approve ----------------------- *)
Prompt(c) ==
    /\ Stage(c, "asking")
    /\ \/ Goes(c, "waiting") /\ prompts' = prompts \cup {c}
       \/ Goes(c, "refused") /\ UNCHANGED prompts      \* the window could not be asked
    /\ UNCHANGED <<answer, clicked, work, entries, notes, effect, levelVars>>

Respond(c, a) ==            \* the person, who is told that the answer was taken
    /\ c \in prompts /\ prompts' = prompts \ {c}
    /\ answer' = [answer EXCEPT ![c] = a]
    /\ clicked' = [clicked EXCEPT ![c] = a]
    /\ UNCHANGED <<calls, work, entries, notes, effect, levelVars>>

(* Nobody answered: the time is up before the prompt is withdrawn.         *)
TimeUp(c) ==
    /\ Stage(c, "waiting") /\ answer[c] = "none" /\ Goes(c, "withdrawing")
    /\ UNCHANGED <<prompts, answer, clicked, work, entries, notes, effect, levelVars>>
(* Mutant: a prompt nobody answered counts as allowed.                     *)
WithdrawAllowed(c) ==
    /\ Stage(c, "withdrawing") /\ prompts' = prompts \ {c} /\ Goes(c, "running")
    /\ work' = [work EXCEPT ![c] = "run"]
    /\ UNCHANGED <<answer, clicked, entries, notes, effect, levelVars>>
Withdraw(c) ==
    /\ Stage(c, "withdrawing") /\ prompts' = prompts \ {c} /\ Goes(c, "refused")
    /\ UNCHANGED <<answer, clicked, work, entries, notes, effect, levelVars>>

Answered(c) ==              \* the work of an approved call is a task of its own
    /\ Stage(c, "waiting") /\ answer[c] # "none"
    /\ Goes(c, IF answer[c] = "yes" THEN "running" ELSE "refused")
    /\ work' = [work EXCEPT ![c] = IF answer[c] = "yes" THEN "run" ELSE @]
    /\ UNCHANGED <<prompts, answer, clicked, entries, notes, effect, levelVars>>

(* ------------------- write_and_audit, the command task ------------------ *)
Run(c) ==                   \* which may also find a folder, or fail
    /\ work[c] = "run" /\ work' = [work EXCEPT ![c] = "log"]
    /\ effect' \in {effect, effect \cup {c}}
    /\ UNCHANGED <<calls, prompts, answer, clicked, entries, notes, levelVars>>
LogWork(c) ==
    /\ work[c] = "log" /\ work' = [work EXCEPT ![c] = "done"]
    /\ Log(c, "done")
    /\ UNCHANGED <<calls, prompts, answer, clicked, notes, effect, levelVars>>
Return(c) ==
    /\ Stage(c, "running") /\ work[c] = "done" /\ Goes(c, "over")
    /\ UNCHANGED <<prompts, answer, clicked, work, entries, notes, effect, levelVars>>

Synchronous(c) == calls[c] \in {"new", "deciding", "asking", "withdrawing", "over", "dropped"}
(* A call is dropped where it waits: its prompt is withdrawn, and a        *)
(* destructor has it logged (WithdrawPrompt, WithdrawnWriteAudit).         *)
(* Mutants: the guard of the log is not disarmed by the answer; the prompt *)
(* stays in the window.                                                    *)
DropArmed(c) ==
    /\ ~Synchronous(c) /\ Goes(c, "dropped")
    /\ prompts' = prompts \ {c}
    /\ notes' = IF calls[c] \in {"waiting", "running"} THEN notes \cup {c} ELSE notes
    /\ UNCHANGED <<answer, clicked, work, entries, effect, levelVars>>
DropPrompted(c) ==
    /\ ~Synchronous(c) /\ Goes(c, "dropped")
    /\ notes' = IF calls[c] = "waiting" THEN notes \cup {c} ELSE notes
    /\ UNCHANGED <<prompts, answer, clicked, work, entries, effect, levelVars>>
Drop(c) ==
    /\ ~Synchronous(c) /\ Goes(c, "dropped")
    /\ prompts' = prompts \ {c}
    /\ notes' = IF calls[c] = "waiting" THEN notes \cup {c} ELSE notes
    /\ UNCHANGED <<answer, clicked, work, entries, effect, levelVars>>
LogWithdrawn(c) ==
    /\ c \in notes /\ notes' = notes \ {c} /\ Log(c, "withdrawn")
    /\ UNCHANGED <<calls, prompts, answer, clicked, work, effect, levelVars>>

SetAccess(l) ==             \* set_mcp_command_access
    /\ l # access /\ changes < MaxChanges /\ changes' = changes + 1 /\ access' = l
    /\ UNCHANGED <<calls, prompts, answer, clicked, work, entries, notes, effect, allowed>>

ApprovalsInit ==
    /\ calls = [c \in ToolCall |-> "new"] /\ prompts = {} /\ notes = {} /\ effect = {} /\ allowed = {}
    /\ answer = [c \in ToolCall |-> "none"] /\ clicked = answer /\ work = answer
    /\ entries = [c \in ToolCall |-> <<>>]
    /\ access \in Level /\ changes = 0

ApprovalsNext ==
    \/ \E c \in ToolCall :
          \/ Begin(c) \/ Read(c) \/ Fail(c) \/ LookAtFile(c) \/ RunCommand(c) \/ Refuse(c)
          \/ Prompt(c) \/ TimeUp(c) \/ Withdraw(c) \/ Answered(c)
          \/ Run(c) \/ LogWork(c) \/ Return(c) \/ Drop(c) \/ LogWithdrawn(c)
          \/ \E a \in {"yes", "no"} : Respond(c, a)
    \/ \E l \in Level : SetAccess(l)

ApprovalsSpec == ApprovalsInit /\ [][ApprovalsNext]_approvalVars

(* ------------------------------ Properties ------------------------------ *)
(* "A person allows or denies every write before anything is changed", and *)
(* "a dangerous one is always shown before it runs": what changed anything *)
(* was allowed by the person, or is a command the access lets run unasked. *)
RunsOnlyIfAllowed == \A c \in effect : clicked[c] = "yes" \/ c \in allowed

(* The log tells the truth: nothing is logged twice, what is logged as     *)
(* denied or withdrawn was not done, and what was done is logged or about  *)
(* to be, whatever became of the call.                                     *)
LogIsTrue ==
    \A c \in ToolCall :
        /\ Len(entries[c]) + (IF c \in notes THEN 1 ELSE 0) + (IF work[c] \in {"run", "log"} THEN 1 ELSE 0) < 2
        /\ c \in effect => entries[c] \in {<<>>, <<"done">>} /\ (entries[c] = <<>> => work[c] = "log")
        /\ calls[c] = "over" => entries[c] # <<>>

(* A prompt in the window is of a call that waits for its answer.          *)
PromptsAreWaitedFor == \A c \in prompts : calls[c] \in {"waiting", "withdrawing"}

(* What the person is shown and what the log says is what is going on: the *)
(* two above (WithdrawPrompt, WithdrawnWriteAudit, write_and_audit).       *)
PersonIsToldTheTruth == LogIsTrue /\ PromptsAreWaitedFor
=============================================================================
