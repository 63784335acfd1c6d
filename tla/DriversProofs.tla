--------------------------- MODULE DriversProofs ---------------------------
(***************************************************************************)
(* Theorems about three drivers. SftpCommands and SftpSession: for any     *)
(* number of commands over SSH, of users of the shared channel, of         *)
(* sessions and of channels. S3Objects: for any number of parts, of        *)
(* objects in a folder and of requests on their way at once. FtpPool: for  *)
(* any number of callers and connections and files of any length; FtpInv   *)
(* is inductive because a connection is in the pool or with one caller,    *)
(* and at every step of that caller it is known which replies the server   *)
(* still owes there.                                                       *)
(***************************************************************************)
EXTENDS SftpCommands, SftpSession, S3Objects, FtpPool, FiniteSetTheorems, TLAPS

(* ------------------------------- commands ------------------------------- *)
CommandStage == {"new", "asks", "waits", "ready", "not run", "running", "not started", "ok", "failed"}
Before       == {"new", "asks", "waits", "ready", "not run"}
Allowed      == {"ready", "running", "not started", "ok", "failed"}

CommandsTyped ==
    /\ account \in {"shell", "sftp"} /\ shell_state \in {"unknown", "available", "unavailable"}
    /\ prober \in Ran /\ cmd \in [Ran -> CommandStage] /\ runs \in [Ran -> Nat]

(* The account is found to have a shell only if it has one.                *)
ProbeSound ==
    /\ shell_state = "available" => account = "shell"
    /\ prober # Probe => cmd[prober] = "waits"

(* How often a command ran by the time it is somewhere, and that none goes *)
(* on without a shell.                                                     *)
CommandSound(c) ==
    /\ cmd[c] \in Before => runs[c] = 0 /\ c \notin unanswered
    /\ cmd[c] \in {"running", "not started"} /\ c \notin unanswered => runs[c] = 0
    /\ c \notin unanswered => runs[c] <= 1
    /\ cmd[c] = "ok" => runs[c] >= 1
    /\ cmd[c] \in Allowed => account = "shell"

CommandsInv == CommandsTyped /\ ProbeSound /\ \A c \in Command : CommandSound(c)

LEMMA ProbeApart == \A c \in Command : c # Probe /\ c \in Ran
  BY CommandsAssumption DEF CommandsAssumption, Ran

(* A step of c that leaves the other commands and the probing alone.       *)
LEMMA CommandMoves ==
    ASSUME CommandsInv, NEW c \in Ran, NEW s \in CommandStage, NEW n \in Nat,
           cmd' = [cmd EXCEPT ![c] = s], runs' = [runs EXCEPT ![c] = n],
           unanswered' \subseteq unanswered \cup {c}, unanswered \subseteq unanswered',
           UNCHANGED <<account, shell_state, prober>>,
           prober # Probe => prober # c,
           c \in Command => CommandSound(c)'
    PROVE  CommandsInv'
  <1>1. CommandsTyped'
    BY DEF CommandsInv, CommandsTyped
  <1>2. \A d \in Ran \ {c} : cmd'[d] = cmd[d] /\ runs'[d] = runs[d] /\ (d \in unanswered' <=> d \in unanswered)
    BY DEF CommandsInv, CommandsTyped
  <1>3. ProbeSound'
    BY <1>2 DEF CommandsInv, CommandsTyped, ProbeSound
  <1>4. ASSUME NEW d \in Command PROVE CommandSound(d)'
    <2>1. CASE d = c
      BY <2>1
    <2>2. CASE d # c
      BY <1>2, <2>2, ProbeApart DEF CommandsInv, CommandSound
    <2> QED
      BY <2>1, <2>2
  <1> QED
    BY <1>1, <1>3, <1>4 DEF CommandsInv

(* A step that is none of a command.                                       *)
LEMMA CommandsRest ==
    ASSUME CommandsInv, UNCHANGED <<account, shell_state, prober, cmd, runVars>>
    PROVE  CommandsInv'
  BY DEF CommandsInv, CommandsTyped, ProbeSound, CommandSound, runVars

LEMMA KnownCommand ==
    ASSUME CommandsInv, NEW c \in Ran
    PROVE  /\ cmd[c] \in CommandStage /\ runs[c] \in Nat /\ runs = [runs EXCEPT ![c] = runs[c]]
           /\ cmd = [cmd EXCEPT ![c] = cmd[c]]
           /\ c \in Command => CommandSound(c) /\ c # Probe
           /\ prober # Probe /\ prober = c => cmd[c] = "waits"
           /\ shell_state = "available" => account = "shell"
  BY ProbeApart DEF CommandsInv, CommandsTyped, ProbeSound

LEMMA EnsureKeeps == ASSUME CommandsInv, NEW c \in Ran, Ensure(c) PROVE CommandsInv'
  <1>1. PICK s \in {"ready", "not run", "asks"} :
           cmd' = [cmd EXCEPT ![c] = s] /\ (s = "ready" => account = "shell")
    BY KnownCommand DEF Ensure, CommandTo
  <1>2. /\ c \in Command /\ cmd[c] = "new" /\ runs' = runs /\ unanswered' = unanswered
        /\ UNCHANGED <<account, shell_state, prober>>
    BY DEF Ensure, CommandIs, runVars
  <1>3. cmd'[c] = s /\ runs'[c] = runs[c]
    BY <1>1, <1>2 DEF CommandsInv, CommandsTyped
  <1>4. CommandSound(c)'
    BY <1>1, <1>2, <1>3, KnownCommand DEF CommandSound, Before, Allowed
  <1>5. s \in CommandStage
    BY DEF CommandStage
  <1> QED
    BY <1>1, <1>2, <1>4, <1>5, KnownCommand, CommandMoves

LEMMA AskKeeps == ASSUME CommandsInv, NEW c \in Ran, Ask(c) PROVE CommandsInv'
  <1>1. /\ c \in Command /\ cmd[c] = "asks" /\ runs' = runs /\ unanswered' = unanswered
        /\ UNCHANGED <<account, shell_state>> /\ prober = Probe
    BY DEF Ask, CommandIs, runVars
  <1>2. ASSUME NEW s \in {"ready", "not run"}, cmd' = [cmd EXCEPT ![c] = s], prober' = prober,
               s = "ready" => account = "shell"
        PROVE  CommandsInv'
    <2>1. cmd'[c] = s /\ runs'[c] = runs[c]
      BY <1>1, <1>2 DEF CommandsInv, CommandsTyped
    <2>2. CommandSound(c)'
      BY <1>1, <1>2, <2>1, KnownCommand DEF CommandSound, Before, Allowed
    <2>3. s \in CommandStage
      BY DEF CommandStage
    <2> QED
      BY <1>1, <1>2, <2>2, <2>3, KnownCommand, CommandMoves
  <1>3. CASE prober' = c /\ cmd' = [cmd EXCEPT ![c] = "waits", ![Probe] = "ready"]
    <2>1. /\ c # Probe /\ Probe \in Ran /\ cmd'[c] = "waits"
          /\ \A d \in Command \ {c} : cmd'[d] = cmd[d]
      BY <1>1, <1>3, ProbeApart DEF CommandsInv, CommandsTyped, Ran
    <2>2. CommandsTyped' /\ ProbeSound'
      BY <1>1, <1>3, <2>1, KnownCommand DEF CommandsInv, CommandsTyped, ProbeSound, CommandStage
    <2>3. ASSUME NEW d \in Command PROVE CommandSound(d)'
      <3>1. CASE d = c
        BY <1>1, <2>1, <3>1, KnownCommand DEF CommandSound, Before, Allowed
      <3>2. CASE d # c
        BY <1>1, <2>1, <3>2 DEF CommandsInv, CommandSound
      <3> QED
        BY <3>1, <3>2
    <2> QED
      BY <2>2, <2>3 DEF CommandsInv
  <1> QED
    BY <1>2, <1>3, KnownCommand DEF Ask, CommandTo

LEMMA LearnKeeps == ASSUME CommandsInv, Learn PROVE CommandsInv'
  <1>1. /\ prober # Probe /\ prober' = Probe /\ account' = account
        /\ runs' = [runs EXCEPT ![Probe] = 0] /\ unanswered' = unanswered \ {Probe}
    BY DEF Learn
  <1>2. PICK s \in {"ready", "not run"} : /\ cmd' = [cmd EXCEPT ![Probe] = "new", ![prober] = s]
                                          /\ s = "ready" => account = "shell"
    BY DEF Learn, Heard
  <1>3. shell_state' \in {"unknown", "available", "unavailable"} /\ (shell_state' = "available" => account = "shell")
    BY DEF Learn, Heard, CommandsInv, CommandsTyped, ProbeSound
  <1>4. /\ prober \in Command /\ cmd[prober] = "waits" /\ Probe \in Ran
        /\ cmd'[prober] = s
        /\ \A d \in Command : runs'[d] = runs[d] /\ (d \in unanswered' <=> d \in unanswered)
        /\ \A d \in Command \ {prober} : cmd'[d] = cmd[d]
    BY <1>1, <1>2, ProbeApart DEF CommandsInv, CommandsTyped, ProbeSound, Ran
  <1>5. CommandsTyped' /\ ProbeSound'
    BY <1>1, <1>2, <1>3, <1>4 DEF CommandsInv, CommandsTyped, ProbeSound, CommandStage
  <1>6. ASSUME NEW d \in Command PROVE CommandSound(d)'
    <2>1. CASE d = prober
      BY <1>1, <1>2, <1>4, <2>1, KnownCommand, ProbeApart DEF CommandSound, Before, Allowed
    <2>2. CASE d # prober
      BY <1>1, <1>4, <2>2 DEF CommandsInv, CommandSound
    <2> QED
      BY <2>1, <2>2
  <1> QED
    BY <1>5, <1>6 DEF CommandsInv

LEMMA ExecSessionKeeps == ASSUME CommandsInv, NEW c \in Ran, ExecSession(c) PROVE CommandsInv'
  <1>1. PICK s \in {"running", "not started"} : cmd' = [cmd EXCEPT ![c] = s]
    BY DEF ExecSession, CommandTo
  <1>2. /\ cmd[c] = "ready" /\ runs' = runs /\ unanswered' = unanswered
        /\ UNCHANGED <<account, shell_state, prober>>
    BY DEF ExecSession, CommandIs, runVars
  <1>3. cmd'[c] = s /\ runs'[c] = runs[c] /\ s \in CommandStage
    BY <1>1, <1>2 DEF CommandsInv, CommandsTyped, CommandStage
  <1>4. c \in Command => CommandSound(c)'
    BY <1>1, <1>2, <1>3, KnownCommand DEF CommandSound, Before, Allowed
  <1> QED
    BY <1>1, <1>2, <1>3, <1>4, KnownCommand, CommandMoves

(* What is counted as a run: one more on an account with a shell.          *)
LEMMA Counted ==
    ASSUME CommandsInv, NEW c \in Ran, Counts(c)
    PROVE  \E n \in Nat : runs' = [runs EXCEPT ![c] = n] /\ n = IF account = "shell" THEN runs[c] + 1 ELSE runs[c]
  <1>1. runs[c] \in Nat
    BY KnownCommand
  <1> DEFINE n == IF account = "shell" THEN runs[c] + 1 ELSE runs[c]
  <1>2. n \in Nat
    BY <1>1
  <1>3. runs' = [runs EXCEPT ![c] = n]
    BY DEF Counts
  <1> HIDE DEF n
  <1>4. \E m \in Nat : runs' = [runs EXCEPT ![c] = m] /\ m = n
    BY <1>2, <1>3
  <1> QED
    BY <1>4 DEF n

LEMMA NotStartedKeeps == ASSUME CommandsInv, NEW c \in Ran, NotStarted(c) PROVE CommandsInv'
  <1>1. PICK s \in {"running", "not started"} : cmd' = [cmd EXCEPT ![c] = s]
    BY KnownCommand DEF NotStarted, CommandTo, CommandIs
  <1>2. /\ cmd[c] = "running" /\ UNCHANGED <<account, shell_state, prober>>
        /\ UNCHANGED runVars \/ (Counts(c) /\ unanswered' = unanswered \cup {c})
    BY DEF NotStarted, CommandIs
  <1>3. PICK n \in Nat : runs' = [runs EXCEPT ![c] = n] /\ (n = runs[c] \/ c \in unanswered')
    BY <1>2, Counted, KnownCommand DEF runVars
  <1>4. cmd'[c] = s /\ runs'[c] = n /\ s \in CommandStage
    BY <1>1, <1>3 DEF CommandsInv, CommandsTyped, CommandStage
  <1>5. unanswered \subseteq unanswered' /\ unanswered' \subseteq unanswered \cup {c}
    BY <1>2 DEF runVars
  <1>6. c \in Command => CommandSound(c)'
    BY <1>1, <1>2, <1>3, <1>4, <1>5, KnownCommand DEF CommandSound, Before, Allowed
  <1> QED
    BY <1>1, <1>2, <1>3, <1>4, <1>5, <1>6, KnownCommand, CommandMoves

LEMMA RunsKeeps == ASSUME CommandsInv, NEW c \in Ran, Runs(c) PROVE CommandsInv'
  <1>1. PICK s \in {"ok", "failed"} : cmd' = [cmd EXCEPT ![c] = s]
    BY DEF Runs, CommandTo
  <1>2. cmd[c] = "running" /\ Counts(c) /\ UNCHANGED <<account, shell_state, prober, unanswered>>
    BY DEF Runs, CommandIs
  <1>3. PICK n \in Nat : runs' = [runs EXCEPT ![c] = n] /\ n = IF account = "shell" THEN runs[c] + 1 ELSE runs[c]
    BY <1>2, Counted
  <1>4. cmd'[c] = s /\ runs'[c] = n /\ s \in CommandStage
    BY <1>1, <1>3 DEF CommandsInv, CommandsTyped, CommandStage
  <1>5. ASSUME c \in Command PROVE CommandSound(c)'
    <2>1. account = "shell" /\ (c \notin unanswered => runs[c] = 0) /\ runs[c] \in Nat
      BY <1>2, <1>5, KnownCommand DEF CommandSound, Allowed
    <2>2. n = runs[c] + 1 /\ account' = "shell" /\ unanswered' = unanswered
      BY <1>2, <1>3, <2>1
    <2>3. cmd'[c] \in {"ok", "failed"} /\ runs'[c] >= 1 /\ (c \notin unanswered' => runs'[c] <= 1)
      BY <1>4, <2>1, <2>2
    <2> QED
      BY <2>2, <2>3 DEF CommandSound, Before, Allowed
  <1> QED
    BY <1>1, <1>2, <1>3, <1>4, <1>5, KnownCommand, CommandMoves

(* CommandsInv holds at the start and every step keeps it.                 *)
THEOREM CommandsInductive == CommandsSpec => []CommandsInv
  <1>1. CommandsInit => CommandsInv
    BY ProbeApart DEF CommandsInit, CommandsInv, CommandsTyped, ProbeSound, CommandSound, CommandStage, Before,
                      Allowed, Ran
  <1>2. CommandsInv /\ [CommandsNext]_commandVars => CommandsInv'
    <2> SUFFICES ASSUME CommandsInv, [CommandsNext]_commandVars PROVE CommandsInv'
      OBVIOUS
    <2>1. CASE BackoffOver \/ ShellDropped \/ UNCHANGED commandVars
      BY <2>1, CommandsRest DEF BackoffOver, ShellDropped, commandVars
    <2> QED
      BY <2>1, EnsureKeeps, AskKeeps, ExecSessionKeeps, NotStartedKeeps, RunsKeeps, LearnKeeps DEF CommandsNext
  <1> QED
    BY <1>1, <1>2, PTL DEF CommandsSpec

(* Whatever connection a command is run on, and however often the shell is *)
(* lost and opened again: a command runs once at most and one said not to  *)
(* have been started never ran, unless the answer to its start was lost;   *)
(* what ended well has run.                                                *)
THEOREM OutcomesAreTrue == CommandsSpec => []OutcomeIsTrue
  <1>1. CommandsInv => OutcomeIsTrue
    BY ProbeApart DEF CommandsInv, CommandsTyped, CommandSound, OutcomeIsTrue, RunOnceIfAnswered, OkHasRun,
                      CommandIs, Before
  <1> QED
    BY <1>1, CommandsInductive, PTL

(* ---------------------------------- S3 ---------------------------------- *)
S3Typed ==
    /\ upload \in {"new", "sending", "completing", "aborting", "ok", "failed"}
    /\ session \in BOOLEAN /\ partErr \in BOOLEAN /\ abortLost \in BOOLEAN
    /\ landed \in SUBSET (1..Parts) /\ flying \in SUBSET (1..Parts) /\ tagged \in SUBSET (1..Parts)
    /\ nextPart \in 1..(Parts + 1) /\ object \in {"old", "whole"}

(* Every part numbered so far is on its way or has its tag, as long as     *)
(* none failed; only an upload nobody waits for leaves some behind.        *)
UploadSound ==
    /\ upload = "new" => ~ session /\ landed = {} /\ flying = {} /\ tagged = {} /\ nextPart = 1
    /\ upload = "new" => ~ partErr /\ object = "old" /\ ~ abortLost
    /\ upload = "sending" /\ ~ partErr => flying \cup tagged = 1..(nextPart - 1)
    /\ upload = "completing" => tagged = 1..Parts
    /\ upload \in {"sending", "completing"} => session
    /\ upload \in {"completing", "aborting", "ok"} => flying = {}
    /\ upload = "aborting" => session \/ landed = {}
    /\ upload = "ok" => object = "whole" /\ ~ session /\ landed = {}
    /\ upload = "failed" /\ ~ abortLost => ~ session /\ landed = {} /\ flying = {}

(* What was copied has its copy, and only that is deleted.                 *)
MoveSound ==
    /\ move = "new" => copied = {} /\ leaving = {} /\ removed = {}
    /\ source \in [Key -> Nat] /\ target \in [Key -> Nat] /\ puts \in Nat
    /\ listed \subseteq Key /\ copied \subseteq listed /\ leaving \cup removed \subseteq copied
    /\ \A k \in copied : target[k] # 0

S3Inv == S3Typed /\ UploadSound /\ MoveSound

LEMMA UploadKeeps == ASSUME S3Typed, UploadSound, UploadStep PROVE S3Typed' /\ UploadSound'
  <1> USE DEF S3Typed, UploadSound
  <1>0. Parts \in Nat \ {0}
    BY S3Assumption DEF S3Assumption
  <1>1. CASE CreateMultipart
    <2>1. S3Typed'
      BY <1>0, <1>1 DEF CreateMultipart
    <2>2. 1..(nextPart - 1) = {} /\ flying \cup tagged = {}
      BY <1>1 DEF CreateMultipart
    <2>3. UploadSound'
      <3>1. /\ upload = "new" /\ UNCHANGED <<landed, flying, tagged, nextPart, partErr, object, abortLost>>
            /\ (upload' = "sending" /\ session') \/ (upload' = "failed" /\ ~ session')
        BY <1>1 DEF CreateMultipart
      <3> QED
        BY <2>2, <3>1
    <2> QED
      BY <2>1, <2>3
  <1>2. CASE SendPart
    <2>1. nextPart \in 1..Parts /\ nextPart' = nextPart + 1 /\ flying' = flying \cup {nextPart} /\ ~ partErr
          /\ upload = "sending" /\ UNCHANGED <<upload, session, landed, tagged, partErr, object, abortLost>>
      BY <1>0, <1>2 DEF SendPart
    <2>2. 1..(nextPart' - 1) = 1..(nextPart - 1) \cup {nextPart}
      BY <1>0, <2>1
    <2>3. flying' \cup tagged' = 1..(nextPart' - 1)
      BY <2>1, <2>2
    <2> QED
      BY <1>0, <2>1, <2>3
  <1>3. CASE PartsDone
    <2>1. ~ partErr => tagged = 1..Parts
      <3> SUFFICES ASSUME ~ partErr PROVE tagged = 1..Parts
        OBVIOUS
      <3>1. nextPart - 1 = Parts /\ flying = {} /\ upload = "sending"
        BY <1>0, <1>3 DEF PartsDone
      <3> QED
        BY <3>1
    <2>2. S3Typed'
      BY <1>0, <1>3 DEF PartsDone
    <2>3. UploadSound'
      BY <1>3, <2>1 DEF PartsDone
    <2> QED
      BY <2>2, <2>3
  <1>4. CASE Complete
    <2>1. tagged = 1..Parts /\ flying = {} /\ UNCHANGED <<flying, tagged, nextPart, partErr, abortLost>>
      BY <1>4 DEF Complete
    <2>2. \/ object' = "whole" /\ session' = FALSE /\ landed' = {} /\ upload' \in {"ok", "aborting"}
          \/ upload' = "aborting" /\ UNCHANGED <<object, session, landed>>
      BY <1>4, <2>1 DEF Complete, Made
    <2>3. session \/ landed = {} \/ upload' # "aborting" \/ landed' = {}
      BY <2>2, <1>4 DEF Complete
    <2>4. S3Typed'
      BY <2>1, <2>2
    <2>5. UploadSound'
      BY <2>1, <2>2, <2>3
    <2> QED
      BY <2>4, <2>5
  <1>5. CASE Abort
    <2>1. S3Typed'
      BY <1>5 DEF Abort
    <2>2. \/ session' = FALSE /\ landed' = {}
          \/ session /\ abortLost'
          \/ ~ session' /\ landed' = {}
      <3>1. CASE session
        BY <1>5, <3>1 DEF Abort
      <3>2. CASE ~ session
        BY <1>5, <3>2 DEF Abort
      <3> QED
        BY <3>1, <3>2
    <2>3. UploadSound'
      BY <1>5, <2>2 DEF Abort
    <2> QED
      BY <2>1, <2>3
  <1>6. CASE Cancel
    <2>1. S3Typed'
      BY <1>6 DEF Cancel
    <2>2. UploadSound'
      BY <1>6 DEF Cancel
    <2> QED
      BY <2>1, <2>2
  <1>7. ASSUME NEW p \in 1..Parts, PartAnswered(p) PROVE S3Typed' /\ UploadSound'
    <2>1. /\ upload = "sending" /\ p \in flying /\ flying' = flying \ {p}
          /\ UNCHANGED <<upload, session, nextPart, object, abortLost>>
      BY <1>7 DEF PartAnswered
    <2>2. \/ tagged' = tagged \cup {p} /\ landed' = landed \cup {p} /\ UNCHANGED partErr
          \/ partErr' = TRUE /\ landed' \in {landed, landed \cup {p}} /\ UNCHANGED tagged
      BY <1>7 DEF PartAnswered
    <2>3. ~ partErr' => flying' \cup tagged' = 1..(nextPart' - 1)
      BY <2>1, <2>2
    <2>4. S3Typed'
      BY <2>1, <2>2
    <2> QED
      BY <2>1, <2>3, <2>4
  <1>8. ASSUME NEW p \in 1..Parts, PartArrivesLate(p) PROVE S3Typed' /\ UploadSound'
    <2>1. upload = "failed" /\ abortLost
      BY <1>8 DEF PartArrivesLate
    <2> QED
      <3>1. S3Typed'
        BY <1>8 DEF PartArrivesLate
      <3>2. UploadSound'
        BY <1>8, <2>1 DEF PartArrivesLate
      <3> QED
        BY <3>1, <3>2
  <1> QED
    BY <1>1, <1>2, <1>3, <1>4, <1>5, <1>6, <1>7, <1>8 DEF UploadStep

LEMMA MoveKeeps == ASSUME MoveSound, MoveStep PROVE MoveSound'
  <1> USE DEF MoveSound
  <1>1. CASE List
    BY <1>1 DEF List
  <1>2. CASE MoveEnds
    BY <1>2 DEF MoveEnds
  <1>3. CASE CancelMove
    BY <1>3 DEF CancelMove
  <1>4. ASSUME NEW k \in Key, Copy(k) PROVE MoveSound'
    <2>1. /\ move = "copying" /\ k \in listed \ copied
          /\ UNCHANGED <<source, listed, leaving, delErr, removed, puts>>
      BY <1>4 DEF Copy
    <2>2. CASE source[k] # 0 /\ target' = [target EXCEPT ![k] = source[k]] /\ copied' = copied \cup {k}
               /\ UNCHANGED move
      BY <2>1, <2>2
    <2>3. CASE move' = "failed" /\ UNCHANGED copied
               /\ target' \in {target} \cup {[target EXCEPT ![k] = v] : v \in {source[k]} \ {0}}
      BY <2>1, <2>3
    <2> QED
      BY <1>4, <2>2, <2>3 DEF Copy
  <1>5. ASSUME NEW k \in Key, Delete(k) PROVE MoveSound'
    BY <1>5 DEF Delete
  <1>6. ASSUME NEW k \in Key, Deleted(k) PROVE MoveSound'
    <2>1. k \in leaving /\ leaving' = leaving \ {k} /\ UNCHANGED <<move, target, listed, copied, puts>>
      BY <1>6 DEF Deleted
    <2>2. CASE source' = [source EXCEPT ![k] = 0] /\ removed' = removed \cup {k}
      BY <2>1, <2>2
    <2>3. CASE UNCHANGED <<source, removed>>
      BY <2>1, <2>3
    <2> QED
      BY <1>6, <2>2, <2>3 DEF Deleted
  <1>7. ASSUME NEW k \in Key, OtherClient(k) PROVE MoveSound'
    <2>1. PICK v \in {0, puts + 2} : source' = [source EXCEPT ![k] = v]
      BY <1>7 DEF OtherClient
    <2>2. v \in Nat /\ puts' \in Nat
      BY <1>7, <2>1 DEF OtherClient
    <2>3. source' \in [Key -> Nat]
      BY <2>1, <2>2
    <2>4. move' = move /\ UNCHANGED <<target, listed, copied, leaving, removed>>
      BY <1>7 DEF OtherClient
    <2> QED
      BY <2>2, <2>3, <2>4
  <1> QED
    BY <1>1, <1>2, <1>3, <1>4, <1>5, <1>6, <1>7 DEF MoveStep

(* S3Inv holds at the start and every step keeps it.                       *)
THEOREM S3Inductive == S3Spec => []S3Inv
  <1>1. S3Init => S3Inv
    <2>1. S3Init => S3Typed /\ UploadSound
      <3>1. Parts \in Nat \ {0} /\ 1 \in 1..(Parts + 1)
        BY S3Assumption DEF S3Assumption
      <3> QED
        BY <3>1 DEF S3Init, S3Typed, UploadSound
    <2>2. S3Init => MoveSound
      BY DEF S3Init, MoveSound
    <2> QED
      BY <2>1, <2>2 DEF S3Inv
  <1>2. S3Inv /\ [S3Next]_<<uploadVars, moveVars>> => S3Inv'
    <2> SUFFICES ASSUME S3Inv, [S3Next]_<<uploadVars, moveVars>> PROVE S3Inv'
      OBVIOUS
    <2>1. UNCHANGED uploadVars => S3Typed' /\ UploadSound'
      BY DEF S3Inv, S3Typed, UploadSound, uploadVars
    <2>2. UNCHANGED moveVars => MoveSound'
      BY DEF S3Inv, MoveSound, moveVars
    <2> QED
      BY <2>1, <2>2, UploadKeeps, MoveKeeps DEF S3Inv, S3Next
  <1> QED
    BY <1>1, <1>2, PTL DEF S3Spec

(* For any number of parts, uploads in flight and objects, and whichever   *)
(* requests fail or lose their answer: an object is as it was or whole, an *)
(* upload that ended leaves no parts, and what a move deleted is at its    *)
(* new place.                                                              *)
THEOREM RequestsAreOne == S3Spec => []ManyRequestsAreOne
  <1>1. S3Inv => ManyRequestsAreOne
    BY DEF S3Inv, S3Typed, UploadSound, MoveSound, ManyRequestsAreOne, UploadIsWhole, NoPartsLeft, MovedIsThere
  <1> QED
    BY <1>1, S3Inductive, PTL

(* ------------------------- the shared SFTP channel ----------------------- *)
StartSteps == {"idle", "begin", "restart", "reconnect", "remembered", "native", "new remembered", "new native",
               "exec refused", "probe", "exec new", "exec slow"}
Modes      == {"unknown", "native", "exec", "failed", "refused"}
StarterSet == [gen : Nat, step : StartSteps, by : User \cup {NoChan}]
SftpTyped ==
    /\ gen \in Nat /\ mode \in Nat \X Modes /\ compat \in BOOLEAN /\ proven \in BOOLEAN /\ slow \in BOOLEAN
    /\ cache \in {NoChan} \cup [gen : Nat, chan : Nat] /\ chans \in Nat
    /\ user \in [User -> {"idle", "waiting", "running"}] /\ using \in [User -> Nat \cup {NoChan}]
    /\ starter \in StarterSet /\ failedOn \subseteq 0..gen
    /\ next \in 0..Chunks /\ up \in {"writing", "finished", "failed"} /\ unheard \in BOOLEAN

(* A session on which a native start failed says so, and no start that is  *)
(* about to ask is on it.                                                  *)
AskedOnce ==
    /\ ~askedTwice
    /\ gen \in failedOn => mode[1] = gen /\ mode[2] \in {"failed", "refused", "exec"}
    /\ starter.step \in {"remembered", "native", "new remembered", "new native"} => gen \notin failedOn
(* A start is for the session in use, and turns to compatibility mode only *)
(* while no native start has worked, or on a session that is in it.        *)
StarterSound ==
    /\ starter.step # "idle" => starter.gen = gen
    /\ starter.step \in {"remembered", "new remembered", "exec refused", "exec new", "exec slow"} => ~proven
    /\ starter.step = "restart" => mode = <<gen, "exec">>
CallersWait ==
    /\ starter.step # "idle" => ~cached_sftp
    /\ starter.step = "idle" => starter.by = NoChan
    /\ starter.by # NoChan => user[starter.by] = "waiting"
(* While nothing went unheard the file is what was written.                *)
StreamSound ==
    /\ user[Up] \in {"waiting", "running"} => up = "writing" /\ next < Chunks
    /\ ~unheard /\ up = "writing"  => stored = 0..next - 1
    /\ ~unheard /\ up = "finished" => stored = 0..Chunks - 1
SftpInv == SftpTyped /\ AskedOnce /\ StarterSound /\ CallersWait /\ StreamSound

LEMMA UpIsUser == Up \in User /\ Up # NoChan /\ \A u \in Op : u # Up
  BY SftpAssumption DEF User, SftpAssumption

LEMMA GoesIs ==
    ASSUME SftpTyped, NEW s \in StartSteps, StartGoes(s)
    PROVE  /\ starter' \in StarterSet
           /\ starter'.gen = starter.gen /\ starter'.step = s /\ starter'.by = starter.by
           /\ UNCHANGED <<gen, compat, cache, chans, user, using, streamVars>>
  BY DEF SftpTyped, StartGoes, Step, StarterSet

LEMMA NoStartIs ==
    NoStart \in StarterSet /\ NoStart.gen = 0 /\ NoStart.step = "idle" /\ NoStart.by = NoChan
  BY DEF NoStart, StarterSet, StartSteps

LEMMA GoesKeeps ==
    ASSUME SftpInv, NEW s \in StartSteps, s # "idle", starter.step # "idle", StartGoes(s),
           mode' \in Nat \X Modes, proven' \in BOOLEAN, slow' \in BOOLEAN, failedOn' \subseteq 0..gen,
           AskedOnce', StarterSound'
    PROVE  SftpInv'
  <1>1. /\ starter' \in StarterSet
        /\ starter'.gen = starter.gen /\ starter'.step = s /\ starter'.by = starter.by
        /\ UNCHANGED <<gen, compat, cache, chans, user, using, next, up, file, held, stored, unheard>>
    BY GoesIs DEF SftpInv, streamVars
  <1>2. SftpTyped'
    BY <1>1 DEF SftpInv, SftpTyped
  <1>3. CallersWait' /\ StreamSound'
    BY <1>1 DEF SftpInv, CallersWait, StreamSound, cached_sftp
  <1> QED
    BY <1>2, <1>3 DEF SftpInv

LEMMA FailsIs ==
    ASSUME SftpInv, StartFails
    PROVE  /\ starter' \in StarterSet /\ starter'.step = "idle" /\ starter'.by = NoChan
           /\ user' \in [User -> {"idle", "waiting", "running"}]
           /\ \A u \in User : user'[u] = user[u] \/ (u = starter.by /\ user'[u] = "idle")
           /\ starter.by = Up /\ Up # NoChan => user'[Up] = "idle"
           /\ up' = (IF starter.by = Up THEN "failed" ELSE up)
           /\ UNCHANGED <<gen, compat, cache, chans, using, next, file, held, stored, unheard>>
  <1>1. starter' = NoStart /\ starter.by \in User \cup {NoChan}
    BY DEF StartFails, SftpInv, SftpTyped, StarterSet
  <1> QED
    BY <1>1, NoStartIs, UpIsUser DEF StartFails, UserTo, SftpInv, SftpTyped

LEMMA FailsKeeps ==
    ASSUME SftpInv, starter.step # "idle", StartFails,
           mode' \in Nat \X Modes, proven' \in BOOLEAN, slow' \in BOOLEAN, failedOn' \subseteq 0..gen,
           ~askedTwice', gen \in failedOn' => mode'[1] = gen /\ mode'[2] \in {"failed", "refused", "exec"}
    PROVE  SftpInv'
  <1>1. SftpTyped'
    BY FailsIs DEF SftpInv, SftpTyped
  <1>2. AskedOnce' /\ StarterSound'
    BY FailsIs DEF AskedOnce, StarterSound
  <1>3. CallersWait'
    BY FailsIs DEF CallersWait
  <1>4. StreamSound'
    BY FailsIs, UpIsUser DEF SftpInv, StreamSound, CallersWait
  <1> QED
    BY <1>1, <1>2, <1>3, <1>4 DEF SftpInv

LEMMA StartsIs ==
    ASSUME SftpInv, ChannelStarts
    PROVE  /\ starter' \in StarterSet /\ starter'.step = "idle" /\ starter'.by = NoChan
           /\ cache' \in [gen : Nat, chan : Nat] /\ chans' \in Nat
           /\ user' \in [User -> {"idle", "waiting", "running"}] /\ using' \in [User -> Nat \cup {NoChan}]
           /\ \A u \in User : user'[u] = user[u] \/ (u = starter.by /\ u # NoChan /\ user'[u] = "running")
           /\ UNCHANGED <<gen, compat, next, up, file, held, stored, unheard>>
  <1>1. starter' = NoStart /\ starter.by \in User \cup {NoChan} /\ starter.gen \in Nat
    BY DEF ChannelStarts, SftpInv, SftpTyped, StarterSet
  <1> QED
    BY <1>1, NoStartIs, UpIsUser DEF ChannelStarts, UserTo, SftpInv, SftpTyped, streamVars

LEMMA StartsKeeps ==
    ASSUME SftpInv, starter.step # "idle", ChannelStarts,
           mode' \in Nat \X Modes, proven' \in BOOLEAN, slow' \in BOOLEAN, failedOn' = failedOn,
           ~askedTwice', gen \in failedOn => mode'[1] = gen /\ mode'[2] \in {"failed", "refused", "exec"}
    PROVE  SftpInv'
  <1>1. SftpTyped'
    BY StartsIs DEF SftpInv, SftpTyped
  <1>2. AskedOnce' /\ StarterSound'
    BY StartsIs DEF AskedOnce, StarterSound
  <1>3. CallersWait'
    BY StartsIs DEF CallersWait
  <1>4. StreamSound'
    BY StartsIs, UpIsUser DEF SftpInv, StreamSound, CallersWait
  <1> QED
    BY <1>1, <1>2, <1>3, <1>4 DEF SftpInv

LEMMA StarterFacts ==
    ASSUME SftpInv
    PROVE  /\ starter \in StarterSet /\ gen \in Nat /\ mode \in Nat \X Modes
           /\ proven \in BOOLEAN /\ slow \in BOOLEAN /\ compat \in BOOLEAN /\ failedOn \subseteq 0..gen
           /\ starter.step # "idle" => starter.gen = gen
           /\ mode = <<mode[1], mode[2]>> /\ gen \in 0..gen
           /\ ~askedTwice
           /\ gen \in failedOn => mode[1] = gen /\ mode[2] \in {"failed", "refused", "exec"}
           /\ starter.step \in {"remembered", "native", "new remembered", "new native"} => gen \notin failedOn
           /\ starter.step \in {"remembered", "new remembered", "exec refused", "exec new", "exec slow"} => ~proven
  <1>1. gen \in Nat /\ mode \in Nat \X Modes
    BY DEF SftpInv, SftpTyped
  <1>2. mode = <<mode[1], mode[2]>> /\ gen \in 0..gen
    BY <1>1
  <1> QED
    BY <1>1, <1>2 DEF SftpInv, SftpTyped, AskedOnce, StarterSound

LEMMA SetModeIs ==
    ASSUME NEW g \in Nat, NEW m \in Modes, SetMode(g, m)
    PROVE  mode' \in Nat \X Modes /\ mode'[1] = g /\ mode'[2] = m
  BY DEF SetMode

LEMMA BeginStartKeeps == SftpInv /\ BeginStart => SftpInv'
  <1> SUFFICES ASSUME SftpInv, BeginStart PROVE SftpInv'
    OBVIOUS
  <1>1. starter.step = "begin" /\ UNCHANGED <<mode, proven, slow, failedOn, askedTwice>>
    BY DEF BeginStart
  <1>2. CASE StartFails
    BY <1>1, <1>2, FailsKeeps, StarterFacts
  <1>3. ASSUME NEW s \in {"restart", "reconnect", "remembered", "native"}, StartGoes(s),
               s = "restart" => gen_mode = "exec", s = "remembered" => ~proven,
               s \in {"remembered", "native"} => gen_mode \notin {"exec", "failed", "refused"}
        PROVE  SftpInv'
    <2>1. s \in StartSteps /\ s # "idle"
      BY DEF StartSteps
    <2>2. UNCHANGED <<gen>> /\ starter'.step = s /\ starter'.gen = gen
      BY <1>1, <1>3, <2>1, GoesIs, StarterFacts DEF SftpInv
    <2>3. s = "restart" => mode = <<gen, "exec">>
      BY <1>3, StarterFacts DEF gen_mode
    <2>4. s \in {"remembered", "native"} => gen \notin failedOn
      BY <1>3, StarterFacts DEF gen_mode
    <2>5. AskedOnce' /\ StarterSound'
      BY <1>1, <1>3, <2>2, <2>3, <2>4, StarterFacts DEF AskedOnce, StarterSound
    <2> QED
      BY <1>1, <1>3, <2>1, <2>5, GoesKeeps, StarterFacts
  <1>4. CASE gen_mode = "exec"
    BY <1>3, <1>4 DEF BeginStart
  <1>5. CASE gen_mode = "failed"
    BY <1>3, <1>5 DEF BeginStart
  <1>6. CASE gen_mode = "refused"
    BY <1>2, <1>6 DEF BeginStart
  <1>7. CASE gen_mode \notin {"exec", "failed", "refused"}
    <2>1. CASE slow /\ exec_allowed
      BY <1>3, <1>7, <2>1 DEF BeginStart, exec_allowed
    <2>2. CASE ~(slow /\ exec_allowed)
      BY <1>3, <1>7, <2>2 DEF BeginStart
    <2> QED
      BY <2>1, <2>2
  <1> QED
    BY <1>4, <1>5, <1>6, <1>7

LEMMA ExecStepKeeps == SftpInv /\ ExecStep => SftpInv'
  <1> SUFFICES ASSUME SftpInv, NEW why, starter.step = why, why # "idle", ExecStarts(why) PROVE SftpInv'
    BY DEF ExecStep, ExecStarts
  <1>1. starter.gen \in Nat /\ "exec" \in Modes /\ starter.gen = gen
    BY StarterFacts DEF StarterSet, Modes
  <1>2. mode' \in Nat \X Modes /\ mode'[1] = gen /\ mode'[2] = "exec"
    BY <1>1, SetModeIs DEF ExecStarts
  <1>3. ChannelStarts /\ UNCHANGED <<proven, failedOn, askedTwice>> /\ slow' = (slow \/ why = "exec slow")
    BY DEF ExecStarts
  <1>4. slow' \in BOOLEAN
    BY <1>3
  <1> QED
    BY <1>2, <1>3, <1>4, StartsKeeps, StarterFacts

LEMMA RestartKeeps == SftpInv /\ Restart => SftpInv'
  <1> SUFFICES ASSUME SftpInv, Restart PROVE SftpInv'
    OBVIOUS
  <1>1. starter.step = "restart" /\ UNCHANGED <<mode, proven, slow, failedOn, askedTwice>>
    BY DEF Restart
  <1>2. CASE StartFails
    BY <1>1, <1>2, FailsKeeps, StarterFacts
  <1>3. CASE StartGoes("reconnect")
    <2>1. "reconnect" \in StartSteps
      BY DEF StartSteps
    <2>2. AskedOnce' /\ StarterSound'
      BY <1>1, <1>3, <2>1, GoesIs, StarterFacts DEF AskedOnce, StarterSound, SftpInv
    <2> QED
      BY <1>1, <1>3, <2>1, <2>2, GoesKeeps, StarterFacts
  <1> QED
    BY <1>2, <1>3 DEF Restart

LEMMA RememberedKeeps == SftpInv /\ Remembered => SftpInv'
  <1> SUFFICES ASSUME SftpInv, Remembered PROVE SftpInv'
    OBVIOUS
  <1> DEFINE s == IF starter.step = "remembered" THEN "native" ELSE "new native"
  <1>1. starter.step \in {"remembered", "new remembered"} /\ UNCHANGED <<mode, proven, failedOn, askedTwice>>
        /\ slow' = FALSE /\ StartGoes(s)
    BY DEF Remembered
  <1>2. s \in {"native", "new native"} /\ s \in StartSteps
    BY DEF StartSteps
  <1> HIDE DEF s
  <1>3. UNCHANGED gen /\ starter'.step = s /\ starter'.gen = gen
    BY <1>1, <1>2, GoesIs, StarterFacts DEF SftpInv
  <1>4. AskedOnce' /\ StarterSound'
    BY <1>1, <1>2, <1>3, StarterFacts DEF AskedOnce, StarterSound
  <1> QED
    BY <1>1, <1>2, <1>4, GoesKeeps, StarterFacts

LEMMA NativeStartsKeeps == SftpInv /\ NativeStarts => SftpInv'
  <1> SUFFICES ASSUME SftpInv, NativeStarts PROVE SftpInv'
    OBVIOUS
  <1>1. starter.step \in {"native", "new native"} /\ ChannelStarts /\ UNCHANGED <<slow, failedOn>> /\ proven' = TRUE
        /\ SetMode(starter.gen, "native")
    BY DEF NativeStarts
  <1>2. starter.gen = gen /\ gen \notin failedOn /\ "native" \in Modes
    BY <1>1, StarterFacts DEF Modes
  <1>3. ~askedTwice'
    BY <1>2, StarterFacts DEF NativeStarts, AskNative
  <1>4. mode' \in Nat \X Modes
    BY <1>1, <1>2, SetModeIs, StarterFacts
  <1> QED
    BY <1>1, <1>2, <1>3, <1>4, StartsKeeps, StarterFacts

LEMMA NotStartedIs ==
    ASSUME SftpInv, NativeNotStarted, starter.step \in {"native", "new native"}
    PROVE  /\ ~askedTwice' /\ failedOn' \subseteq 0..gen /\ gen \in failedOn' /\ UNCHANGED <<proven, slow>>
           /\ starter.gen = gen
  BY StarterFacts DEF NativeNotStarted, AskNative

(* What a failed native start goes on with. *)
LEMMA AskedKeeps ==
    ASSUME SftpInv, NativeNotStarted, starter.step \in {"native", "new native"},
           NEW m \in {"failed", "refused"}, SetMode(starter.gen, m),
           \/ StartFails
           \/ \E s \in {"reconnect", "probe", "exec refused", "exec new", "exec slow"} :
                  StartGoes(s) /\ (s \in {"exec refused", "exec new", "exec slow"} => ~proven)
    PROVE  SftpInv'
  <1>1. /\ ~askedTwice' /\ failedOn' \subseteq 0..gen /\ gen \in failedOn' /\ UNCHANGED <<proven, slow>>
        /\ starter.gen = gen
    BY NotStartedIs
  <1>2. mode' \in Nat \X Modes /\ mode'[1] = gen /\ mode'[2] = m
    BY <1>1, SetModeIs, StarterFacts DEF Modes
  <1>3. CASE StartFails
    BY <1>1, <1>2, <1>3, FailsKeeps, StarterFacts
  <1>4. ASSUME NEW s \in {"reconnect", "probe", "exec refused", "exec new", "exec slow"}, StartGoes(s),
               s \in {"exec refused", "exec new", "exec slow"} => ~proven
        PROVE  SftpInv'
    <2>1. s \in StartSteps /\ s # "idle"
      BY DEF StartSteps
    <2>2. UNCHANGED gen /\ starter'.step = s /\ starter'.gen = gen
      BY <1>1, <1>4, <2>1, GoesIs DEF SftpInv
    <2>3. AskedOnce' /\ StarterSound'
      BY <1>1, <1>2, <1>4, <2>2 DEF AskedOnce, StarterSound
    <2> QED
      BY <1>1, <1>2, <1>4, <2>1, <2>3, GoesKeeps, StarterFacts
  <1> QED
    BY <1>3, <1>4

LEMMA NativeLostKeeps == SftpInv /\ NativeLost => SftpInv'
  <1> SUFFICES ASSUME SftpInv, NativeLost PROVE SftpInv'
    OBVIOUS
  <1> QED
    BY AskedKeeps DEF NativeLost

LEMMA AfterRefusedKeeps == SftpInv /\ AfterRefused => SftpInv'
  <1> SUFFICES ASSUME SftpInv, AfterRefused PROVE SftpInv'
    OBVIOUS
  <1>1. NativeNotStarted /\ starter.step = "native" /\ SetMode(starter.gen, "failed")
    BY DEF AfterRefused
  <1>2. CASE exec_allowed
    BY <1>1, <1>2, AskedKeeps DEF AfterRefused, exec_allowed
  <1>3. CASE ~exec_allowed
    BY <1>1, <1>3, AskedKeeps DEF AfterRefused
  <1> QED
    BY <1>2, <1>3

LEMMA NewNativeFailsKeeps == SftpInv /\ NewNativeFails => SftpInv'
  <1> SUFFICES ASSUME SftpInv, NewNativeFails PROVE SftpInv'
    OBVIOUS
  <1>1. NativeNotStarted /\ starter.step = "new native"
    BY DEF NewNativeFails
  <1>2. CASE StartFails /\ SetMode(starter.gen, "failed")
    BY <1>1, <1>2, AskedKeeps
  <1>3. CASE StartFails /\ SetMode(starter.gen, "refused")
    BY <1>1, <1>3, AskedKeeps
  <1>4. CASE exec_allowed /\ SetMode(starter.gen, "failed") /\ \E w \in {"exec new", "exec slow"} : StartGoes(w)
    BY <1>1, <1>4, AskedKeeps DEF exec_allowed
  <1> QED
    BY <1>2, <1>3, <1>4 DEF NewNativeFails

LEMMA AfterwardsKeep == SftpInv /\ (ExecRefused \/ ProbeChannel \/ ExecNewFails) => SftpInv'
  <1> SUFFICES ASSUME SftpInv, ExecRefused \/ ProbeChannel \/ ExecNewFails PROVE SftpInv'
    OBVIOUS
  <1>1. starter.step # "idle" /\ starter.gen = gen /\ UNCHANGED <<proven, slow, failedOn, askedTwice>>
    BY StarterFacts DEF ExecRefused, ProbeChannel, ExecNewFails
  <1>2. CASE StartGoes("reconnect") /\ UNCHANGED mode
    <2>1. "reconnect" \in StartSteps
      BY DEF StartSteps
    <2>2. AskedOnce' /\ StarterSound'
      BY <1>1, <1>2, <2>1, GoesIs, StarterFacts DEF AskedOnce, StarterSound, SftpInv
    <2> QED
      BY <1>1, <1>2, <2>1, <2>2, GoesKeeps, StarterFacts
  <1>3. CASE StartFails /\ UNCHANGED mode
    BY <1>1, <1>3, FailsKeeps, StarterFacts
  <1>4. CASE StartFails /\ SetMode(starter.gen, "refused")
    <2>1. mode' \in Nat \X Modes /\ mode'[1] = gen /\ mode'[2] = "refused"
      BY <1>1, <1>4, SetModeIs, StarterFacts DEF Modes
    <2> QED
      BY <1>1, <1>4, <2>1, FailsKeeps, StarterFacts
  <1> QED
    BY <1>2, <1>3, <1>4 DEF ExecRefused, ProbeChannel, ExecNewFails

LEMMA ReconnectKeeps == SftpInv /\ Reconnect => SftpInv'
  <1> SUFFICES ASSUME SftpInv, Reconnect PROVE SftpInv'
    OBVIOUS
  <1>1. starter.step = "reconnect" /\ UNCHANGED <<mode, proven, slow, failedOn, askedTwice>>
    BY DEF Reconnect
  <1>2. CASE StartFails
    BY <1>1, <1>2, FailsKeeps, StarterFacts
  <1>3. CASE /\ gen' = gen + 1 /\ cache' = NoChan
             /\ starter' = [starter EXCEPT !.gen = gen + 1,
                            !.step = IF slow /\ exec_allowed THEN "new remembered" ELSE "new native"]
             /\ UNCHANGED <<compat, chans, user, using, streamVars>>
    <2> DEFINE s == IF slow /\ exec_allowed THEN "new remembered" ELSE "new native"
    <2>1. s \in {"new remembered", "new native"} /\ s \in StartSteps /\ (s = "new remembered" => ~proven)
      BY DEF StartSteps, exec_allowed
    <2>2. starter' = [starter EXCEPT !.gen = gen + 1, !.step = s]
      BY <1>3
    <2> HIDE DEF s
    <2>3. gen + 1 \in Nat /\ gen + 1 \notin failedOn /\ failedOn \subseteq 0..(gen + 1)
      <3>1. gen \in Nat /\ failedOn \subseteq 0..gen
        BY StarterFacts
      <3> QED
        BY <3>1
    <2>4. starter' \in StarterSet /\ starter'.gen = gen + 1 /\ starter'.step = s /\ starter'.by = starter.by
      BY <2>1, <2>2, <2>3, StarterFacts DEF StarterSet
    <2>5. SftpTyped'
      BY <1>1, <1>3, <2>3, <2>4, StarterFacts DEF SftpInv, SftpTyped, streamVars
    <2>6. AskedOnce' /\ StarterSound'
      BY <1>1, <1>3, <2>1, <2>3, <2>4, StarterFacts DEF AskedOnce, StarterSound
    <2>7. CallersWait' /\ StreamSound'
      BY <1>1, <1>3, <2>1, <2>4 DEF SftpInv, CallersWait, StreamSound, cached_sftp, streamVars
    <2> QED
      BY <2>5, <2>6, <2>7 DEF SftpInv
  <1> QED
    BY <1>2, <1>3 DEF Reconnect

(* ---- The operations ---- *)
LEMMA UserFacts ==
    ASSUME SftpInv, NEW u \in User
    PROVE  /\ starter \in StarterSet /\ user \in [User -> {"idle", "waiting", "running"}]
           /\ using \in [User -> Nat \cup {NoChan}] /\ using[u] \in Nat \cup {NoChan}
           /\ user[u] \in {"idle", "waiting", "running"}
           /\ cache \in {NoChan} \cup [gen : Nat, chan : Nat] /\ (cache # NoChan => cache.chan \in Nat)
           /\ next \in 0..Chunks /\ Chunks \in Nat /\ next \in Nat
  BY SftpAssumption DEF SftpInv, SftpTyped, SftpAssumption

LEMMA AcquireKeeps ==
    ASSUME SftpInv, NEW u \in User, Acquire(u)
    PROVE  SftpInv'
  <1>1. /\ user[u] \in {"idle", "waiting"} /\ (u = Up => up = "writing" /\ next < Chunks)
        /\ UNCHANGED <<gen, compat, mode, proven, slow, failedOn, askedTwice, cache, chans>>
        /\ UNCHANGED <<next, up, file, held, stored, unheard>>
    BY DEF Acquire, startVars, streamVars
  <1>2. CASE cached_sftp /\ UserTo(u, "running") /\ using' = [using EXCEPT ![u] = cache.chan] /\ UNCHANGED starter
    <2>1. /\ user'[u] = "running" /\ user' \in [User -> {"idle", "waiting", "running"}]
          /\ \A v \in User : v # u => user'[v] = user[v]
          /\ using' \in [User -> Nat \cup {NoChan}] /\ starter' = starter
          /\ starter.step = "idle" /\ starter.by = NoChan
      BY <1>2, UserFacts DEF UserTo, cached_sftp, SftpInv, CallersWait
    <2>2. SftpTyped'
      BY <1>1, <2>1 DEF SftpInv, SftpTyped
    <2>3. AskedOnce' /\ StarterSound' /\ CallersWait'
      BY <1>1, <2>1 DEF SftpInv, AskedOnce, StarterSound, CallersWait
    <2>4. StreamSound'
      BY <1>1, <2>1, UpIsUser DEF SftpInv, StreamSound
    <2> QED
      BY <2>2, <2>3, <2>4 DEF SftpInv
  <1>3. CASE /\ ~cached_sftp /\ UserTo(u, "waiting") /\ starter.step = "idle"
             /\ starter' = [gen |-> gen, step |-> "begin", by |-> u] /\ UNCHANGED using
    <2>1. /\ user'[u] = "waiting" /\ user' \in [User -> {"idle", "waiting", "running"}]
          /\ \A v \in User : v # u => user'[v] = user[v]
      BY <1>3, UserFacts DEF UserTo
    <2>2. starter' \in StarterSet /\ starter'.gen = gen /\ starter'.step = "begin" /\ starter'.by = u
      BY <1>3, StarterFacts DEF StarterSet, StartSteps
    <2>3. SftpTyped'
      BY <1>1, <1>3, <2>1, <2>2 DEF SftpInv, SftpTyped
    <2>4. AskedOnce' /\ StarterSound'
      BY <1>1, <2>2 DEF SftpInv, AskedOnce, StarterSound
    <2>5. CallersWait'
      BY <1>1, <1>3, <2>1, <2>2 DEF CallersWait, cached_sftp
    <2>6. StreamSound'
      BY <1>1, <2>1, UpIsUser DEF SftpInv, StreamSound
    <2> QED
      BY <2>3, <2>4, <2>5, <2>6 DEF SftpInv
  <1> QED
    BY <1>2, <1>3 DEF Acquire

LEMMA QuitKeeps ==
    ASSUME SftpInv, NEW u \in User, Quit(u)
    PROVE  SftpInv'
  <1>1. /\ user[u] = "waiting" /\ up' = (IF u = Up THEN "failed" ELSE up)
        /\ UNCHANGED <<gen, compat, mode, proven, slow, failedOn, askedTwice, cache, chans, using>>
        /\ UNCHANGED <<next, file, held, stored, unheard>>
    BY DEF Quit, startVars
  <1>2. /\ user'[u] = "idle" /\ user' \in [User -> {"idle", "waiting", "running"}]
        /\ \A v \in User : v # u => user'[v] = user[v]
    BY UserFacts DEF Quit, UserTo
  <1>3. /\ starter' \in StarterSet /\ starter'.gen = starter.gen /\ starter'.step = starter.step
        /\ starter'.by = (IF starter.by = u THEN NoChan ELSE starter.by)
    BY UserFacts DEF Quit, StarterSet
  <1>4. SftpTyped'
    BY <1>1, <1>2, <1>3 DEF SftpInv, SftpTyped
  <1>5. AskedOnce' /\ StarterSound'
    BY <1>1, <1>3 DEF SftpInv, AskedOnce, StarterSound
  <1>6. CallersWait'
    <2>1. starter.by \in User \cup {NoChan}
      BY UserFacts DEF StarterSet
    <2> QED
      BY <1>1, <1>2, <1>3, <2>1 DEF SftpInv, CallersWait, cached_sftp
  <1>7. StreamSound'
    BY <1>1, <1>2, UpIsUser DEF SftpInv, StreamSound
  <1> QED
    BY <1>4, <1>5, <1>6, <1>7 DEF SftpInv

(* An operation ends, and with it perhaps the channel it was on. *)
LEMMA EndsKeep ==
    ASSUME SftpInv, NEW u \in User, user[u] = "running", UserTo(u, "idle"),
           using' = [using EXCEPT ![u] = NoChan], UNCHANGED cache \/ DropChannel(using[u]),
           UNCHANGED startVars, UNCHANGED <<chans, starter>>, next' \in 0..Chunks,
           up' \in {"writing", "finished", "failed"}, unheard' \in BOOLEAN, StreamSound'
    PROVE  SftpInv'
  <1>1. /\ user'[u] = "idle" /\ user' \in [User -> {"idle", "waiting", "running"}]
        /\ \A v \in User : v # u => user'[v] = user[v]
        /\ using' \in [User -> Nat \cup {NoChan}]
    BY UserFacts DEF UserTo
  <1>2. cache' \in {NoChan, cache}
    BY DEF DropChannel
  <1>3. UNCHANGED <<gen, compat, mode, proven, slow, failedOn, askedTwice>>
    BY DEF startVars
  <1>4. SftpTyped'
    BY <1>1, <1>2, <1>3 DEF SftpInv, SftpTyped
  <1>5. AskedOnce' /\ StarterSound'
    BY <1>3 DEF SftpInv, AskedOnce, StarterSound
  <1>6. CallersWait'
    <2>1. starter.by # NoChan => starter.by \in User /\ starter.by # u
      BY UserFacts DEF SftpInv, CallersWait, StarterSet
    <2> QED
      BY <1>1, <1>2, <1>3, <2>1 DEF SftpInv, CallersWait, cached_sftp
  <1> QED
    BY <1>4, <1>5, <1>6 DEF SftpInv

LEMMA OpEndsKeeps ==
    ASSUME SftpInv, NEW u \in User, OpEnds(u)
    PROVE  SftpInv'
  <1>1. /\ u # Up /\ UserTo(u, "idle") /\ UNCHANGED <<next, up, file, held, stored, unheard>>
    BY UpIsUser DEF OpEnds, streamVars
  <1>2. user'[Up] = user[Up]
    BY <1>1, UpIsUser, UserFacts DEF UserTo
  <1>3. StreamSound'
    BY <1>1, <1>2 DEF SftpInv, StreamSound
  <1>4. next' \in 0..Chunks /\ up' \in {"writing", "finished", "failed"} /\ unheard' \in BOOLEAN
    BY <1>1 DEF SftpInv, SftpTyped
  <1> QED
    BY <1>3, <1>4, EndsKeep DEF OpEnds

LEMMA WriteStepKeeps == SftpInv /\ WriteStep => SftpInv'
  <1> SUFFICES ASSUME SftpInv, WriteStep PROVE SftpInv'
    OBVIOUS
  <1> DEFINE same == file = using[Up]
  <1>1. /\ user[Up] = "running" /\ UserTo(Up, "idle") /\ using' = [using EXCEPT ![Up] = NoChan]
        /\ UNCHANGED startVars /\ UNCHANGED <<chans, starter>>
    BY DEF WriteStep
  <1>2. up = "writing" /\ next < Chunks /\ user'[Up] = "idle" /\ next \in Nat /\ Chunks \in Nat
    BY <1>1, UpIsUser, UserFacts DEF UserTo, SftpInv, StreamSound
  <1>3. CASE /\ next' = next + 1 /\ up' = up /\ unheard' = (unheard \/ (~same /\ held # {})) /\ UNCHANGED cache
             /\ \E lost \in IF same THEN {{}} ELSE {{}, held} : stored' = (stored \cup {next}) \ lost
    <2>1. next' \in 0..Chunks /\ unheard' \in BOOLEAN
      BY <1>2, <1>3
    <2>2. ~unheard' => ~unheard /\ stored' = stored \cup {next}
      BY <1>3
    <2>3. ~unheard' => stored' = 0..next' - 1
      <3>1. (0..next - 1) \cup {next} = 0..(next + 1) - 1
        BY <1>2
      <3> QED
        BY <1>2, <1>3, <2>2, <3>1 DEF SftpInv, StreamSound
    <2>4. StreamSound'
      BY <1>2, <1>3, <2>3 DEF StreamSound
    <2> QED
      BY <1>1, <1>2, <1>3, <2>1, <2>4, UpIsUser, EndsKeep
  <1>4. CASE /\ up' = "failed" /\ UNCHANGED <<next, stored, unheard>>
             /\ (UNCHANGED cache \/ DropChannel(using[Up]))
    <2>1. StreamSound'
      BY <1>2, <1>4 DEF StreamSound
    <2>2. next' \in 0..Chunks /\ unheard' \in BOOLEAN
      BY <1>4 DEF SftpInv, SftpTyped
    <2> QED
      BY <1>1, <1>4, <2>1, <2>2, UpIsUser, EndsKeep
  <1> QED
    BY <1>3, <1>4 DEF WriteStep

(* The stream's file changes, and nothing else does. *)
LEMMA FileKeeps ==
    ASSUME SftpInv, UNCHANGED startVars, UNCHANGED <<cache, chans, user, using, starter, next>>,
           up' \in {"writing", "finished", "failed"}, unheard' \in BOOLEAN, StreamSound'
    PROVE  SftpInv'
  <1>1. UNCHANGED <<gen, compat, mode, proven, slow, failedOn, askedTwice>>
    BY DEF startVars
  <1> QED
    BY <1>1 DEF SftpInv, SftpTyped, AskedOnce, StarterSound, CallersWait, cached_sftp

LEMMA IdleCloseKeeps == SftpInv /\ IdleClose => SftpInv'
  <1> SUFFICES ASSUME SftpInv, IdleClose PROVE SftpInv'
    OBVIOUS
  <1>1. /\ UNCHANGED <<user, next, up>> /\ stored' \in {stored, stored \ held}
        /\ unheard' = (unheard \/ held # {})
    BY DEF IdleClose
  <1>2. unheard' \in BOOLEAN /\ (~unheard' => ~unheard /\ stored' = stored)
    BY <1>1
  <1>3. StreamSound'
    BY <1>1, <1>2 DEF SftpInv, StreamSound
  <1>4. up' \in {"writing", "finished", "failed"}
    BY <1>1 DEF SftpInv, SftpTyped
  <1> QED
    BY <1>2, <1>3, <1>4, FileKeeps DEF IdleClose

LEMMA FinishKeeps == SftpInv /\ Finish => SftpInv'
  <1> SUFFICES ASSUME SftpInv, Finish PROVE SftpInv'
    OBVIOUS
  <1>1. /\ UNCHANGED <<user, next, unheard>> /\ up = "writing" /\ next = Chunks
        /\ \/ up' = "finished" /\ UNCHANGED stored
           \/ up' = "failed"
    BY DEF Finish
  <1>2. user[Up] = "idle"
    BY <1>1, UpIsUser, UserFacts DEF SftpInv, StreamSound
  <1>3. StreamSound'
    BY <1>1, <1>2 DEF SftpInv, StreamSound
  <1>4. unheard' \in BOOLEAN
    BY <1>1 DEF SftpInv, SftpTyped
  <1> QED
    BY <1>1, <1>3, <1>4, FileKeeps DEF Finish

LEMMA SftpBegins == SftpInit => SftpInv
  <1> SUFFICES ASSUME SftpInit PROVE SftpInv
    OBVIOUS
  <1>1. SftpTyped
    <2>1. mode \in Nat \X Modes
      BY DEF SftpInit, Modes
    <2>2. next \in 0..Chunks
      BY SftpAssumption DEF SftpInit, SftpAssumption
    <2> QED
      BY <2>1, <2>2, NoStartIs DEF SftpInit, SftpTyped
  <1>2. AskedOnce /\ StarterSound /\ CallersWait
    BY NoStartIs DEF SftpInit, AskedOnce, StarterSound, CallersWait
  <1>3. StreamSound
    BY UpIsUser DEF SftpInit, StreamSound
  <1> QED
    BY <1>1, <1>2, <1>3 DEF SftpInv

LEMMA SftpStep == SftpInv /\ [SftpNext]_sftpVars => SftpInv'
  <1> SUFFICES ASSUME SftpInv, [SftpNext]_sftpVars PROVE SftpInv'
    OBVIOUS
  <1>1. CASE StartStep
    BY <1>1, BeginStartKeeps, ExecStepKeeps, RestartKeeps, RememberedKeeps, NativeStartsKeeps, NativeLostKeeps,
       AfterRefusedKeeps, AfterwardsKeep, NewNativeFailsKeeps, ReconnectKeeps DEF StartStep
  <1>2. CASE \E u \in User : Acquire(u) \/ Quit(u) \/ OpEnds(u)
    BY <1>2, AcquireKeeps, QuitKeeps, OpEndsKeeps
  <1>3. CASE WriteStep \/ IdleClose \/ Finish
    BY <1>3, WriteStepKeeps, IdleCloseKeeps, FinishKeeps
  <1>4. CASE UNCHANGED sftpVars
    <2>1. UNCHANGED startVars /\ UNCHANGED <<cache, chans, user, using, starter, next, up, stored, unheard>>
      BY <1>4 DEF sftpVars, streamVars
    <2>2. StreamSound' /\ up' \in {"writing", "finished", "failed"} /\ unheard' \in BOOLEAN
      BY <2>1 DEF SftpInv, StreamSound, SftpTyped
    <2> QED
      BY <2>1, <2>2, FileKeeps
  <1> QED
    BY <1>1, <1>2, <1>3, <1>4 DEF SftpNext

(* Every state of the shared channel and of its users satisfies the        *)
(* inductive invariant.                                                    *)
THEOREM SftpInductive == SftpSpec => []SftpInv
  BY SftpBegins, SftpStep, PTL DEF SftpSpec

(* ---- What a step may not do ---- *)
LEMMA GoodStays ==
    ASSUME SftpInv, [SftpNext]_sftpVars, proven
    PROVE  mode' = mode \/ mode'[2] # "exec"
  <1>1. CASE ExecStep
    <2>1. PICK why \in {"restart", "remembered", "new remembered", "exec refused", "exec new", "exec slow"} :
              ExecStarts(why)
      BY <1>1 DEF ExecStep
    <2>2. starter.step = why /\ mode' = <<starter.gen, "exec">>
      BY <2>1 DEF ExecStarts, SetMode
    <2>3. why = "restart"
      BY <2>1, <2>2, StarterFacts
    <2>4. mode = <<gen, "exec">> /\ starter.gen = gen
      BY <2>2, <2>3 DEF SftpInv, StarterSound
    <2> QED
      BY <2>2, <2>4
  <1>2. CASE StartStep /\ ~ExecStep
    <2>1. CASE BeginStart \/ Restart \/ Remembered \/ Reconnect
      BY <2>1 DEF BeginStart, Restart, Remembered, Reconnect
    <2>2. ASSUME NEW g, NEW m \in {"native", "failed", "refused"}, SetMode(g, m) PROVE mode'[2] # "exec"
      BY <2>2 DEF SetMode
    <2>3. CASE NativeStarts \/ NativeLost \/ AfterRefused
      BY <2>2, <2>3 DEF NativeStarts, NativeLost, AfterRefused
    <2>4. CASE ExecRefused \/ ProbeChannel \/ NewNativeFails \/ ExecNewFails
      BY <2>2, <2>4 DEF ExecRefused, ProbeChannel, NewNativeFails, ExecNewFails
    <2> QED
      BY <1>2, <2>1, <2>3, <2>4 DEF StartStep
  <1>3. CASE \E u \in User : Acquire(u) \/ Quit(u) \/ OpEnds(u)
    BY <1>3 DEF Acquire, Quit, OpEnds, startVars
  <1>4. CASE WriteStep \/ IdleClose \/ Finish
    BY <1>4 DEF WriteStep, IdleClose, Finish, startVars
  <1>5. CASE UNCHANGED sftpVars
    BY <1>5 DEF sftpVars, startVars
  <1> QED
    BY <1>1, <1>2, <1>3, <1>4, <1>5 DEF SftpNext

LEMMA DroppedByItsUser ==
    ASSUME SftpInv, [SftpNext]_sftpVars, cache # NoChan, cache' = NoChan
    PROVE  gen' # gen \/ \E u \in User : using[u] = cache.chan /\ using'[u] # using[u]
  <1>1. ASSUME NEW u \in User, DropChannel(using[u]), using' = [using EXCEPT ![u] = NoChan]
        PROVE  using[u] = cache.chan /\ using'[u] # using[u]
    <2>1. cache.chan \in Nat /\ cache.chan # NoChan
      BY UserFacts, SftpAssumption DEF SftpAssumption
    <2> QED
      BY <1>1, <2>1, UserFacts DEF DropChannel
  <1>2. CASE StartStep
    <2>1. CASE Reconnect
      <3>1. CASE gen' = gen + 1
        <4>1. gen \in Nat
          BY StarterFacts
        <4> QED
          BY <3>1, <4>1
      <3>2. CASE StartFails
        BY <3>2 DEF StartFails
      <3> QED
        BY <2>1, <3>1, <3>2 DEF Reconnect
    <2>2. CASE ExecStep \/ NativeStarts
      <3>1. ChannelStarts
        BY <2>2 DEF ExecStep, ExecStarts, NativeStarts
      <3>2. cache' \in [gen : Nat, chan : Nat]
        BY <3>1, StartsIs
      <3> QED
        BY <3>2, SftpAssumption DEF SftpAssumption
    <2>3. CASE BeginStart \/ Restart \/ Remembered \/ NativeLost \/ AfterRefused \/ ExecRefused \/ ProbeChannel
               \/ NewNativeFails \/ ExecNewFails
      BY <2>3 DEF BeginStart, Restart, Remembered, NativeLost, AfterRefused, ExecRefused, ProbeChannel,
         NewNativeFails, ExecNewFails, StartGoes, StartFails
    <2> QED
      BY <1>2, <2>1, <2>2, <2>3 DEF StartStep
  <1>3. CASE \E u \in User : Acquire(u) \/ Quit(u)
    BY <1>3 DEF Acquire, Quit
  <1>4. ASSUME NEW u \in User, OpEnds(u)
        PROVE  \E v \in User : using[v] = cache.chan /\ using'[v] # using[v]
    BY <1>1, <1>4 DEF OpEnds
  <1>5. CASE WriteStep
    BY <1>1, <1>5, UpIsUser DEF WriteStep
  <1>6. CASE IdleClose \/ Finish \/ UNCHANGED sftpVars
    BY <1>6 DEF IdleClose, Finish, sftpVars
  <1> QED
    BY <1>2, <1>3, <1>4, <1>5, <1>6 DEF SftpNext

(* A session is asked for native SFTP at most once, an upload whose closes *)
(* were all heard is complete when it has finished, a server known to be   *)
(* good never falls back, and a shared channel is dropped only by an       *)
(* operation that used it (acquire_sftp, start_sftp, with_sftp,            *)
(* finish_stream).                                                         *)
THEOREM SharedChannelIsSound == SftpSpec => ChannelIsSound
  <1>1. SftpInv => NeverAskedTwice /\ FinishedIsStoredIfHeard
    BY DEF SftpInv, AskedOnce, StreamSound, NeverAskedTwice, FinishedIsStoredIfHeard
  <1>2. SftpInv /\ SftpInv' /\ [SftpNext]_sftpVars =>
            /\ [NeverAskedTwice' /\ FinishedIsStoredIfHeard']_sftpVars
            /\ [proven => (mode' = mode \/ mode'[2] # "exec")]_sftpVars
            /\ [cache # NoChan /\ cache' = NoChan =>
                   gen' # gen \/ \E u \in User : using[u] = cache.chan /\ using'[u] # using[u]]_sftpVars
    <2>1. SftpInv' => NeverAskedTwice' /\ FinishedIsStoredIfHeard'
      BY DEF SftpInv, AskedOnce, StreamSound, NeverAskedTwice, FinishedIsStoredIfHeard
    <2> QED
      BY <2>1, GoodStays, DroppedByItsUser
  <1>3. SftpSpec => [][NeverAskedTwice' /\ FinishedIsStoredIfHeard']_sftpVars
    BY <1>2, SftpInductive, PTL DEF SftpSpec
  <1>4. SftpSpec => KnownGoodStaysNative
    BY <1>2, SftpInductive, PTL DEF SftpSpec, KnownGoodStaysNative
  <1>5. SftpSpec => SharedDroppedByItsUser
    BY <1>2, SftpInductive, PTL DEF SftpSpec, SharedDroppedByItsUser
  <1> QED
    BY <1>3, <1>4, <1>5 DEF ChannelIsSound

(* ------------------------------ the FTP pool ------------------------------ *)
FtpStage == {"idle", "taking", "noop", "talk", "range", "open", "rest", "reopen", "transfer", "from offset",
          "from start", "begun", "skip", "data", "final", "cut", "ok", "failed", "ended", "gave up"}

End == <<"END">>

FtpTyped ==
    /\ stage \in [Caller -> FtpStage]
    /\ holds \in [Caller -> Conn \cup {None}]
    /\ pool \in SUBSET Conn
    /\ owed \in [Conn -> {<<>>, End}]
    /\ retr \in [Conn -> {None} \cup (Nat \X Nat)]
    /\ broken \in SUBSET Conn
    /\ got \in [Caller -> Seq(Nat)]
    /\ moved \in [Caller -> {"no", "part", "all"}]

(* Nothing is owed on a connection but the end of its open download, and   *)
(* the data of that are where they should be.                              *)
Settled(k) == owed[k] = (IF Open(k) THEN End ELSE <<>>)
InPlace(k) == Open(k) => retr[k][1] = retr[k][2]

(* Nobody holds the connection of another one, or one of the pool.         *)
Apart ==
    \A c \in Caller : holds[c] # None =>
        /\ holds[c] \notin pool
        /\ \A d \in Caller \ {c} : holds[d] # holds[c]

LineSound(k) ==
    /\ InPlace(k)
    /\ k \in pool => Settled(k) /\ k \notin broken
    /\ k \notin pool /\ (\A c \in Caller : holds[c] # k) => owed[k] = <<>> /\ ~ Open(k) /\ k \notin broken

(* Where a caller is, and what its connection owes then.                   *)
AtRest    == {"idle", "taking", "ended", "gave up"}
Commands  == {"noop", "talk", "range", "open", "rest", "reopen", "transfer", "from offset", "from start", "ok"}
AfterVerb == {"begun", "skip", "cut", "final"}
LineOf(c) ==
    LET k == holds[c] IN
    /\ stage[c] \in AtRest => k = None
    /\ stage[c] \in Commands => k \in Conn /\ k \notin broken /\ Settled(k)
    /\ stage[c] \in AfterVerb => k \in Conn /\ k \notin broken /\ ~ Open(k) /\ owed[k] = End
    /\ stage[c] = "data" => k \in Conn /\ k \notin broken /\ Settled(k) /\ Continues(c, k)
    /\ stage[c] = "failed" /\ k # None /\ k \notin broken => Settled(k)

(* What each kind of caller comes by, and what it has got by then.         *)
DataOf(c) ==
    /\ stage[c] = "talk" => c \in Talker
    /\ stage[c] \in {"range", "data", "skip", "rest", "reopen", "from offset", "from start"} => c \in Reader
    /\ stage[c] \in {"open", "transfer", "begun", "cut", "final"} => c \notin Talker
    /\ \A i \in DOMAIN got[c] : got[c][i] = i - 1
    /\ stage[c] \notin {"ok", "ended"} => asked(c) <= Ranges
    /\ stage[c] = "final" => IF c \in Reader THEN asked(c) = Ranges ELSE moved[c] = "all"
    /\ c \in Lister \cup Writer /\ stage[c] \in {"ok", "ended"} => moved[c] = "all"

CallerSound(c) == LineOf(c) /\ DataOf(c)

FtpInv == /\ FtpTyped /\ RepliesMatch /\ Apart
          /\ \A k \in Conn : LineSound(k)
          /\ \A c \in Caller : CallerSound(c)

(* A permit for every caller that is at work bounds the connections.       *)
BInv == FtpInv /\ Cardinality(Busy) <= MaxConns /\ ConnectionsBounded

-----------------------------------------------------------------------------
LEMMA Constants ==
    /\ MaxConns \in Nat \ {0} /\ Ranges \in Nat
    /\ None \notin Conn /\ None \notin Nat \X Nat
    /\ Talker \cap (Reader \cup Lister \cup Writer) = {}
    /\ Reader \cap (Lister \cup Writer) = {} /\ Lister \cap Writer = {}
  BY FtpAssumption DEF FtpAssumption

(* Sequences of one reply or none.                                         *)
LEMMA OneReply ==
    /\ Head(End) = "END" /\ Tail(End) = <<>> /\ End # <<>>
    /\ \A verb : Append(<<>>, verb) = <<verb>> /\ Head(<<verb>>) = verb /\ Tail(<<verb>>) = <<>>
    /\ <<>> \o <<>> = <<>> /\ <<>> \o End = End
  BY DEF End

(* A caller that has not been given all it asked for.                      *)
LEMMA AskedTyped ==
    ASSUME FtpTyped, NEW c \in Caller
    PROVE  asked(c) \in Nat /\ got[c] \in Seq(Nat) /\ DOMAIN got[c] = 1..asked(c)
  BY DEF FtpTyped, asked

LEMMA Known ==
    ASSUME FtpInv, NEW c \in Caller
    PROVE  /\ FtpTyped /\ RepliesMatch /\ Apart /\ CallerSound(c) /\ LineOf(c) /\ DataOf(c)
           /\ asked(c) \in Nat /\ stage[c] \in FtpStage /\ holds[c] \in Conn \cup {None}
           /\ \A k \in Conn : LineSound(k) /\ InPlace(k)
  BY AskedTyped DEF FtpInv, FtpTyped, CallerSound, LineSound

(* The reply to a command is its own: the end of an open download is read  *)
(* before, and nothing else is owed.                                       *)
LEMMA ReplyHeard ==
    ASSUME FtpTyped, NEW c \in Caller, holds[c] \in Conn, Settled(holds[c]),
           NEW verb, NEW later \in {<<>>, End}, Reply(c, verb, later)
    PROVE  /\ misheard' = misheard /\ broken' = broken
           /\ owed' = [owed EXCEPT ![holds[c]] = later]
           /\ retr' = [retr EXCEPT ![holds[c]] = None]
  <1>1. DownloadEnded(holds[c]) = <<>>
    BY OneReply DEF DownloadEnded, Settled
  <1>2. Append(DownloadEnded(holds[c]), verb) = <<verb>>
    BY <1>1, OneReply
  <1>3. Tail(Append(DownloadEnded(holds[c]), verb)) \o later = later
    BY <1>2, OneReply
  <1>4. Head(Append(DownloadEnded(holds[c]), verb)) = verb
    BY <1>2, OneReply
  <1> QED
    BY <1>3, <1>4 DEF Reply, TakeReply

(* So is the last reply of a transfer.                                     *)
LEMMA LastHeard ==
    ASSUME FtpTyped, NEW c \in Caller, holds[c] \in Conn, owed[holds[c]] = End, LastReply(c)
    PROVE  /\ misheard' = misheard /\ retr' = retr
           /\ owed' = [owed EXCEPT ![holds[c]] = <<>>]
  <1>1. Head(owed[holds[c]]) = "END" /\ Tail(owed[holds[c]]) \o <<>> = <<>>
    BY OneReply
  <1> QED
    BY <1>1 DEF LastReply, TakeReply

(* What a step of c leaves alone.                                          *)
KeepsTo(c) ==
    /\ \A d \in Caller \ {c} : /\ stage'[d] = stage[d] /\ holds'[d] = holds[d]
                               /\ got'[d] = got[d] /\ moved'[d] = moved[d]
    /\ \A k \in Conn \ {holds[c]} : /\ owed'[k] = owed[k] /\ retr'[k] = retr[k]
                                    /\ k \in broken' <=> k \in broken

(* The others find things as they were.                                    *)
LEMMA Others ==
    ASSUME FtpInv, NEW c \in Caller, KeepsTo(c), NEW d \in Caller \ {c}
    PROVE  CallerSound(d)'
  <1>1. CallerSound(d) /\ (holds[d] # None => holds[d] # holds[c]) /\ holds[d] \in Conn \cup {None}
    BY DEF FtpInv, Apart, FtpTyped
  <1>2. DataOf(d)'
    BY <1>1 DEF KeepsTo, CallerSound, DataOf, asked
  <1>3. LineOf(d)'
    BY <1>1, Constants DEF KeepsTo, CallerSound, LineOf, Settled, Open, Continues, asked, AtRest, Commands,
                           AfterVerb
  <1> QED
    BY <1>2, <1>3 DEF CallerSound

(* A step of a caller on the connection it holds.                          *)
LEMMA InnerStep ==
    ASSUME FtpInv, FtpTyped', NEW c \in Caller, holds[c] \in Conn, KeepsTo(c),
           UNCHANGED <<holds, pool, misheard>>,
           InPlace(holds[c])', LineOf(c)', DataOf(c)'
    PROVE  FtpInv'
  <1>1. Apart' /\ RepliesMatch'
    BY DEF FtpInv, Apart, RepliesMatch
  <1>2. ASSUME NEW k \in Conn PROVE LineSound(k)'
    <2>1. CASE k = holds[c]
      <3>1. k \notin pool
        BY <2>1, Constants DEF FtpInv, Apart
      <3> QED
        BY <2>1, <3>1 DEF LineSound, InPlace, Open
    <2>2. CASE k # holds[c]
      BY <2>2 DEF FtpInv, LineSound, KeepsTo, InPlace, Settled, Open
    <2> QED
      BY <2>1, <2>2
  <1>3. ASSUME NEW d \in Caller PROVE CallerSound(d)'
    BY Others DEF CallerSound
  <1> QED
    BY <1>1, <1>2, <1>3 DEF FtpInv

(* The state after an exchange.  What the caller comes by is looked at     *)
(* where it is known.                                                      *)
LEMMA ReplyStep ==
    ASSUME FtpInv, NEW c \in Caller, stage[c] \in Commands,
           NEW verb, NEW later \in {<<>>, End}, Reply(c, verb, later),
           NEW s \in FtpStage, CallerTo(c, s),
           s \in (IF later = End THEN AfterVerb ELSE Commands \cup {"failed"}),
           UNCHANGED <<holds, pool>>,
           got' \in [Caller -> Seq(Nat)], \A d \in Caller \ {c} : got'[d] = got[d],
           moved' \in [Caller -> {"no", "part", "all"}], \A d \in Caller \ {c} : moved'[d] = moved[d],
           DataOf(c)'
    PROVE  FtpInv'
  <1>1. holds[c] \in Conn /\ holds[c] \notin broken /\ Settled(holds[c]) /\ FtpTyped
    BY DEF FtpInv, CallerSound, LineOf
  <1>2. /\ misheard' = misheard /\ broken' = broken
        /\ owed' = [owed EXCEPT ![holds[c]] = later]
        /\ retr' = [retr EXCEPT ![holds[c]] = None]
    BY <1>1, ReplyHeard
  <1>3. stage' = [stage EXCEPT ![c] = s]
    BY DEF CallerTo
  <1>4. FtpTyped'
    BY <1>1, <1>2, <1>3 DEF FtpTyped
  <1>5. KeepsTo(c)
    BY <1>1, <1>2, <1>3 DEF FtpTyped, KeepsTo
  <1>6. /\ stage'[c] = s /\ owed'[holds[c]] = later /\ retr'[holds[c]] = None
        /\ holds' = holds /\ broken' = broken
    BY <1>1, <1>2, <1>3 DEF FtpTyped
  <1>7. InPlace(holds[c])' /\ Settled(holds[c])' = (later = <<>>) /\ ~ Open(holds[c])'
    BY <1>6, OneReply DEF InPlace, Settled, Open
  <1>8. LineOf(c)'
    BY <1>1, <1>6, <1>7, OneReply DEF LineOf, Commands, AfterVerb, AtRest, Settled, Open
  <1> QED
    BY <1>1, <1>2, <1>4, <1>5, <1>7, <1>8, InnerStep

(* A connection that is given up stays with its caller until it is put     *)
(* back, and is of no use to it.                                           *)
LEMMA LostStep ==
    ASSUME FtpInv, NEW c \in Caller, holds[c] \in Conn, NEW verb, Lost(c, verb), stage[c] \notin {"ok", "ended"},
           UNCHANGED <<holds, pool, files>>
    PROVE  FtpInv'
  <1>1. /\ stage' = [stage EXCEPT ![c] = "failed"] /\ broken' = broken \cup {holds[c]}
        /\ UNCHANGED <<owed, retr, misheard, got, moved>> /\ FtpTyped /\ CallerSound(c) /\ InPlace(holds[c])
    BY DEF Lost, CallerTo, files, FtpInv, LineSound
  <1>2. FtpTyped'
    BY <1>1 DEF FtpTyped, FtpStage
  <1>3. KeepsTo(c) /\ stage'[c] = "failed" /\ holds[c] \in broken'
    BY <1>1 DEF FtpTyped, KeepsTo
  <1>4. InPlace(holds[c])'
    BY <1>1 DEF InPlace, Open
  <1>5. LineOf(c)' /\ DataOf(c)'
    BY <1>1, <1>3 DEF LineOf, DataOf, CallerSound, asked, AtRest, Commands, AfterVerb
  <1> QED
    BY <1>1, <1>2, <1>3, <1>4, <1>5, InnerStep

(* The last reply of a transfer is read.                                   *)
LEMMA LastStep ==
    ASSUME FtpInv, NEW c \in Caller, stage[c] \in {"final", "cut"}, LastReply(c),
           NEW s \in {"ok", "failed"}, CallerTo(c, s), UNCHANGED <<holds, pool, moved>>,
           broken' = broken \/ (s = "failed" /\ broken' = broken \cup {holds[c]}),
           got' \in [Caller -> Seq(Nat)], \A d \in Caller \ {c} : got'[d] = got[d], DataOf(c)'
    PROVE  FtpInv'
  <1>1. /\ holds[c] \in Conn /\ holds[c] \notin broken /\ ~ Open(holds[c]) /\ owed[holds[c]] = End /\ FtpTyped
    BY DEF FtpInv, CallerSound, LineOf, AfterVerb
  <1>2. /\ misheard' = misheard /\ retr' = retr /\ owed' = [owed EXCEPT ![holds[c]] = <<>>]
    BY <1>1, LastHeard
  <1>3. stage' = [stage EXCEPT ![c] = s] /\ s \in FtpStage
    BY DEF CallerTo, FtpStage
  <1>4. FtpTyped'
    BY <1>1, <1>2, <1>3 DEF FtpTyped
  <1>5. KeepsTo(c)
    BY <1>1, <1>2, <1>3 DEF FtpTyped, KeepsTo
  <1>6. stage'[c] = s /\ owed'[holds[c]] = <<>> /\ ~ Open(holds[c])'
    BY <1>1, <1>2, <1>3 DEF FtpTyped, Open
  <1>7. InPlace(holds[c])' /\ Settled(holds[c])'
    BY <1>6 DEF InPlace, Settled, Open
  <1>8. LineOf(c)'
    BY <1>1, <1>6, <1>7 DEF LineOf, Commands, AfterVerb, AtRest, Settled, Open
  <1> QED
    BY <1>1, <1>2, <1>4, <1>5, <1>7, <1>8, InnerStep

(* What a caller has got is not touched by a step on another stage.        *)
Fits(c, s) ==
    /\ s = "talk" => c \in Talker
    /\ s \in {"range", "data", "skip", "rest", "reopen", "from offset", "from start"} => c \in Reader
    /\ s \in {"open", "transfer", "begun", "cut", "final"} => c \notin Talker
    /\ s \notin {"ok", "ended"} => asked(c) <= Ranges
    /\ s = "final" => IF c \in Reader THEN asked(c) = Ranges ELSE moved[c] = "all"
    /\ c \in Lister \cup Writer /\ s \in {"ok", "ended"} => moved[c] = "all"

LEMMA DataKept ==
    ASSUME FtpInv, NEW c \in Caller, NEW s \in FtpStage, CallerTo(c, s), UNCHANGED <<got, moved>>, Fits(c, s)
    PROVE  DataOf(c)'
  <1>1. stage'[c] = s
    BY DEF CallerTo, FtpInv, FtpTyped
  <1> QED
    BY <1>1 DEF FtpInv, CallerSound, DataOf, Fits, asked

LEMMA ExchangeStep ==
    ASSUME FtpInv, NEW c \in Caller, stage[c] \in Commands \ {"ok"}, NEW verb,
           NEW stages \in SUBSET (Commands \cup {"failed"}), \A s \in stages : Fits(c, s),
           Exchange(c, verb, stages)
    PROVE  FtpInv'
  <1>1. holds[c] \in Conn /\ FtpTyped
    BY DEF FtpInv, CallerSound, LineOf
  <1>2. CASE Reply(c, verb, <<>>) /\ \E s \in stages : CallerTo(c, s)
    <2>1. PICK s \in stages : CallerTo(c, s)
      BY <1>2
    <2>2. UNCHANGED <<holds, pool, got, moved>> /\ s \in FtpStage
      BY DEF Exchange, files, Commands, FtpStage
    <2>3. DataOf(c)'
      BY <2>1, <2>2, DataKept
    <2>4. got' \in [Caller -> Seq(Nat)] /\ moved' \in [Caller -> {"no", "part", "all"}]
      BY <1>1, <2>2 DEF FtpTyped
    <2>5. s \in Commands \cup {"failed"} /\ <<>> # End
      BY OneReply
    <2> HIDE DEF End
    <2> QED
      BY <1>2, <2>1, <2>2, <2>3, <2>4, <2>5, ReplyStep
  <1>3. CASE Lost(c, verb)
    BY <1>1, <1>3, LostStep DEF Exchange, Commands
  <1> QED
    BY <1>2, <1>3 DEF Exchange

-----------------------------------------------------------------------------
(* The commands of an operation.                                           *)
LEMMA CommandStep ==
    ASSUME FtpInv, NEW c \in Caller, Talk(c) \/ OpenData(c) \/ Reopen(c) \/ Rest(c)
    PROVE  FtpInv'
  <1>1. CallerSound(c) /\ FtpTyped
    BY DEF FtpInv
  <1>2. CASE Talk(c)
    <2>1. stage[c] \in Commands \ {"ok"} /\ {"talk", "ok", "failed"} \in SUBSET (Commands \cup {"failed"})
      BY <1>2 DEF Talk, CallerAt, Commands
    <2>2. \A s \in {"talk", "ok", "failed"} : Fits(c, s)
      BY <1>1, <1>2, Constants DEF Talk, CallerAt, CallerSound, DataOf, Fits
    <2> QED
      BY <1>2, <2>1, <2>2, ExchangeStep DEF Talk
  <1>3. CASE OpenData(c)
    <2> DEFINE stages == {"failed", IF c \in Reader /\ asked(c) > 0 THEN "rest" ELSE "transfer"}
    <2>1. stage[c] \in Commands \ {"ok"} /\ stages \in SUBSET (Commands \cup {"failed"})
      BY <1>3 DEF OpenData, CallerAt, Commands
    <2>2. \A s \in stages : Fits(c, s)
      BY <1>1, <1>3, Constants DEF OpenData, CallerAt, CallerSound, DataOf, Fits
    <2>3. Exchange(c, "PASV", stages)
      BY <1>3 DEF OpenData
    <2> HIDE DEF stages
    <2> QED
      BY <2>1, <2>2, <2>3, ExchangeStep
  <1>4. CASE Reopen(c)
    <2>1. stage[c] \in Commands \ {"ok"} /\ {"failed", "from start"} \in SUBSET (Commands \cup {"failed"})
      BY <1>4 DEF Reopen, CallerAt, Commands
    <2>2. \A s \in {"failed", "from start"} : Fits(c, s)
      BY <1>1, <1>4, Constants DEF Reopen, CallerAt, CallerSound, DataOf, Fits
    <2> QED
      BY <1>4, <2>1, <2>2, ExchangeStep DEF Reopen
  <1>5. CASE Rest(c)
    <2>1. stage[c] \in Commands \ {"ok"} /\ {"from offset", "reopen"} \in SUBSET (Commands \cup {"failed"})
      BY <1>5 DEF Rest, CallerAt, Commands
    <2>2. \A s \in {"from offset", "reopen"} : Fits(c, s)
      BY <1>1, <1>5, Constants DEF Rest, CallerAt, CallerSound, DataOf, Fits
    <2> QED
      BY <1>5, <2>1, <2>2, ExchangeStep DEF Rest
  <1> QED
    BY <1>2, <1>3, <1>4, <1>5

(* Appending what comes next keeps the ranges in order.                    *)
LEMMA NextRange ==
    ASSUME FtpInv, NEW c \in Caller, NEW n \in Nat, n = asked(c), got' = [got EXCEPT ![c] = Append(@, n)]
    PROVE  /\ got' \in [Caller -> Seq(Nat)] /\ \A d \in Caller \ {c} : got'[d] = got[d]
           /\ Len(got'[c]) = n + 1 /\ \A i \in DOMAIN got'[c] : got'[c][i] = i - 1
  <1>0. got \in [Caller -> Seq(Nat)] /\ FtpTyped
    BY DEF FtpInv, FtpTyped
  <1>1. got'[c] = Append(got[c], n) /\ \A i \in 1..Len(got[c]) : got[c][i] = i - 1
    BY <1>0, AskedTyped DEF FtpInv, CallerSound, DataOf, asked
  <1>2. Len(got'[c]) = n + 1 /\ got'[c] \in Seq(Nat)
    BY <1>0, <1>1 DEF asked
  <1>3. \A i \in 1..(n + 1) : got'[c][i] = i - 1
    BY <1>0, <1>1 DEF asked
  <1> QED
    BY <1>0, <1>1, <1>2, <1>3

(* The command that starts a transfer.                                     *)
LEMMA TransferStep ==
    ASSUME FtpInv, NEW c \in Caller, Transfer(c)
    PROVE  FtpInv'
  <1>1. /\ CallerSound(c) /\ FtpTyped /\ holds[c] \in Conn /\ asked(c) \in Nat /\ asked(c) <= Ranges
        /\ stage[c] \in {"transfer", "from offset", "from start"} /\ stage[c] \in Commands
        /\ UNCHANGED <<holds, pool>> /\ c \notin Talker
    BY AskedTyped, Constants DEF FtpInv, CallerSound, LineOf, DataOf, Transfer, Commands
  <1>2. got' = got => got' \in [Caller -> Seq(Nat)] /\ \A d \in Caller \ {c} : got'[d] = got[d]
    BY <1>1 DEF FtpTyped
  <1>3. moved' = moved \/ moved' = [moved EXCEPT ![c] = "all"] =>
           moved' \in [Caller -> {"no", "part", "all"}] /\ \A d \in Caller \ {c} : moved'[d] = moved[d]
    BY <1>1 DEF FtpTyped
  <1>4. CASE /\ Reply(c, Verb(c), End) /\ UNCHANGED files
             /\ CallerTo(c, IF CallerAt(c, "from start") THEN "skip" ELSE "begun")
    <2> DEFINE s == IF CallerAt(c, "from start") THEN "skip" ELSE "begun"
    <2>1. s \in FtpStage /\ s \in AfterVerb /\ Fits(c, s) /\ UNCHANGED <<got, moved>>
      BY <1>1, <1>4 DEF FtpStage, AfterVerb, Fits, CallerAt, CallerSound, DataOf, files
    <2>2. CallerTo(c, s)
      BY <1>4
    <2> HIDE DEF s
    <2>3. DataOf(c)'
      BY <2>1, <2>2, DataKept
    <2> HIDE DEF End
    <2> QED
      BY <1>1, <1>2, <1>3, <1>4, <2>1, <2>2, <2>3, ReplyStep
  <1>5. CASE Reply(c, Verb(c), <<>>) /\ UNCHANGED files /\ CallerTo(c, "failed")
    <2>1. "failed" \in FtpStage /\ Fits(c, "failed") /\ UNCHANGED <<got, moved>> /\ <<>> # End
      BY <1>1, <1>5, OneReply DEF FtpStage, Fits, files
    <2>2. DataOf(c)'
      BY <1>5, <2>1, DataKept
    <2> HIDE DEF End
    <2> QED
      BY <1>1, <1>2, <1>3, <1>5, <2>1, <2>2, ReplyStep
  <1>6. CASE /\ c \in Lister \cup Reader /\ (c \in Reader => asked(c) >= Ranges)
             /\ Reply(c, Verb(c), <<>>) /\ CallerTo(c, "ok")
             /\ got' = (IF c \in Reader THEN [got EXCEPT ![c] = Append(@, Ranges)] ELSE got)
             /\ moved' = [moved EXCEPT ![c] = "all"]
    <2>1. "ok" \in FtpStage /\ "ok" \in Commands /\ <<>> # End /\ stage'[c] = "ok" /\ moved'[c] = "all"
      BY <1>1, <1>6, OneReply DEF FtpStage, Commands, CallerTo, FtpTyped
    <2>2. /\ got' \in [Caller -> Seq(Nat)] /\ \A d \in Caller \ {c} : got'[d] = got[d]
          /\ \A i \in DOMAIN got'[c] : got'[c][i] = i - 1
      <3>1. CASE c \in Reader
        <4>0. asked(c) >= Ranges /\ asked(c) <= Ranges /\ asked(c) \in Nat /\ Ranges \in Nat
          BY <1>1, <1>6, <3>1, Constants
        <4> HIDE DEF asked
        <4>1. Ranges = asked(c)
          BY <4>0
        <4>2. got' = [got EXCEPT ![c] = Append(@, asked(c))]
          BY <1>6, <3>1, <4>1
        <4> QED
          BY <1>1, <4>2, NextRange
      <3>2. CASE c \notin Reader
        BY <1>2, <1>1, <1>6, <3>2 DEF CallerSound, DataOf
      <3> QED
        BY <3>1, <3>2
    <2>3. DataOf(c)'
      BY <2>1, <2>2 DEF DataOf
    <2> HIDE DEF End
    <2> QED
      BY <1>1, <1>3, <1>6, <2>1, <2>2, <2>3, ReplyStep
  <1>7. CASE Lost(c, Verb(c)) /\ UNCHANGED files
    BY <1>1, <1>7, LostStep
  <1> QED
    BY <1>4, <1>5, <1>6, <1>7 DEF Transfer, End

(* The download that is open at the place, or the end of another one.      *)
LEMMA RangeStep ==
    ASSUME FtpInv, NEW c \in Caller, RangeAsked(c)
    PROVE  FtpInv'
  <1>0. LineOf(c) /\ DataOf(c) /\ FtpTyped /\ stage[c] = "range" /\ stage[c] \in Commands
    BY Known DEF RangeAsked, CallerAt, Commands
  <1>a. holds[c] \in Conn /\ holds[c] \notin broken /\ Settled(holds[c])
    BY <1>0 DEF LineOf
  <1>b. c \in Reader /\ asked(c) <= Ranges
    BY <1>0 DEF DataOf
  <1>c. c \notin Talker /\ InPlace(holds[c])
    BY <1>a, <1>b, Known, Constants
  <1>d. UNCHANGED <<holds, pool, got, moved>> /\ UNCHANGED files
    BY DEF RangeAsked, files
  <1>1. /\ FtpTyped /\ holds[c] \in Conn /\ asked(c) <= Ranges /\ stage[c] = "range"
        /\ UNCHANGED <<holds, pool, got, moved>> /\ c \in Reader /\ c \notin Talker
        /\ Settled(holds[c]) /\ holds[c] \notin broken /\ InPlace(holds[c])
    BY <1>0, <1>a, <1>b, <1>c, <1>d
  <1>2. CASE Continues(c, holds[c]) /\ CallerTo(c, "data") /\ UNCHANGED wire
    <2>1. stage' = [stage EXCEPT ![c] = "data"] /\ UNCHANGED <<owed, retr, broken, misheard>> /\ "data" \in FtpStage
      BY <1>2 DEF CallerTo, wire, FtpStage
    <2>2. FtpTyped' /\ KeepsTo(c) /\ stage'[c] = "data"
      BY <1>1, <2>1 DEF FtpTyped, KeepsTo
    <2>3. DataOf(c)'
      BY <1>1, <1>2, <2>1, DataKept DEF Fits
    <2>4. LineOf(c)' /\ InPlace(holds[c])'
      BY <1>1, <1>2, <2>1, <2>2 DEF LineOf, AtRest, Commands, AfterVerb, Settled, Open, InPlace, Continues, asked
    <2> QED
      BY <1>1, <2>1, <2>2, <2>3, <2>4, InnerStep
  <1>3. CASE /\ CallerTo(c, "open") /\ owed' = [owed EXCEPT ![holds[c]] = DownloadEnded(holds[c])]
             /\ retr' = [retr EXCEPT ![holds[c]] = None] /\ UNCHANGED <<broken, misheard>>
    <2>1. stage' = [stage EXCEPT ![c] = "open"] /\ "open" \in FtpStage /\ DownloadEnded(holds[c]) = <<>>
      BY <1>1, <1>3, OneReply DEF CallerTo, FtpStage, DownloadEnded, Settled
    <2>2. FtpTyped' /\ KeepsTo(c) /\ stage'[c] = "open" /\ owed'[holds[c]] = <<>> /\ retr'[holds[c]] = None
      BY <1>1, <1>3, <2>1 DEF FtpTyped, KeepsTo
    <2>3. DataOf(c)'
      BY <1>1, <1>3, <2>1, DataKept DEF Fits
    <2>4. LineOf(c)' /\ InPlace(holds[c])'
      BY <1>1, <1>3, <2>2 DEF LineOf, AtRest, Commands, AfterVerb, Settled, Open, InPlace
    <2> QED
      BY <1>1, <1>3, <2>2, <2>3, <2>4, InnerStep
  <1>4. CASE Lost(c, "RETR")
    <2>1. stage[c] \notin {"ok", "ended"}
      BY <1>1
    <2> QED
      BY <1>a, <1>d, <1>4, <2>1, LostStep
  <1>5. \/ Continues(c, holds[c]) /\ CallerTo(c, "data") /\ UNCHANGED wire
        \/ /\ CallerTo(c, "open") /\ owed' = [owed EXCEPT ![holds[c]] = DownloadEnded(holds[c])]
           /\ retr' = [retr EXCEPT ![holds[c]] = None] /\ UNCHANGED <<broken, misheard>>
        \/ Lost(c, "RETR")
    BY DEF RangeAsked
  <1> QED
    BY <1>2, <1>3, <1>4, <1>5

(* The download is left open where the caller reads.                       *)
LEMMA KeepStep ==
    ASSUME FtpInv, NEW c \in Caller, c \in Reader, stage[c] \in {"begun", "skip"}, Keep(c, asked(c))
    PROVE  FtpInv'
  <1>0. LineOf(c) /\ DataOf(c) /\ FtpTyped /\ stage[c] \in AfterVerb /\ asked(c) \in Nat
    BY Known DEF AfterVerb
  <1>a. holds[c] \in Conn /\ owed[holds[c]] = End /\ holds[c] \notin broken
    BY <1>0 DEF LineOf
  <1>b. asked(c) <= Ranges
    BY <1>0 DEF DataOf
  <1>c. UNCHANGED <<holds, pool, got, moved, owed, broken, misheard>>
    BY DEF Keep, files
  <1>1. /\ FtpTyped /\ holds[c] \in Conn /\ asked(c) <= Ranges /\ asked(c) \in Nat
        /\ UNCHANGED <<holds, pool, got, moved, owed, broken, misheard>>
        /\ owed[holds[c]] = End /\ holds[c] \notin broken
    BY <1>0, <1>a, <1>b, <1>c
  <1>2. /\ stage' = [stage EXCEPT ![c] = "data"] /\ "data" \in FtpStage
        /\ retr' = [retr EXCEPT ![holds[c]] = <<asked(c), asked(c)>>]
    BY DEF Keep, CallerTo, FtpStage
  <1>3. FtpTyped' /\ KeepsTo(c) /\ stage'[c] = "data" /\ retr'[holds[c]] = <<asked(c), asked(c)>>
    BY <1>1, <1>2 DEF FtpTyped, KeepsTo
  <1>4. DataOf(c)'
    BY <1>1, <1>2, DataKept, Constants DEF Fits, Keep
  <1>5. <<asked(c), asked(c)>> # None
    BY <1>1, Constants
  <1>6. LineOf(c)' /\ InPlace(holds[c])'
    BY <1>1, <1>3, <1>5 DEF LineOf, AtRest, Commands, AfterVerb, Settled, Open, InPlace, Continues, asked
  <1> QED
    BY <1>1, <1>3, <1>4, <1>6, InnerStep

(* A step of a caller that leaves the connections alone.                   *)
LEMMA QuietStep ==
    ASSUME FtpInv, NEW c \in Caller, holds[c] \in Conn,
           NEW s \in FtpStage, CallerTo(c, s), UNCHANGED <<holds, pool, wire>>,
           got' \in [Caller -> Seq(Nat)], \A d \in Caller \ {c} : got'[d] = got[d],
           moved' \in [Caller -> {"no", "part", "all"}], \A d \in Caller \ {c} : moved'[d] = moved[d],
           stage[c] \in AfterVerb, s \in AfterVerb, DataOf(c)'
    PROVE  FtpInv'
  <1>1. /\ stage' = [stage EXCEPT ![c] = s] /\ UNCHANGED <<owed, retr, broken, misheard>>
        /\ FtpTyped /\ LineOf(c) /\ InPlace(holds[c])
    BY Known DEF CallerTo, wire
  <1>2. FtpTyped' /\ KeepsTo(c) /\ stage'[c] = s
    BY <1>1 DEF FtpTyped, KeepsTo
  <1>3. LineOf(c)' /\ InPlace(holds[c])'
    BY <1>1, <1>2 DEF LineOf, AtRest, Commands, AfterVerb, Settled, Open, InPlace
  <1> QED
    BY <1>1, <1>2, <1>3, InnerStep

LEMMA SkipStep ==
    ASSUME FtpInv, NEW c \in Caller, Skip(c)
    PROVE  FtpInv'
  <1>1. /\ FtpTyped /\ LineOf(c) /\ DataOf(c) /\ stage[c] = "skip" /\ stage[c] \in AfterVerb
    BY Known DEF Skip, CallerAt, AfterVerb
  <1>2. holds[c] \in Conn /\ c \in Reader /\ asked(c) <= Ranges /\ c \notin Talker
    BY <1>1, Constants DEF LineOf, DataOf
  <1>3. CASE Keep(c, asked(c))
    BY <1>1, <1>2, <1>3, KeepStep
  <1>4. CASE CallerTo(c, "cut") /\ UNCHANGED <<holds, pool, wire, files>>
    <2>1. "cut" \in FtpStage /\ "cut" \in AfterVerb /\ Fits(c, "cut") /\ UNCHANGED <<got, moved>>
      BY <1>2, <1>4, Constants DEF FtpStage, AfterVerb, Fits, files
    <2>2. DataOf(c)'
      BY <1>4, <2>1, DataKept
    <2>3. /\ got' \in [Caller -> Seq(Nat)] /\ \A d \in Caller \ {c} : got'[d] = got[d]
          /\ moved' \in [Caller -> {"no", "part", "all"}] /\ \A d \in Caller \ {c} : moved'[d] = moved[d]
      BY <1>1, <2>1 DEF FtpTyped
    <2> QED
      BY <1>1, <1>2, <1>4, <2>1, <2>2, <2>3, QuietStep
  <1>5. CASE Lost(c, "RETR") /\ UNCHANGED <<holds, pool, files>>
    BY <1>1, <1>2, <1>5, LostStep
  <1> QED
    BY <1>3, <1>4, <1>5 DEF Skip

(* The range the reader asks for is the one the data are at.               *)
LEMMA ReadRangeStep ==
    ASSUME FtpInv, NEW c \in Caller, ReadRange(c)
    PROVE  FtpInv'
  <1> DEFINE k == holds[c]
             at == retr[k][2]
  <1>1. FtpTyped /\ LineOf(c) /\ DataOf(c) /\ stage[c] = "data" /\ asked(c) \in Nat
    BY Known DEF ReadRange, CallerAt
  <1>2. k \in Conn /\ k \notin broken /\ Settled(k) /\ Continues(c, k)
    BY <1>1 DEF LineOf
  <1>3. c \in Reader /\ asked(c) <= Ranges /\ c \notin Lister \cup Writer /\ c \notin Talker /\ Ranges \in Nat
    BY <1>1, Constants DEF DataOf
  <1>4. owed[k] = End /\ retr[k] # None /\ retr[k] \in Nat \X Nat /\ retr[k][1] = asked(c)
    BY <1>1, <1>2 DEF Settled, Continues, Open, FtpTyped
  <1>5. at = asked(c)
    BY <1>2, <1>4, Known DEF InPlace, Open
  <1>6. UNCHANGED <<holds, pool, moved>> /\ holds'[c] = k
    BY DEF ReadRange
  <1>7. /\ moved' \in [Caller -> {"no", "part", "all"}] /\ \A d \in Caller \ {c} : moved'[d] = moved[d]
    BY <1>1, <1>6 DEF FtpTyped
  <1>8. CASE /\ at < Ranges /\ CallerTo(c, "ok") /\ got' = [got EXCEPT ![c] = Append(@, at)]
             /\ retr' = [retr EXCEPT ![k] = <<@[1] + 1, at + 1>>] /\ UNCHANGED <<owed, broken, misheard>>
    <2>1. stage' = [stage EXCEPT ![c] = "ok"] /\ "ok" \in FtpStage
      BY <1>8 DEF CallerTo, FtpStage
    <2>2. /\ got' \in [Caller -> Seq(Nat)] /\ \A d \in Caller \ {c} : got'[d] = got[d]
          /\ \A i \in DOMAIN got'[c] : got'[c][i] = i - 1
      BY <1>1, <1>5, <1>8, NextRange
    <2>3. /\ retr' = [retr EXCEPT ![k] = <<asked(c) + 1, asked(c) + 1>>]
          /\ <<asked(c) + 1, asked(c) + 1>> \in Nat \X Nat
      BY <1>1, <1>4, <1>5, <1>8
    <2>4. FtpTyped'
      <3>1. retr' \in [Conn -> {None} \cup (Nat \X Nat)]
        BY <1>1, <1>2, <2>3 DEF FtpTyped
      <3>2. stage' \in [Caller -> FtpStage]
        BY <1>1, <2>1 DEF FtpTyped
      <3> QED
        BY <1>1, <1>6, <1>7, <1>8, <2>2, <3>1, <3>2 DEF FtpTyped
    <2>5. KeepsTo(c)
      BY <1>1, <1>6, <1>7, <1>8, <2>1, <2>2, <2>3 DEF FtpTyped, KeepsTo
    <2>6. stage'[c] = "ok" /\ retr'[k] = <<asked(c) + 1, asked(c) + 1>> /\ retr'[k] # None /\ owed'[k] = End
      BY <1>1, <1>2, <1>4, <1>8, <2>1, <2>3, Constants DEF FtpTyped
    <2>7. DataOf(c)'
      BY <1>3, <2>2, <2>6 DEF DataOf
    <2>8. LineOf(c)' /\ InPlace(holds[c])'
      BY <1>2, <1>6, <1>8, <2>6 DEF LineOf, AtRest, Commands, AfterVerb, Settled, Open, InPlace
    <2> QED
      BY <1>2, <1>6, <1>8, <2>4, <2>5, <2>7, <2>8, InnerStep
  <1>9. CASE /\ CallerTo(c, IF at >= Ranges THEN "final" ELSE "cut")
             /\ retr' = [retr EXCEPT ![k] = None] /\ UNCHANGED <<owed, broken, misheard, got>>
    <2> DEFINE s == IF at >= Ranges THEN "final" ELSE "cut"
    <2>1. s \in FtpStage /\ s \in AfterVerb /\ CallerTo(c, s) /\ UNCHANGED <<got, moved>>
      BY <1>6, <1>9 DEF FtpStage, AfterVerb
    <2>a. s = "final" => asked(c) = Ranges
      <3> HIDE DEF asked
      <3> QED
        BY <1>1, <1>3, <1>5
    <2>2. Fits(c, s)
      BY <1>3, <2>a DEF Fits
    <2> HIDE DEF s
    <2>3. DataOf(c)'
      BY <2>1, <2>2, DataKept
    <2>4. stage' = [stage EXCEPT ![c] = s]
      BY <2>1 DEF CallerTo
    <2>5. FtpTyped' /\ KeepsTo(c) /\ stage'[c] = s /\ retr'[k] = None /\ owed'[k] = End
      BY <1>1, <1>2, <1>4, <1>6, <1>9, <2>1, <2>4 DEF FtpTyped, KeepsTo
    <2>6. LineOf(c)' /\ InPlace(holds[c])'
      BY <1>2, <1>6, <1>9, <2>1, <2>5 DEF LineOf, AtRest, Commands, AfterVerb, Settled, Open, InPlace
    <2> QED
      BY <1>2, <1>6, <1>9, <2>3, <2>5, <2>6, InnerStep
  <1>10. CASE Lost(c, "RETR") /\ UNCHANGED got
    <2>1. stage[c] \notin {"ok", "ended"} /\ UNCHANGED <<holds, pool, files>>
      BY <1>1, <1>6, <1>10 DEF files
    <2> QED
      BY <1>2, <1>10, <2>1, LostStep
  <1> QED
    BY <1>8, <1>9, <1>10 DEF ReadRange

(* The data of a listing, a whole file or an upload.                       *)
LEMMA DataStep ==
    ASSUME FtpInv, NEW c \in Caller, Move(c)
    PROVE  FtpInv'
  <1>1. FtpTyped /\ LineOf(c) /\ DataOf(c) /\ stage[c] = "begun" /\ stage[c] \in AfterVerb /\ c \notin Reader
    BY Known DEF Move, CallerAt, AfterVerb
  <1>2. holds[c] \in Conn /\ c \notin Talker /\ asked(c) <= Ranges /\ UNCHANGED <<holds, pool, got>>
    BY <1>1 DEF LineOf, DataOf, Move
  <1>3. got' \in [Caller -> Seq(Nat)] /\ \A d \in Caller \ {c} : got'[d] = got[d]
    BY <1>1, <1>2 DEF FtpTyped
  <1>4. ASSUME NEW s \in {"final", "cut"}, NEW m \in {"all", "part"}, s = "final" => m = "all",
               CallerTo(c, s), moved' = [moved EXCEPT ![c] = m], UNCHANGED wire
        PROVE  FtpInv'
    <2>1. s \in FtpStage /\ s \in AfterVerb /\ stage'[c] = s /\ moved'[c] = m
      BY <1>1, <1>4 DEF FtpStage, AfterVerb, CallerTo, FtpTyped
    <2>2. /\ moved' \in [Caller -> {"no", "part", "all"}] /\ \A d \in Caller \ {c} : moved'[d] = moved[d]
      BY <1>1, <1>4 DEF FtpTyped
    <2>3. DataOf(c)'
      BY <1>1, <1>2, <1>4, <2>1 DEF DataOf, asked
    <2> QED
      BY <1>1, <1>2, <1>3, <1>4, <2>1, <2>2, <2>3, QuietStep
  <1>5. CASE CallerTo(c, "final") /\ moved' = [moved EXCEPT ![c] = "all"] /\ UNCHANGED wire
    BY <1>4, <1>5
  <1>6. CASE CallerTo(c, "cut") /\ moved' = [moved EXCEPT ![c] = "part"] /\ UNCHANGED wire
    BY <1>4, <1>6
  <1>7. CASE Lost(c, "LIST") /\ UNCHANGED moved
    <2>1. stage[c] \notin {"ok", "ended"} /\ UNCHANGED <<holds, pool, files>>
      BY <1>1, <1>2, <1>7 DEF files
    <2> QED
      BY <1>2, <1>7, <2>1, LostStep
  <1> QED
    BY <1>5, <1>6, <1>7 DEF Move

LEMMA FinalStep ==
    ASSUME FtpInv, NEW c \in Caller, Final(c)
    PROVE  FtpInv'
  <1>1. FtpTyped /\ LineOf(c) /\ DataOf(c) /\ stage[c] = "final" /\ stage[c] \in AfterVerb /\ asked(c) \in Nat
    BY Known DEF Final, CallerAt, AfterVerb
  <1>2. /\ holds[c] \in Conn /\ c \notin Talker /\ asked(c) <= Ranges /\ UNCHANGED <<holds, pool, moved>>
        /\ c \in Reader => asked(c) = Ranges
        /\ c \notin Reader => moved[c] = "all"
        /\ c \in Lister \cup Writer => c \notin Reader
    BY <1>1, Constants DEF LineOf, DataOf, Final
  <1>3. CASE LastReply(c) /\ CallerTo(c, "ok") /\ UNCHANGED broken /\ EndOfFile(c)
    <2>1. "ok" \in {"ok", "failed"} /\ stage'[c] = "ok" /\ moved'[c] = moved[c]
      BY <1>1, <1>2, <1>3 DEF CallerTo, FtpTyped
    <2>2. /\ got' \in [Caller -> Seq(Nat)] /\ \A d \in Caller \ {c} : got'[d] = got[d]
          /\ \A i \in DOMAIN got'[c] : got'[c][i] = i - 1
      <3>1. CASE c \in Reader
        <4>1. got' = [got EXCEPT ![c] = Append(@, asked(c))]
          BY <1>2, <1>3, <3>1 DEF EndOfFile
        <4> QED
          BY <1>1, <4>1, NextRange
      <3>2. CASE c \notin Reader
        <4>1. got' = got
          BY <1>3, <3>2 DEF EndOfFile
        <4> QED
          BY <1>1, <4>1 DEF FtpTyped, DataOf
      <3> QED
        BY <3>1, <3>2
    <2>3. DataOf(c)'
      BY <1>2, <2>1, <2>2 DEF DataOf
    <2> QED
      BY <1>1, <1>2, <1>3, <2>1, <2>2, <2>3, LastStep
  <1>4. CASE LastReply(c) /\ CallerTo(c, "failed") /\ UNCHANGED <<broken, got>>
    <2>1. "failed" \in FtpStage /\ Fits(c, "failed") /\ UNCHANGED <<got, moved>>
      BY <1>2, <1>4 DEF FtpStage, Fits
    <2>2. DataOf(c)' /\ got' \in [Caller -> Seq(Nat)] /\ \A d \in Caller \ {c} : got'[d] = got[d]
      BY <1>1, <1>4, <2>1, DataKept DEF FtpTyped
    <2> QED
      BY <1>1, <1>2, <1>4, <2>2, LastStep
  <1>5. CASE Lost(c, "END") /\ UNCHANGED got
    <2>1. stage[c] \notin {"ok", "ended"} /\ UNCHANGED <<holds, pool, files>>
      BY <1>1, <1>2, <1>5 DEF files
    <2> QED
      BY <1>2, <1>5, <2>1, LostStep
  <1> QED
    BY <1>3, <1>4, <1>5 DEF Final

LEMMA CutStep ==
    ASSUME FtpInv, NEW c \in Caller, Cut(c)
    PROVE  FtpInv'
  <1>1. FtpTyped /\ LineOf(c) /\ DataOf(c) /\ stage[c] = "cut" /\ stage[c] \in AfterVerb
    BY Known DEF Cut, CallerAt, AfterVerb
  <1>2. holds[c] \in Conn /\ asked(c) <= Ranges /\ UNCHANGED <<holds, pool, got, moved>> /\ UNCHANGED files
    BY <1>1 DEF LineOf, DataOf, Cut, files
  <1>3. CASE LastReply(c) /\ CallerTo(c, "failed") /\ (broken' = broken \/ broken' = broken \cup {holds[c]})
    <2>1. "failed" \in FtpStage /\ Fits(c, "failed")
      BY <1>2 DEF FtpStage, Fits
    <2>2. DataOf(c)' /\ got' \in [Caller -> Seq(Nat)] /\ \A d \in Caller \ {c} : got'[d] = got[d]
      BY <1>1, <1>2, <1>3, <2>1, DataKept DEF FtpTyped
    <2> QED
      BY <1>1, <1>2, <1>3, <2>2, LastStep
  <1>4. CASE Lost(c, "END")
    <2>1. stage[c] \notin {"ok", "ended"}
      BY <1>1
    <2> QED
      BY <1>2, <1>4, <2>1, LostStep
  <1> QED
    BY <1>3, <1>4 DEF Cut

-----------------------------------------------------------------------------
(* A caller that works on no connection goes on.                           *)
LEMMA StillStep ==
    ASSUME FtpInv, NEW c \in Caller, holds[c] = None,
           NEW s \in AtRest \cup {"failed"}, CallerTo(c, s), UNCHANGED <<holds, pool, wire>>,
           got' \in [Caller -> Seq(Nat)], \A d \in Caller \ {c} : got'[d] = got[d],
           moved' \in [Caller -> {"no", "part", "all"}], \A d \in Caller \ {c} : moved'[d] = moved[d],
           DataOf(c)'
    PROVE  FtpInv'
  <1>1. /\ stage' = [stage EXCEPT ![c] = s] /\ UNCHANGED <<owed, retr, broken, misheard>>
        /\ FtpTyped /\ Apart /\ RepliesMatch /\ s \in FtpStage
    BY Known DEF CallerTo, wire, AtRest, FtpStage
  <1>2. FtpTyped' /\ KeepsTo(c) /\ stage'[c] = s
    BY <1>1 DEF FtpTyped, KeepsTo
  <1>3. LineOf(c)'
    BY <1>1, <1>2, Constants DEF LineOf, AtRest, Commands, AfterVerb
  <1>4. Apart' /\ RepliesMatch'
    BY <1>1 DEF Apart, RepliesMatch
  <1>5. ASSUME NEW k \in Conn PROVE LineSound(k)'
    BY <1>1, Known DEF LineSound, InPlace, Settled, Open
  <1>6. ASSUME NEW d \in Caller PROVE CallerSound(d)'
    BY <1>2, <1>3, Others DEF CallerSound
  <1> QED
    BY <1>2, <1>4, <1>5, <1>6 DEF FtpInv

(* A caller takes a connection nobody works on.                            *)
LEMMA TakeStep ==
    ASSUME FtpInv, NEW c \in Caller, holds[c] = None,
           NEW k \in Conn, \A d \in Caller : holds[d] # k, Settled(k), k \notin broken,
           NEW s \in Commands, CallerTo(c, s), Fits(c, s),
           holds' = [holds EXCEPT ![c] = k], pool' = pool \ {k}, UNCHANGED <<wire, files>>
    PROVE  FtpInv'
  <1>1. /\ stage' = [stage EXCEPT ![c] = s] /\ UNCHANGED <<owed, retr, broken, misheard, got, moved>>
        /\ FtpTyped /\ Apart /\ RepliesMatch /\ s \in FtpStage
    BY Known DEF CallerTo, wire, files, Commands, FtpStage
  <1>2. FtpTyped'
    BY <1>1 DEF FtpTyped
  <1>3. KeepsTo(c) /\ stage'[c] = s /\ holds'[c] = k /\ \A d \in Caller \ {c} : holds'[d] = holds[d]
    BY <1>1 DEF FtpTyped, KeepsTo
  <1>4. LineOf(c)'
    <2>1. Settled(k)' /\ k \notin broken'
      BY <1>1 DEF Settled, Open
    <2>2. s \notin AtRest /\ s \notin AfterVerb /\ s # "data" /\ s # "failed"
      BY DEF AtRest, Commands, AfterVerb
    <2> QED
      BY <1>3, <2>1, <2>2 DEF LineOf
  <1>5. DataOf(c)'
    BY <1>1, DataKept
  <1>6. Apart' /\ RepliesMatch'
    BY <1>1, <1>3 DEF Apart, RepliesMatch
  <1>7. ASSUME NEW j \in Conn PROVE LineSound(j)'
    <2>1. CASE j = k
      BY <1>1, <1>3, <2>1, Known DEF LineSound, InPlace, Settled, Open
    <2>2. CASE j # k
      <3>1. (\A d \in Caller : holds'[d] # j) => \A d \in Caller : holds[d] # j
        BY <1>3, Constants
      <3>2. j \in pool' <=> j \in pool
        BY <2>2
      <3> QED
        BY <1>1, <3>1, <3>2, Known DEF LineSound, InPlace, Settled, Open
    <2> QED
      BY <2>1, <2>2
  <1>8. ASSUME NEW d \in Caller PROVE CallerSound(d)'
    BY <1>3, <1>4, <1>5, Others DEF CallerSound
  <1> QED
    BY <1>2, <1>6, <1>7, <1>8 DEF FtpInv

(* A caller gives its connection up, and nothing is left of it.            *)
LEMMA DiscardStep ==
    ASSUME FtpInv, NEW c \in Caller, holds[c] \in Conn, Discard(c),
           NEW s \in AtRest, CallerTo(c, s), UNCHANGED files, DataOf(c)'
    PROVE  FtpInv'
  <1> DEFINE k == holds[c]
  <1>1. /\ stage' = [stage EXCEPT ![c] = s] /\ UNCHANGED <<got, moved>>
        /\ FtpTyped /\ Apart /\ RepliesMatch /\ s \in FtpStage
    BY Known DEF CallerTo, files, AtRest, FtpStage
  <1>2. /\ holds' = [holds EXCEPT ![c] = None] /\ owed' = [owed EXCEPT ![k] = <<>>]
        /\ retr' = [retr EXCEPT ![k] = None] /\ broken' = broken \ {k} /\ UNCHANGED <<pool, misheard>>
    BY DEF Discard
  <1>3. FtpTyped'
    BY <1>1, <1>2 DEF FtpTyped
  <1>4. KeepsTo(c) /\ stage'[c] = s /\ holds'[c] = None /\ \A d \in Caller \ {c} : holds'[d] = holds[d]
    BY <1>1, <1>2 DEF FtpTyped, KeepsTo
  <1>5. LineOf(c)'
    BY <1>4, Constants DEF LineOf, AtRest, Commands, AfterVerb
  <1>6. Apart' /\ RepliesMatch'
    BY <1>1, <1>2, <1>4 DEF Apart, RepliesMatch
  <1>7. ASSUME NEW j \in Conn PROVE LineSound(j)'
    <2>1. CASE j = k
      <3>1. j \notin pool' /\ owed'[j] = <<>> /\ retr'[j] = None /\ j \notin broken'
        BY <1>1, <1>2, <2>1, Constants DEF Apart, FtpTyped
      <3> QED
        BY <3>1 DEF LineSound, InPlace, Open
    <2>2. CASE j # k
      <3>1. (\A d \in Caller : holds'[d] # j) => \A d \in Caller : holds[d] # j
        BY <1>4, <2>2
      <3>2. owed'[j] = owed[j] /\ retr'[j] = retr[j] /\ (j \in broken' <=> j \in broken)
        BY <1>4, <2>2 DEF KeepsTo
      <3> QED
        BY <1>2, <3>1, <3>2, Known DEF LineSound, InPlace, Settled, Open
    <2> QED
      BY <2>1, <2>2
  <1>8. ASSUME NEW d \in Caller PROVE CallerSound(d)'
    BY <1>4, <1>5, Others DEF CallerSound
  <1> QED
    BY <1>3, <1>6, <1>7, <1>8 DEF FtpInv

(* A caller puts a sound connection back.                                  *)
LEMMA ReturnStep ==
    ASSUME FtpInv, NEW c \in Caller, holds[c] \in Conn, holds[c] \notin broken, Settled(holds[c]),
           NEW s \in AtRest, CallerTo(c, s), DataOf(c)',
           holds' = [holds EXCEPT ![c] = None], pool' = pool \cup {holds[c]}, UNCHANGED <<wire, files>>
    PROVE  FtpInv'
  <1> DEFINE k == holds[c]
  <1>1. /\ stage' = [stage EXCEPT ![c] = s] /\ UNCHANGED <<owed, retr, broken, misheard, got, moved>>
        /\ FtpTyped /\ Apart /\ RepliesMatch /\ s \in FtpStage
    BY Known DEF CallerTo, wire, files, AtRest, FtpStage
  <1>2. FtpTyped'
    BY <1>1 DEF FtpTyped
  <1>3. KeepsTo(c) /\ stage'[c] = s /\ holds'[c] = None /\ \A d \in Caller \ {c} : holds'[d] = holds[d]
    BY <1>1 DEF FtpTyped, KeepsTo
  <1>4. LineOf(c)'
    BY <1>3, Constants DEF LineOf, AtRest, Commands, AfterVerb
  <1>5. Apart' /\ RepliesMatch'
    BY <1>1, <1>3, Constants DEF Apart, RepliesMatch
  <1>6. ASSUME NEW j \in Conn PROVE LineSound(j)'
    <2>1. CASE j = k
      BY <1>1, <2>1, Known DEF LineSound, InPlace, Settled, Open
    <2>2. CASE j # k
      <3>1. (\A d \in Caller : holds'[d] # j) => \A d \in Caller : holds[d] # j
        BY <1>3, <2>2
      <3>2. j \in pool' <=> j \in pool
        BY <2>2
      <3> QED
        BY <1>1, <3>1, <3>2, Known DEF LineSound, InPlace, Settled, Open
    <2> QED
      BY <2>1, <2>2
  <1>7. ASSUME NEW d \in Caller PROVE CallerSound(d)'
    BY <1>3, <1>4, Others DEF CallerSound
  <1> QED
    BY <1>2, <1>5, <1>6, <1>7 DEF FtpInv

(* What a caller begins with is of its own kind.                           *)
LEMMA BeginFits ==
    ASSUME NEW c \in Caller, asked(c) <= Ranges
    PROVE  \A s \in {Begin(c), "noop"} : Fits(c, s) /\ s \in Commands
  BY Constants DEF Begin, Fits, Commands

(* with_conn and take_conn.                                                *)
LEMMA EnterStep ==
    ASSUME FtpInv, NEW c \in Caller, Enter(c)
    PROVE  FtpInv'
  <1>1. FtpTyped /\ LineOf(c) /\ DataOf(c) /\ stage[c] = "idle" /\ stage[c] \in AtRest
    BY Known DEF Enter, CallerAt, AtRest
  <1>2. /\ holds[c] = None /\ asked(c) <= Ranges /\ CallerTo(c, "taking")
        /\ UNCHANGED <<holds, pool, wire>> /\ UNCHANGED <<got, moved>>
    BY <1>1 DEF LineOf, DataOf, Enter, files
  <1>3. "taking" \in FtpStage /\ "taking" \in AtRest \cup {"failed"} /\ Fits(c, "taking")
    BY <1>2 DEF FtpStage, AtRest, Fits
  <1>4. DataOf(c)'
    BY <1>2, <1>3, DataKept
  <1>5. /\ got' \in [Caller -> Seq(Nat)] /\ \A d \in Caller \ {c} : got'[d] = got[d]
        /\ moved' \in [Caller -> {"no", "part", "all"}] /\ \A d \in Caller \ {c} : moved'[d] = moved[d]
    BY <1>1, <1>2 DEF FtpTyped
  <1> QED
    BY <1>2, <1>3, <1>4, <1>5, StillStep

LEMMA TakePooledStep ==
    ASSUME FtpInv, NEW c \in Caller, TakePooled(c)
    PROVE  /\ FtpInv'
           /\ \E k \in pool : holds[c] = None /\ holds' = [holds EXCEPT ![c] = k] /\ pool' = pool \ {k}
           /\ \E s \in Commands : CallerTo(c, s)
  <1>1. FtpTyped /\ LineOf(c) /\ DataOf(c) /\ stage[c] = "taking" /\ stage[c] \in AtRest
    BY Known DEF TakePooled, CallerAt, AtRest
  <1>2. holds[c] = None /\ asked(c) <= Ranges
    BY <1>1 DEF LineOf, DataOf
  <1>3. Preferred(c) \subseteq pool
    BY DEF Preferred
  <1>4. PICK k \in pool : holds' = [holds EXCEPT ![c] = k] /\ pool' = pool \ {k}
    BY <1>3 DEF TakePooled
  <1>5. PICK s \in {Begin(c), "noop"} : CallerTo(c, s)
    BY DEF TakePooled, CallerTo
  <1>6. k \in Conn /\ Settled(k) /\ k \notin broken
    BY <1>1, Known DEF FtpTyped, LineSound
  <1>7. \A d \in Caller : holds[d] # k
    BY <1>6, Known, Constants DEF Apart
  <1>8. Fits(c, s) /\ s \in Commands /\ UNCHANGED <<wire, files>>
    BY <1>2, BeginFits DEF TakePooled
  <1>9. FtpInv'
    BY <1>2, <1>4, <1>5, <1>6, <1>7, <1>8, TakeStep
  <1> QED
    BY <1>2, <1>4, <1>5, <1>8, <1>9

LEMMA ConnectStep ==
    ASSUME FtpInv, NEW c \in Caller, Connect(c)
    PROVE  /\ FtpInv' /\ pool = {} /\ pool' = {}
           /\ \E s \in FtpStage \ {"idle"} : CallerTo(c, s)
  <1>1. FtpTyped /\ LineOf(c) /\ DataOf(c) /\ stage[c] = "taking" /\ stage[c] \in AtRest
    BY Known DEF Connect, ConnectNew, CallerAt, AtRest
  <1>2. /\ holds[c] = None /\ asked(c) <= Ranges /\ pool = {} /\ pool' = pool
        /\ UNCHANGED <<wire, files>> /\ UNCHANGED wire /\ UNCHANGED <<got, moved>>
    BY <1>1 DEF LineOf, DataOf, Connect, ConnectNew, files
  <1>3. ASSUME NEW k \in Unused, holds' = [holds EXCEPT ![c] = k], CallerTo(c, Begin(c))
        PROVE  FtpInv' /\ Begin(c) \in FtpStage \ {"idle"}
    <2>1. k \in Conn /\ k \notin pool /\ \A d \in Caller : holds[d] # k
      BY DEF Unused
    <2>2. Settled(k) /\ k \notin broken
      BY <2>1, Known DEF LineSound, Settled, Open
    <2>3. Fits(c, Begin(c)) /\ Begin(c) \in Commands
      BY <1>2, BeginFits
    <2>4. pool' = pool \ {k}
      BY <1>2
    <2> QED
      BY <1>2, <1>3, <2>1, <2>2, <2>3, <2>4, TakeStep DEF Begin, FtpStage
  <1>4. CASE UNCHANGED holds /\ CallerTo(c, "failed")
    <2>1. "failed" \in FtpStage \ {"idle"} /\ "failed" \in AtRest \cup {"failed"} /\ Fits(c, "failed")
      BY <1>2 DEF FtpStage, Fits
    <2>2. DataOf(c)'
      BY <1>2, <1>4, <2>1, DataKept
    <2>3. /\ got' \in [Caller -> Seq(Nat)] /\ \A d \in Caller \ {c} : got'[d] = got[d]
          /\ moved' \in [Caller -> {"no", "part", "all"}] /\ \A d \in Caller \ {c} : moved'[d] = moved[d]
      BY <1>1, <1>2 DEF FtpTyped
    <2>4. FtpInv'
      BY <1>2, <1>4, <2>1, <2>2, <2>3, StillStep
    <2> QED
      BY <1>2, <1>4, <2>1, <2>4
  <1>5. \/ \E k \in Unused : holds' = [holds EXCEPT ![c] = k] /\ CallerTo(c, Begin(c))
        \/ UNCHANGED holds /\ CallerTo(c, "failed")
    BY DEF Connect, ConnectNew
  <1> QED
    BY <1>2, <1>3, <1>4, <1>5

(* The end of an operation.                                                *)
LEMMA PutBackStep ==
    ASSUME FtpInv, NEW c \in Caller, PutBack(c)
    PROVE  /\ FtpInv'
           /\ \/ UNCHANGED <<holds, pool>>
              \/ /\ holds[c] # None /\ holds' = [holds EXCEPT ![c] = None]
                 /\ pool' \in {pool, pool \cup {holds[c]}}
           /\ \E s \in AtRest \ {"idle"} : CallerTo(c, s)
  <1>1. FtpTyped /\ LineOf(c) /\ DataOf(c) /\ stage[c] \in {"ok", "failed"}
    BY Known DEF PutBack, CallerAt
  <1>2. PICK s \in {"ended", "gave up"} : CallerTo(c, s) /\ (s = "ended" <=> stage[c] = "ok")
    BY DEF PutBack, CallerAt
  <1>3. s \in AtRest \ {"idle"} /\ s \in FtpStage /\ UNCHANGED <<got, moved>> /\ UNCHANGED files
    BY DEF AtRest, FtpStage, PutBack, files
  <1>4. Fits(c, s)
    BY <1>1, <1>2 DEF Fits, DataOf
  <1>5. DataOf(c)'
    BY <1>2, <1>3, <1>4, DataKept
  <1>6. holds[c] = None \/ holds[c] \in Conn
    BY Known
  <1>7. CASE holds[c] = None /\ UNCHANGED <<holds, pool, wire>>
    <2>1. /\ got' \in [Caller -> Seq(Nat)] /\ \A d \in Caller \ {c} : got'[d] = got[d]
          /\ moved' \in [Caller -> {"no", "part", "all"}] /\ \A d \in Caller \ {c} : moved'[d] = moved[d]
      BY <1>1, <1>3 DEF FtpTyped
    <2>2. FtpInv'
      BY <1>2, <1>3, <1>5, <1>7, <2>1, StillStep
    <2> QED
      BY <1>2, <1>3, <1>7, <2>2
  <1>8. CASE /\ holds[c] # None /\ holds[c] \notin broken
             /\ pool' = pool \cup {holds[c]} /\ holds' = [holds EXCEPT ![c] = None] /\ UNCHANGED wire
    <2>1. Settled(holds[c]) /\ holds[c] \in Conn /\ UNCHANGED <<wire, files>>
      BY <1>1, <1>3, <1>6, <1>8 DEF LineOf, Commands
    <2>2. FtpInv'
      BY <1>2, <1>3, <1>5, <1>8, <2>1, ReturnStep
    <2> QED
      BY <1>2, <1>3, <1>8, <2>2
  <1>9. CASE holds[c] # None /\ Discard(c)
    <2>1. FtpInv'
      BY <1>2, <1>3, <1>5, <1>6, <1>9, DiscardStep
    <2> QED
      BY <1>2, <1>3, <1>9, <2>1 DEF Discard
  <1> QED
    BY <1>7, <1>8, <1>9 DEF PutBack

LEMMA LeaveStep ==
    ASSUME FtpInv, NEW c \in Caller, Leave(c)
    PROVE  FtpInv'
  <1>1. FtpTyped /\ LineOf(c) /\ DataOf(c) /\ stage[c] \in {"ended", "gave up"} /\ stage[c] \in AtRest
    BY Known DEF Leave, AtRest
  <1>2. /\ holds[c] = None /\ CallerTo(c, "idle") /\ UNCHANGED <<holds, pool, wire>>
        /\ moved' = [moved EXCEPT ![c] = "no"]
    BY <1>1 DEF LineOf, Leave
  <1>3. "idle" \in AtRest \cup {"failed"} /\ stage'[c] = "idle"
    BY <1>1, <1>2 DEF AtRest, CallerTo, FtpTyped
  <1>4. moved' \in [Caller -> {"no", "part", "all"}] /\ \A d \in Caller \ {c} : moved'[d] = moved[d]
    BY <1>1, <1>2 DEF FtpTyped
  <1>5. /\ got' \in [Caller -> Seq(Nat)] /\ \A d \in Caller \ {c} : got'[d] = got[d]
        /\ Len(got'[c]) <= Ranges /\ \A i \in DOMAIN got'[c] : got'[c][i] = i - 1
    <2>1. CASE asked(c) <= Ranges /\ UNCHANGED got
      BY <1>1, <2>1 DEF FtpTyped, DataOf, asked
    <2>2. CASE got' = [got EXCEPT ![c] = <<>>]
      <3>0. <<>> \in Seq(Nat)
        OBVIOUS
      <3>1. got'[c] = <<>> /\ got' \in [Caller -> Seq(Nat)] /\ \A d \in Caller \ {c} : got'[d] = got[d]
        BY <1>1, <2>2, <3>0 DEF FtpTyped
      <3> QED
        BY <3>1, Constants
    <2> QED
      BY <2>1, <2>2 DEF Leave
  <1>6. DataOf(c)'
    BY <1>3, <1>5 DEF DataOf, asked
  <1> QED
    BY <1>2, <1>3, <1>4, <1>5, <1>6, StillStep

LEMMA NoopStep ==
    ASSUME FtpInv, NEW c \in Caller, Noop(c)
    PROVE  /\ FtpInv'
           /\ \/ UNCHANGED <<holds, pool>>
              \/ holds[c] # None /\ holds' = [holds EXCEPT ![c] = None] /\ pool' = pool
           /\ \E s \in FtpStage \ {"idle"} : CallerTo(c, s)
  <1>1. FtpTyped /\ LineOf(c) /\ DataOf(c) /\ stage[c] = "noop" /\ stage[c] \in Commands
    BY Known DEF Noop, CallerAt, Commands
  <1>2. holds[c] \in Conn /\ asked(c) <= Ranges /\ UNCHANGED <<got, moved>> /\ UNCHANGED files
    BY <1>1 DEF LineOf, DataOf, Noop, files
  <1>3. CASE Reply(c, "NOOP", <<>>) /\ CallerTo(c, Begin(c)) /\ UNCHANGED <<holds, pool>>
    <2>1. Fits(c, Begin(c)) /\ Begin(c) \in Commands /\ Begin(c) \in FtpStage \ {"idle"} /\ <<>> # End
      BY <1>2, BeginFits, OneReply DEF Begin, FtpStage
    <2>2. DataOf(c)' /\ got' \in [Caller -> Seq(Nat)] /\ moved' \in [Caller -> {"no", "part", "all"}]
      BY <1>1, <1>2, <1>3, <2>1, DataKept DEF FtpTyped
    <2> HIDE DEF End
    <2>3. FtpInv'
      BY <1>1, <1>2, <1>3, <2>1, <2>2, ReplyStep
    <2> QED
      BY <1>3, <2>1, <2>3
  <1>4. CASE Discard(c) /\ CallerTo(c, "taking")
    <2>1. "taking" \in AtRest /\ "taking" \in FtpStage \ {"idle"} /\ Fits(c, "taking")
      BY <1>2 DEF AtRest, FtpStage, Fits
    <2>2. DataOf(c)'
      BY <1>2, <1>4, <2>1, DataKept
    <2>3. FtpInv'
      BY <1>2, <1>4, <2>1, <2>2, DiscardStep
    <2> QED
      BY <1>2, <1>4, <2>1, <2>3, Constants DEF Discard
  <1> QED
    BY <1>3, <1>4 DEF Noop

(* A download that has begun.                                              *)
LEMMA BegunStep ==
    ASSUME FtpInv, NEW c \in Caller, Begun(c)
    PROVE  FtpInv'
  <1>1. c \in Reader /\ stage[c] \in {"begun", "skip"} /\ Keep(c, asked(c))
    BY DEF Begun, CallerAt
  <1> QED
    BY <1>1, KeepStep

-----------------------------------------------------------------------------
LEMMA InitIInv == FtpInit => FtpInv
  <1> SUFFICES ASSUME FtpInit PROVE FtpInv
    OBVIOUS
  <1>1. FtpTyped /\ RepliesMatch
    BY DEF FtpInit, FtpTyped, FtpStage, RepliesMatch
  <1>2. ASSUME NEW c \in Caller PROVE stage[c] = "idle" /\ holds[c] = None /\ got[c] = <<>>
    BY DEF FtpInit
  <1>3. ASSUME NEW k \in Conn PROVE LineSound(k)
    BY DEF FtpInit, LineSound, InPlace, Open
  <1>4. ASSUME NEW c \in Caller PROVE CallerSound(c)
    <2>1. LineOf(c)
      BY <1>2, Constants DEF LineOf, AtRest, Commands, AfterVerb
    <2>2. asked(c) = 0 /\ asked(c) <= Ranges /\ DOMAIN got[c] = {}
      BY <1>2, Constants DEF asked
    <2>3. DataOf(c)
      BY <1>2, <2>2 DEF DataOf
    <2> QED
      BY <2>1, <2>3 DEF CallerSound
  <1> QED
    BY <1>1, <1>2, <1>3, <1>4 DEF FtpInv, Apart

LEMMA NextIInv == FtpInv /\ [FtpNext]_ftpVars => FtpInv'
  <1> SUFFICES ASSUME FtpInv, [FtpNext]_ftpVars PROVE FtpInv'
    OBVIOUS
  <1>1. CASE UNCHANGED ftpVars
    <2>1. UNCHANGED <<stage, holds, pool, owed, retr, broken, misheard, got, moved>>
      BY <1>1 DEF ftpVars, wire, files
    <2>2. FtpTyped' /\ RepliesMatch' /\ Apart'
      BY <2>1 DEF FtpInv, FtpTyped, RepliesMatch, Apart
    <2>3. ASSUME NEW k \in Conn PROVE LineSound(k)'
      BY <2>1 DEF FtpInv, LineSound, InPlace, Settled, Open
    <2>4. ASSUME NEW c \in Caller PROVE CallerSound(c)'
      <3>1. LineOf(c)'
        BY <2>1 DEF FtpInv, CallerSound, LineOf, Settled, Open, Continues, asked
      <3>2. DataOf(c)'
        BY <2>1 DEF FtpInv, CallerSound, DataOf, asked
      <3> QED
        BY <3>1, <3>2 DEF CallerSound
    <2> QED
      BY <2>2, <2>3, <2>4 DEF FtpInv
  <1>2. ASSUME NEW c \in Caller, FtpStep(c) PROVE FtpInv'
    BY <1>2, EnterStep, TakePooledStep, ConnectStep, PutBackStep, LeaveStep, NoopStep, CommandStep, TransferStep,
       RangeStep, BegunStep, SkipStep, ReadRangeStep, DataStep, FinalStep, CutStep DEF FtpStep
  <1> QED
    BY <1>1, <1>2 DEF FtpNext

(* The strengthening above holds whatever the callers do and the server    *)
(* answers.                                                                *)
THEOREM FtpInductive == FtpSpec => []FtpInv
  BY InitIInv, NextIInv, PTL DEF FtpSpec

(* A caller is told what the server answered to its own command, a reader  *)
(* is given the ranges it asked for in their order, and an operation that  *)
(* ended well moved all of its data (read_reply, read_range,               *)
(* finish_transfer).                                                       *)
THEOREM AnswersAreTheirs == FtpSpec => []AnswersAreOwn
  <1>1. FtpInv => AnswersAreOwn
    BY DEF FtpInv, CallerSound, DataOf, AnswersAreOwn, RangesFollow, SuccessIsWhole, Caller
  <1> QED
    BY <1>1, FtpInductive, PTL

-----------------------------------------------------------------------------
(* The permits: what a step does to the callers at work and to the         *)
(* connections there are.                                                  *)
LEMMA FiniteSets == IsFiniteSet(Busy) /\ IsFiniteSet(Held) /\ (FtpTyped => IsFiniteSet(pool))
  <1>1. IsFiniteSet(Caller) /\ IsFiniteSet(Conn)
    BY FtpAssumption DEF FtpAssumption, Caller
  <1>2. Busy \subseteq Caller /\ Held \subseteq Caller /\ (FtpTyped => pool \subseteq Conn)
    BY DEF Busy, Held, FtpTyped
  <1> QED
    BY <1>1, <1>2, FS_Subset

LEMMA BusyBounded ==
    ASSUME NEW c \in Caller, \A d \in Caller \ {c} : stage'[d] = stage[d],
           Cardinality(Busy) <= MaxConns, stage[c] # "idle" \/ Cardinality(Busy) < MaxConns
    PROVE  Cardinality(Busy)' <= MaxConns
  <1>1. Busy' \subseteq Busy \cup {c}
    BY DEF Busy
  <1>2. CASE stage[c] # "idle"
    <2>1. Busy' \subseteq Busy
      BY <1>1, <1>2 DEF Busy
    <2>2. Cardinality(Busy') <= Cardinality(Busy) /\ Cardinality(Busy') \in Nat /\ Cardinality(Busy) \in Nat
      BY <2>1, FiniteSets, FS_Subset, FS_CardinalityType
    <2> QED
      BY <2>2, Constants
  <1>3. CASE stage[c] = "idle"
    <2>1. c \notin Busy
      BY <1>3 DEF Busy
    <2>2. IsFiniteSet(Busy \cup {c}) /\ Cardinality(Busy \cup {c}) = Cardinality(Busy) + 1
      BY <2>1, FiniteSets, FS_AddElement
    <2>3. Cardinality(Busy') <= Cardinality(Busy \cup {c}) /\ Cardinality(Busy') \in Nat
      BY <1>1, <2>2, FS_Subset, FS_CardinalityType
    <2>4. Cardinality(Busy) \in Nat /\ Cardinality(Busy) < MaxConns
      BY <1>3, FiniteSets, FS_CardinalityType
    <2> QED
      BY <2>2, <2>3, <2>4, Constants
  <1> QED
    BY <1>2, <1>3

LEMMA HeldBounded ==
    ASSUME FtpTyped, ConnectionsBounded, NEW c \in Caller,
           \/ UNCHANGED <<holds, pool>>
           \/ /\ holds[c] # None /\ holds' = [holds EXCEPT ![c] = None]
              /\ pool' \in {pool, pool \cup {holds[c]}}
           \/ \E k \in pool : holds[c] = None /\ holds' = [holds EXCEPT ![c] = k] /\ pool' = pool \ {k}
    PROVE  ConnectionsBounded'
  <1>1. /\ IsFiniteSet(Held) /\ IsFiniteSet(pool) /\ Cardinality(Held) \in Nat /\ Cardinality(pool) \in Nat
        /\ Cardinality(pool) + Cardinality(Held) <= MaxConns /\ MaxConns \in Nat
    BY FiniteSets, FS_CardinalityType, Constants DEF ConnectionsBounded
  <1>2. CASE UNCHANGED <<holds, pool>>
    BY <1>2 DEF ConnectionsBounded, Held
  <1>3. CASE /\ holds[c] # None /\ holds' = [holds EXCEPT ![c] = None]
             /\ pool' \in {pool, pool \cup {holds[c]}}
    <2>1. c \in Held /\ Held' = Held \ {c}
      BY <1>3 DEF FtpTyped, Held
    <2>2. Cardinality(Held') = Cardinality(Held) - 1
      BY <1>1, <2>1, FS_RemoveElement
    <2>3. Cardinality(pool \cup {holds[c]}) \in {Cardinality(pool), Cardinality(pool) + 1}
      BY <1>1, FS_AddElement
    <2>4. Cardinality(pool') \in {Cardinality(pool), Cardinality(pool) + 1}
      BY <1>3, <2>3
    <2> QED
      BY <1>1, <2>2, <2>4 DEF ConnectionsBounded
  <1>4. ASSUME NEW k \in pool, holds[c] = None, holds' = [holds EXCEPT ![c] = k], pool' = pool \ {k}
        PROVE  ConnectionsBounded'
    <2>1. c \notin Held /\ Held' = Held \cup {c}
      BY <1>4, Constants DEF FtpTyped, Held
    <2>2. Cardinality(Held') = Cardinality(Held) + 1
      BY <1>1, <2>1, FS_AddElement
    <2>3. Cardinality(pool') = Cardinality(pool) - 1
      BY <1>1, <1>4, FS_RemoveElement
    <2> QED
      BY <1>1, <2>2, <2>3 DEF ConnectionsBounded
  <1> QED
    BY <1>2, <1>3, <1>4

(* The steps of a caller on the connection it has.                         *)
LEMMA InnerShape ==
    ASSUME NEW c \in Caller,
           \/ Talk(c) \/ OpenData(c) \/ Reopen(c) \/ Rest(c) \/ Transfer(c) \/ RangeAsked(c) \/ Begun(c)
           \/ Skip(c) \/ ReadRange(c) \/ Move(c) \/ Final(c) \/ Cut(c)
    PROVE  UNCHANGED <<holds, pool>> /\ stage[c] # "idle" /\ \E s : CallerTo(c, s)
  <1>1. CASE Talk(c) \/ OpenData(c) \/ Reopen(c) \/ Rest(c)
    BY <1>1 DEF Talk, OpenData, Reopen, Rest, Exchange, Lost, CallerAt
  <1>2. CASE Transfer(c)
    BY <1>2 DEF Transfer, Lost
  <1>3. CASE RangeAsked(c) \/ ReadRange(c)
    BY <1>3 DEF RangeAsked, ReadRange, Lost, CallerAt
  <1>4. CASE Begun(c) \/ Skip(c)
    BY <1>4 DEF Begun, Skip, Keep, Lost, CallerAt
  <1>5. CASE Move(c) \/ Final(c) \/ Cut(c)
    BY <1>5 DEF Move, Final, Cut, Lost, CallerAt
  <1> QED
    BY <1>1, <1>2, <1>3, <1>4, <1>5

LEMMA BStep ==
    ASSUME BInv, NEW c \in Caller, FtpStep(c)
    PROVE  Cardinality(Busy)' <= MaxConns /\ ConnectionsBounded'
  <1>1. FtpInv /\ FtpTyped /\ ConnectionsBounded /\ Cardinality(Busy) <= MaxConns /\ LineOf(c)
    BY Known DEF BInv
  <1>2. ASSUME NEW s, CallerTo(c, s) PROVE \A d \in Caller \ {c} : stage'[d] = stage[d]
    BY <1>1, <1>2 DEF CallerTo, FtpTyped
  <1>3. CASE Enter(c)
    <2>1. /\ UNCHANGED <<holds, pool>> /\ Cardinality(Busy) < MaxConns
          /\ \A d \in Caller \ {c} : stage'[d] = stage[d]
      BY <1>2, <1>3 DEF Enter
    <2> QED
      BY <1>1, <2>1, BusyBounded, HeldBounded
  <1>4. CASE TakePooled(c)
    <2>1. stage[c] # "idle" /\ \A d \in Caller \ {c} : stage'[d] = stage[d]
      BY <1>1, <1>2, <1>4, TakePooledStep DEF TakePooled, CallerAt
    <2>2. \E k \in pool : holds[c] = None /\ holds' = [holds EXCEPT ![c] = k] /\ pool' = pool \ {k}
      BY <1>1, <1>4, TakePooledStep
    <2> QED
      BY <1>1, <2>1, <2>2, BusyBounded, HeldBounded
  <1>5. CASE Connect(c)
    <2>1. stage[c] # "idle" /\ \A d \in Caller \ {c} : stage'[d] = stage[d]
      BY <1>1, <1>2, <1>5, ConnectStep DEF Connect, ConnectNew, CallerAt
    <2>2. Cardinality(Busy)' <= MaxConns
      BY <1>1, <2>1, BusyBounded
    <2>3. FtpInv' /\ pool' = {}
      BY <1>1, <1>5, ConnectStep
    <2>4. Held' \subseteq Busy' /\ IsFiniteSet(Busy')
      <3>1. Held' \subseteq Busy' /\ Busy' \subseteq Caller
        BY <2>3 DEF FtpInv, CallerSound, LineOf, Held, Busy, AtRest
      <3>2. IsFiniteSet(Caller)
        BY FtpAssumption DEF FtpAssumption, Caller
      <3> QED
        BY <3>1, <3>2, FS_Subset
    <2>5. Cardinality(Held') <= Cardinality(Busy') /\ Cardinality(Held') \in Nat /\ Cardinality(Busy') \in Nat
      BY <2>4, FS_Subset, FS_CardinalityType
    <2>6. Cardinality(pool') = 0
      BY <2>3, FS_EmptySet
    <2> QED
      BY <2>2, <2>5, <2>6, Constants DEF ConnectionsBounded
  <1>6. CASE PutBack(c)
    <2>1. stage[c] # "idle" /\ \A d \in Caller \ {c} : stage'[d] = stage[d]
      BY <1>1, <1>2, <1>6, PutBackStep DEF PutBack, CallerAt
    <2>2. \/ UNCHANGED <<holds, pool>>
          \/ /\ holds[c] # None /\ holds' = [holds EXCEPT ![c] = None]
             /\ pool' \in {pool, pool \cup {holds[c]}}
      BY <1>1, <1>6, PutBackStep
    <2> QED
      BY <1>1, <2>1, <2>2, BusyBounded, HeldBounded
  <1>7. CASE Leave(c)
    <2>1. /\ UNCHANGED <<holds, pool>> /\ stage[c] # "idle"
          /\ \A d \in Caller \ {c} : stage'[d] = stage[d]
      BY <1>2, <1>7 DEF Leave
    <2> QED
      BY <1>1, <2>1, BusyBounded, HeldBounded
  <1>8. CASE Noop(c)
    <2>1. stage[c] # "idle" /\ \A d \in Caller \ {c} : stage'[d] = stage[d]
      BY <1>1, <1>2, <1>8, NoopStep DEF Noop, CallerAt
    <2>2. \/ UNCHANGED <<holds, pool>>
          \/ holds[c] # None /\ holds' = [holds EXCEPT ![c] = None] /\ pool' \in {pool, pool \cup {holds[c]}}
      BY <1>1, <1>8, NoopStep
    <2> QED
      BY <1>1, <2>1, <2>2, BusyBounded, HeldBounded
  <1>9. CASE \/ Talk(c) \/ OpenData(c) \/ Reopen(c) \/ Rest(c) \/ Transfer(c) \/ RangeAsked(c) \/ Begun(c)
             \/ Skip(c) \/ ReadRange(c) \/ Move(c) \/ Final(c) \/ Cut(c)
    <2>1. /\ UNCHANGED <<holds, pool>> /\ stage[c] # "idle"
          /\ \A d \in Caller \ {c} : stage'[d] = stage[d]
      BY <1>2, <1>9, InnerShape
    <2> QED
      BY <1>1, <2>1, BusyBounded, HeldBounded
  <1> QED
    BY <1>3, <1>4, <1>5, <1>6, <1>7, <1>8, <1>9 DEF FtpStep

(* A session never has more than MAX_CONNECTIONS control connections: one  *)
(* is made only while none is free, and every caller that has one keeps    *)
(* its permit until it is put back (with_conn, take_conn).                 *)
THEOREM ConnectionsStayBounded == FtpSpec => []ConnectionsBounded
  <1>1. FtpInit => BInv
    <2> SUFFICES ASSUME FtpInit PROVE BInv
      OBVIOUS
    <2>1. Busy = {} /\ Held = {} /\ pool = {}
      BY DEF FtpInit, Busy, Held
    <2>2. Cardinality(Busy) = 0 /\ Cardinality(Held) = 0 /\ Cardinality(pool) = 0
      BY <2>1, FS_EmptySet
    <2> QED
      BY <2>2, InitIInv, Constants DEF BInv, ConnectionsBounded
  <1>2. BInv /\ [FtpNext]_ftpVars => BInv'
    <2> SUFFICES ASSUME BInv, [FtpNext]_ftpVars PROVE BInv'
      OBVIOUS
    <2>1. FtpInv'
      BY NextIInv DEF BInv
    <2>2. CASE UNCHANGED ftpVars
      BY <2>1, <2>2 DEF BInv, ConnectionsBounded, Held, Busy, ftpVars
    <2>3. CASE FtpNext
      BY <2>1, <2>3, BStep DEF BInv, FtpNext
    <2> QED
      BY <2>2, <2>3
  <1>3. BInv => ConnectionsBounded
    BY DEF BInv
  <1> QED
    BY <1>1, <1>2, <1>3, PTL DEF FtpSpec
=============================================================================
