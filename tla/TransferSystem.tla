--------------------------- MODULE TransferSystem ---------------------------
(***************************************************************************)
(* The transfer queue with the jobs its workers run, on one shared file    *)
(* system: TransferQueue, with the steps of TransferJob in the place of    *)
(* its abstract job.  A job learns that it was cancelled from the task     *)
(* list, where its entry may be gone by then.                              *)
(***************************************************************************)
EXTENDS TransferQueue

CONSTANTS
    Absent,         \* as in TransferJob
    Faults,         \* the kinds of driver calls that may fail
    Positional,     \* sessions with positional writes (local, SFTP)
    Shells,         \* sessions that can run a command
    FirstFiles      \* what is there at first, a function of some <<session, path>>

VARIABLES fs, job

sysVars == <<vars, fs, job>>

TempFile(t) == <<"temp", t>>
Files == (Sessions \X Paths) \cup {TempFile(t) : t \in TaskId}

PlanOf(t) ==
    LET r == req[t] IN
    [src |-> <<r.srcSession, Norm[r.src]>>,
     dst |-> <<r.dstSession, Norm[r.dst]>>,
     tmp |-> TempFile(t),
     isMove      |-> r.isMove,
     sameSession |-> r.srcSession = r.dstSession,
     positional  |-> r.dstSession \in Positional,
     shell       |-> r.srcSession \in Shells,
     faults      |-> Faults]

FirstFS ==
    [f \in Files |-> IF f \in DOMAIN FirstFiles THEN FirstFiles[f] ELSE Absent]

J == INSTANCE TransferJob WITH
        Jobs      <- TaskId,
        File      <- Files,
        InitialFS <- {FirstFS},
        Plans     <- {},
        plan      <- [t \in TaskId |-> IF req[t] = NoRequest THEN NoRequest ELSE PlanOf(t)],
        cancelled <- [t \in TaskId |-> TaskStatus(t) = "Cancelled"]

SystemInit ==
    /\ Init
    /\ fs = FirstFS
    /\ job = [t \in TaskId |-> J!NewJob]

-----------------------------------------------------------------------------
(* A step of the job; the queue only sees the job give up once it has      *)
(* found its task cancelled.                                               *)
JobRuns(t) ==
    /\ pc[t] \in Working
    /\ UNCHANGED <<userVars, permits, waiters, outcome>>
    /\ J!DriverStep(t)
    /\ MoveTo(t, IF job'[t].result = "Cancelled" THEN "unwinding" ELSE pc[t])

JobReturns(t) ==
    /\ pc[t] \in Working
    /\ J!Ended(t)
    /\ outcome' = [outcome EXCEPT ![t] = job[t].result]
    /\ MoveTo(t, "finalizing")
    /\ UNCHANGED <<userVars, permits, waiters, fs, job>>

SystemWorker(t) ==
    \/ (QueueStep(t) \/ StartJob(t)) /\ UNCHANGED <<fs, job>>
    \/ JobRuns(t)
    \/ JobReturns(t)

CommandRunsOn(t) == UNCHANGED vars /\ J!CommandRunsOn(t)

SystemNext ==
    \/ UserStep /\ UNCHANGED <<fs, job>>
    \/ \E t \in TaskId : SystemWorker(t) \/ CommandRunsOn(t)

SystemSpec == SystemInit /\ [][SystemNext]_sysVars

SystemFairSpec == SystemSpec /\ \A t \in TaskId : WF_sysVars(SystemWorker(t))

-----------------------------------------------------------------------------
(* Properties.                                                             *)

(* The queue with real jobs behaves as TransferQueue says it does with     *)
(* abstract ones: a job gives up only when its entry says Cancelled, ends, *)
(* and touches nothing of the queue.                                       *)
QueueIsImplemented == FairSpec

Destination(t) == PlanOf(t).dst
Spawned == {t \in TaskId : req[t] # NoRequest}

(* "A task is Completed only after the destination size was checked": what *)
(* the list calls Completed is a whole copy, unless a cancelled job that   *)
(* has not stopped yet shares the destination, or the command of a failed  *)
(* one, which nobody waits for any more, still runs on the server.         *)
MayStillWrite(u) ==
    \/ status[u] = "Cancelled"
    \/ status[u] = "Failed" /\ PlanOf(u).sameSession /\ PlanOf(u).shell
CompletedIsWhole ==
    [][\A t \in Spawned :
         status[t] = "InProgress" /\ status'[t] = "Completed"
         => \/ J!CopyIn(t, Destination(t))
            \/ \E u \in Spawned \ {t} : MayStillWrite(u) /\ Destination(u) = Destination(t)]_sysVars

(* The result of a completed task is removed by nobody, save the cleanup   *)
(* of a cancelled job that ran beside it.                                  *)
ResultLostOnlyToCancelled ==
    [][\A t \in Spawned :
         /\ t \in list /\ status[t] = "Completed"
         /\ J!Exists(Destination(t)) /\ ~ J!Exists(Destination(t))'
         => \E u \in Spawned \ {t} : status[u] = "Cancelled" /\ pc[u] \in Working]_sysVars

(* What the list calls Completed is whole and stays: the two.              *)
ResultsHold == CompletedIsWhole /\ ResultLostOnlyToCancelled

(* duplicate_rejection refuses a second task because "one task's cleanup   *)
(* could remove the other's result".  It does not look at cancelled tasks  *)
(* whose job still runs, and the cleanup does remove the result.           *)
ResultKept ==
    [][\A t \in Spawned :
         /\ t \in list /\ status[t] = "Completed"
         /\ J!Exists(Destination(t))
         => J!Exists(Destination(t))']_sysVars

=============================================================================
