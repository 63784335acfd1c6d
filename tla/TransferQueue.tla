---------------------------- MODULE TransferQueue ----------------------------
(***************************************************************************)
(* The background transfer queue of                                        *)
(* crates/rustscp-core/src/transfer_queue.rs: the task list behind its     *)
(* lock, the user's calls on it (enqueue, pause, resume, cancel, clear     *)
(* finished) and the one tokio task that enqueue spawns per transfer.      *)
(*                                                                         *)
(* The job a worker runs (Job::run) is abstract here: it may observe that  *)
(* its task was cancelled, or return Completed or Failed.  TransferJob     *)
(* gives its steps and TransferSystem puts the two together.               *)
(***************************************************************************)
EXTENDS Naturals, Sequences, FiniteSets

CONSTANTS
    Sessions,       \* session ids
    Paths,          \* path spellings a request may carry
    Norm,           \* normalize_for_compare: a spelling to its compared form
    Below,          \* pairs <<c, p>> of compared forms, c strictly inside p
    NoRequest,      \* of an id that was not used yet
    Requests,       \* the enqueue calls considered (a subset of Request)
    MaxConcurrent,  \* permits of the semaphore
    MaxKept,        \* MAX_KEPT_TASKS
    MaxTasks        \* bound: number of enqueue calls in a behaviour

Request == [srcSession : Sessions, src : Paths,
            dstSession : Sessions, dst : Paths, isMove : BOOLEAN]

ASSUME QueueAssumption ==
    /\ Norm \in [Paths -> Paths]
    /\ Below \subseteq Paths \X Paths
    /\ Requests \subseteq Request
    /\ NoRequest \notin Request
    /\ MaxConcurrent \in Nat \ {0}
    /\ MaxKept \in Nat
    /\ MaxTasks \in Nat

(* Ids in the order of the enqueue calls: the list is a Vec that is only   *)
(* pushed to and filtered, so a smaller id is an older entry.              *)
TaskId == 1..MaxTasks

Active   == {"Queued", "InProgress"}
Finished == {"Completed", "Failed", "Cancelled"}

(* Where a worker is.  "none": not spawned.  "check", "asleep": the loop   *)
(* that waits while the queue is paused.  "acquire": past that loop.       *)
(* "waiting": in the semaphore's line.  From "mark" to "finalizing" it     *)
(* holds a permit.  "unwinding": the job has seen its task cancelled.      *)
Phase == {"none", "check", "asleep", "acquire", "waiting", "mark", "lookup",
          "running", "unwinding", "finalizing", "done"}

BeforePermit == {"check", "asleep", "acquire", "waiting"}
WithPermit   == {"mark", "lookup", "running", "unwinding", "finalizing"}
Working      == {"running", "unwinding"}

VARIABLES
    list,       \* ids of the entries in the task list
    req,        \* what each task was asked to do
    status,     \* the status field of each entry
    next,       \* the id the next enqueue call takes
    paused,     \* is_paused
    permits,    \* free permits of concurrency_semaphore
    waiters,    \* tasks in line for a permit, first come first served
    pc,         \* where the worker of each task is
    outcome,    \* what the job of each task returned, until it is written
    connected   \* the sessions in the shared session map

userVars == <<list, req, status, next, paused, connected>>
vars == <<list, req, status, next, paused, permits, waiters, pc, outcome, connected>>

TypeOK ==
    /\ list \subseteq TaskId
    /\ req \in [TaskId -> Requests \cup {NoRequest}]
    /\ status \in [TaskId -> Active \cup Finished \cup {"none"}]
    /\ next \in 1..(MaxTasks + 1)
    /\ paused \in BOOLEAN
    /\ permits \in 0..MaxConcurrent
    /\ waiters \in Seq(TaskId)
    /\ pc \in [TaskId -> Phase]
    /\ outcome \in [TaskId -> Finished \cup {"none"}]
    /\ connected \subseteq Sessions

Init ==
    /\ list = {}
    /\ req = [t \in TaskId |-> NoRequest]
    /\ status = [t \in TaskId |-> "none"]
    /\ next = 1
    /\ paused = FALSE
    /\ permits = MaxConcurrent
    /\ waiters = <<>>
    /\ pc = [t \in TaskId |-> "none"]
    /\ outcome = [t \in TaskId |-> "none"]
    /\ connected = Sessions

-----------------------------------------------------------------------------
(* The checks enqueue makes under the lock of the list.                    *)

ActiveTasks == {t \in list : status[t] \in Active}

(* task_status: an entry that has left the list has no status.             *)
TaskStatus(t) == IF t \in list THEN status[t] ELSE "none"

SameDestination(r, q) ==
    /\ r.dstSession = q.dstSession
    /\ Norm[r.dst] = Norm[q.dst]

SameMoveSource(r, q) ==
    /\ r.isMove /\ q.isMove
    /\ r.srcSession = q.srcSession
    /\ Norm[r.src] = Norm[q.src]

SelfTransfer(r) ==
    /\ r.srcSession = r.dstSession
    /\ \/ Norm[r.dst] = Norm[r.src]
       \/ <<Norm[r.dst], Norm[r.src]>> \in Below

(* Mutant: a running task is overlooked.                                   *)
DuplicateOfQueued(r) ==
    \E t \in list :
        status[t] = "Queued" /\ (SameDestination(r, req[t]) \/ SameMoveSource(r, req[t]))

Duplicate(r) ==
    \E t \in ActiveTasks : SameDestination(r, req[t]) \/ SameMoveSource(r, req[t])

(* Mutants: failed entries are dropped too; the new entry is not counted.  *)
PrunedAny(entries, st) ==
    LET prunable == {t \in entries : st[t] \in Finished}
    IN  {t \in entries : t \in prunable =>
           Cardinality({u \in prunable : u < t}) + MaxKept >= Cardinality(entries)}

PrunedLate(entries, st) ==
    LET prunable == {t \in entries : st[t] \in {"Completed", "Cancelled"}}
    IN  {t \in entries : t \in prunable =>
           Cardinality({u \in prunable : u < t}) + MaxKept + 1 >= Cardinality(entries)}

(* The oldest completed or cancelled entries beyond MaxKept go.            *)
Pruned(entries, st) ==
    LET prunable == {t \in entries : st[t] \in {"Completed", "Cancelled"}}
        rank(t)  == Cardinality({u \in prunable : u < t})
    IN  {t \in entries :
           t \in prunable => rank(t) + MaxKept >= Cardinality(entries)}

-----------------------------------------------------------------------------
(* Calls from the user interface.                                          *)

Enqueue(r) ==
    /\ next \in TaskId
    /\ LET rejected == SelfTransfer(r) \/ Duplicate(r)
       IN  /\ status' = [status EXCEPT ![next] = IF rejected THEN "Failed" ELSE "Queued"]
           /\ pc' = [pc EXCEPT ![next] = IF rejected THEN "done" ELSE "check"]
    /\ req' = [req EXCEPT ![next] = r]
    /\ list' = Pruned(list \cup {next}, status')
    /\ next' = next + 1
    /\ UNCHANGED <<paused, permits, waiters, outcome, connected>>

Pause ==
    /\ paused' = TRUE
    /\ UNCHANGED <<list, req, status, next, permits, waiters, pc, outcome, connected>>

Resume ==
    /\ paused' = FALSE
    /\ UNCHANGED <<list, req, status, next, permits, waiters, pc, outcome, connected>>

CancelTask(t) ==
    /\ t \in ActiveTasks
    /\ status' = [status EXCEPT ![t] = "Cancelled"]
    /\ UNCHANGED <<list, req, next, paused, permits, waiters, pc, outcome, connected>>

(* Mutant: only queued entries stay.                                       *)
ClearAllButQueued ==
    /\ list' = {t \in list : status[t] = "Queued"}
    /\ UNCHANGED <<req, status, next, paused, permits, waiters, pc, outcome, connected>>

ClearCompleted ==
    /\ list' = {t \in list : status[t] \notin Finished}
    /\ UNCHANGED <<req, status, next, paused, permits, waiters, pc, outcome, connected>>

(* Sessions come and go in the map the workers look them up in.            *)
Connect(s) ==
    /\ s \in Sessions \ connected
    /\ connected' = connected \cup {s}
    /\ UNCHANGED <<list, req, status, next, paused, permits, waiters, pc, outcome>>

Disconnect(s) ==
    /\ s \in connected
    /\ connected' = connected \ {s}
    /\ UNCHANGED <<list, req, status, next, paused, permits, waiters, pc, outcome>>

-----------------------------------------------------------------------------
(* The steps of the worker of task t.                                      *)

MoveTo(t, phase) == pc' = [pc EXCEPT ![t] = phase]

(* Mutant: the permit is not given back.                                   *)
LeaveWithPermit(t) == MoveTo(t, "done") /\ permits' = permits

(* The worker returns and drops its permit.                                *)
Leave(t) == MoveTo(t, "done") /\ permits' = permits + 1

CheckPaused(t) ==
    /\ pc[t] = "check"
    /\ MoveTo(t, IF paused THEN "asleep" ELSE "acquire")
    /\ UNCHANGED <<userVars, permits, waiters, outcome>>

(* Mutant: a paused worker gives up.                                       *)
LeaveWhenPaused(t) ==
    /\ pc[t] = "asleep"
    /\ MoveTo(t, "done")
    /\ UNCHANGED <<userVars, permits, waiters, outcome>>

(* Paused: leave if no longer queued, else sleep and look again.           *)
WakePaused(t) ==
    /\ pc[t] = "asleep"
    /\ MoveTo(t, IF TaskStatus(t) = "Queued" THEN "check" ELSE "done")
    /\ UNCHANGED <<userVars, permits, waiters, outcome>>

Acquire(t) ==
    /\ pc[t] = "acquire"
    /\ MoveTo(t, "waiting")
    /\ waiters' = Append(waiters, t)
    /\ UNCHANGED <<userVars, permits, outcome>>

(* Mutant: the number of permits is not looked at.                         *)
GrantedFreely(t) ==
    /\ pc[t] = "waiting"
    /\ waiters # <<>> /\ Head(waiters) = t
    /\ permits' = permits - 1
    /\ waiters' = Tail(waiters)
    /\ MoveTo(t, "mark")
    /\ UNCHANGED <<userVars, outcome>>

(* The tokio semaphore serves its waiters in order.                        *)
Granted(t) ==
    /\ pc[t] = "waiting"
    /\ waiters # <<>> /\ Head(waiters) = t
    /\ permits > 0
    /\ permits' = permits - 1
    /\ waiters' = Tail(waiters)
    /\ MoveTo(t, "mark")
    /\ UNCHANGED <<userVars, outcome>>

MarkInProgress(t) ==
    /\ pc[t] = "mark"
    /\ TaskStatus(t) = "Queued"
    /\ status' = [status EXCEPT ![t] = "InProgress"]
    /\ MoveTo(t, "lookup")
    /\ UNCHANGED <<list, req, next, paused, permits, waiters, outcome, connected>>

LeaveUnqueued(t) ==
    /\ pc[t] = "mark"
    /\ TaskStatus(t) # "Queued"
    /\ Leave(t)
    /\ UNCHANGED <<userVars, waiters, outcome>>

SessionsFound(t) == {req[t].srcSession, req[t].dstSession} \subseteq connected

StartJob(t) ==
    /\ pc[t] = "lookup"
    /\ SessionsFound(t)
    /\ MoveTo(t, "running")
    /\ UNCHANGED <<userVars, permits, waiters, outcome>>

SessionMissing(t) ==
    /\ pc[t] = "lookup"
    /\ ~SessionsFound(t)
    /\ outcome' = [outcome EXCEPT ![t] = "Failed"]
    /\ MoveTo(t, "finalizing")
    /\ UNCHANGED <<userVars, permits, waiters>>

(* Job::is_cancelled answers true: from here the job only cleans up.       *)
ObserveCancel(t) ==
    /\ pc[t] = "running"
    /\ TaskStatus(t) = "Cancelled"
    /\ MoveTo(t, "unwinding")
    /\ UNCHANGED <<userVars, permits, waiters, outcome>>

ReturnCancelled(t) ==
    /\ pc[t] = "unwinding"
    /\ outcome' = [outcome EXCEPT ![t] = "Cancelled"]
    /\ MoveTo(t, "finalizing")
    /\ UNCHANGED <<userVars, permits, waiters>>

Return(t, o) ==
    /\ pc[t] = "running"
    /\ outcome' = [outcome EXCEPT ![t] = o]
    /\ MoveTo(t, "finalizing")
    /\ UNCHANGED <<userVars, permits, waiters>>

(* Mutant: the outcome is written over a status the user has set.          *)
FinalizeAlways(t) ==
    /\ pc[t] = "finalizing"
    /\ status' = IF t \in list THEN [status EXCEPT ![t] = outcome[t]] ELSE status
    /\ outcome' = [outcome EXCEPT ![t] = "none"]
    /\ Leave(t)
    /\ UNCHANGED <<list, req, next, paused, waiters, connected>>

(* Write the final status, unless the user cancelled meanwhile.            *)
Finalize(t) ==
    /\ pc[t] = "finalizing"
    /\ status' = IF TaskStatus(t) = "InProgress"
                 THEN [status EXCEPT ![t] = outcome[t]]
                 ELSE status
    /\ outcome' = [outcome EXCEPT ![t] = "none"]
    /\ Leave(t)
    /\ UNCHANGED <<list, req, next, paused, waiters, connected>>

-----------------------------------------------------------------------------
UserStep ==
    \/ \E r \in Requests : Enqueue(r)
    \/ Pause
    \/ Resume
    \/ \E t \in TaskId : CancelTask(t)
    \/ ClearCompleted
    \/ \E s \in Sessions : Connect(s) \/ Disconnect(s)

(* What a worker does apart from running its job.                          *)
QueueStep(t) ==
    \/ CheckPaused(t)
    \/ WakePaused(t)
    \/ Acquire(t)
    \/ Granted(t)
    \/ MarkInProgress(t)
    \/ LeaveUnqueued(t)
    \/ SessionMissing(t)
    \/ Finalize(t)

JobStep(t) ==
    \/ StartJob(t)
    \/ ObserveCancel(t)
    \/ ReturnCancelled(t)
    \/ \E o \in {"Completed", "Failed"} : Return(t, o)

WorkerStep(t) == QueueStep(t) \/ JobStep(t)

Next == UserStep \/ \E t \in TaskId : WorkerStep(t)

Spec == Init /\ [][Next]_vars

(* tokio keeps scheduling every spawned worker, and every driver call of a *)
(* job returns in the end.  Nothing is assumed of the user.                *)
FairSpec == Spec /\ \A t \in TaskId : WF_vars(WorkerStep(t))

-----------------------------------------------------------------------------
(* Properties.                                                             *)

(* Every way out of a worker gives its permit back, and a task shown as    *)
(* running holds one: enqueue's early returns and the end of finalize.     *)
PermitsConserved ==
    permits + Cardinality({t \in TaskId : pc[t] \in WithPermit}) = MaxConcurrent

(* "instead of stranding the task as Queued": an entry that still says     *)
(* Queued or InProgress has a worker that will change it.                  *)
NoStrandedTask ==
    \A t \in ActiveTasks :
        pc[t] \in IF status[t] = "Queued"
                  THEN BeforePermit \cup {"mark"}
                  ELSE WithPermit \ {"mark"}

(* duplicate_rejection: no two unfinished entries share a destination, and *)
(* no two unfinished moves share a source, however their paths are spelt.  *)
DistinctActive ==
    \A t, u \in ActiveTasks :
        t # u => ~ SameDestination(req[t], req[u]) /\ ~ SameMoveSource(req[t], req[u])

(* The list, the workers and the permits fit together: the three above,   *)
(* and no permit is given that is not there.                               *)
QueueConsistent == TypeOK /\ PermitsConserved /\ NoStrandedTask /\ DistinctActive

(* Two jobs at work on one destination, or moving one source: then one of  *)
(* them was cancelled by the user and has not stopped yet.                 *)
ConflictNeedsCancel ==
    \A t, u \in TaskId :
        /\ t # u
        /\ pc[t] \in Working /\ pc[u] \in Working
        /\ SameDestination(req[t], req[u]) \/ SameMoveSource(req[t], req[u])
        => "Cancelled" \in {status[t], status[u]}

(* cancel_task and finalize: "Finished tasks keep their status"; what the  *)
(* job returns never replaces the user's Cancelled.                        *)
FinishedIsFinal ==
    [][\A t \in list : status[t] \in Finished => status'[t] = status[t]]_vars

(* clear_completed and prune_finished never drop an unfinished entry.      *)
UnfinishedKept == [][ActiveTasks \subseteq list']_vars

(* An entry of the list is what the user and the job made it: the two.     *)
ListIsKept == FinishedIsFinal /\ UnfinishedKept

(* prune_finished keeps failed entries for the user to see, drops no more  *)
(* than it must, and drops the oldest first.                               *)
PruneIsFrugal ==
    [][\A t \in list \ list' :
         next' # next =>
            /\ status[t] # "Failed"
            /\ Cardinality(list') >= MaxKept
            /\ \A u \in list' : u < t => status'[u] \notin {"Completed", "Cancelled"}]_vars

(* prune_finished: after an enqueue the list is within its limit, or holds *)
(* nothing that may be dropped.                                            *)
BoundedByEnqueue ==
    [][next' # next =>
         \/ Cardinality(list') <= MaxKept
         \/ \A t \in list' : status'[t] \notin {"Completed", "Cancelled"}]_vars

(* The list is pruned as far as it must be and no further: the two.        *)
PruneIsRight == PruneIsFrugal /\ BoundedByEnqueue

(* Unless the user pauses the queue for good, every task comes to an end.  *)
EveryTaskEnds ==
    <>[](~paused) => \A t \in TaskId : t \in ActiveTasks ~> t \notin ActiveTasks

-----------------------------------------------------------------------------
(* The inductive invariant behind the theorems of TransferQueueProofs.     *)

(* Ids are used in order: one that is still free has no entry, no worker.  *)
FreshIds ==
    \A t \in TaskId :
        IF t < next THEN req[t] \in Requests
        ELSE t \notin list /\ status[t] = "none" /\ pc[t] = "none"

(* Once marked, a task stays InProgress in the list until it is finalized, *)
(* unless the user cancels it.                                             *)
MarkedInProgress ==
    \A t \in TaskId :
        pc[t] \in WithPermit \ {"mark"} =>
            status[t] = "Cancelled" \/ (t \in list /\ status[t] = "InProgress")

IInv ==
    /\ TypeOK
    /\ FreshIds
    /\ PermitsConserved
    /\ NoStrandedTask
    /\ MarkedInProgress
    /\ DistinctActive

=============================================================================
