------------------------- MODULE TransferQueueProofs -------------------------
(***************************************************************************)
(* Theorems about TransferQueue, for any number of tasks, sessions, paths, *)
(* requests and permits.  IInv is inductive; the invariants the runs check *)
(* are its conjuncts or follow from it, and so do the action properties:   *)
(* those of pruning by counting the entries that may go.  The last part    *)
(* is about TransferSystem, for any files and faults: with the steps of    *)
(* real jobs the queue behaves as with abstract ones, so that what is      *)
(* proved of TransferQueue holds of the two together.                      *)
(***************************************************************************)
EXTENDS TransferSystem, FiniteSetTheorems, WellFoundedInduction, TLAPS

(* The tasks whose worker holds a permit.                                  *)
Holders == {t \in TaskId : pc[t] \in WithPermit}

(* Sharing a destination, or a move source, is symmetric.                  *)
LEMMA ConflictSymmetric ==
    ASSUME NEW r, NEW q
    PROVE  /\ SameDestination(r, q) <=> SameDestination(q, r)
           /\ SameMoveSource(r, q) <=> SameMoveSource(q, r)
  BY DEF SameDestination, SameMoveSource

(* prune_finished only drops completed and cancelled entries.              *)
LEMMA PrunedKeeps ==
    ASSUME NEW entries, NEW st
    PROVE  /\ Pruned(entries, st) \subseteq entries
           /\ \A t \in entries :
                st[t] \notin {"Completed", "Cancelled"} => t \in Pruned(entries, st)
  BY DEF Pruned

(* There are finitely many workers, so the holders can be counted.         *)
LEMMA HoldersFinite ==
    /\ IsFiniteSet(Holders)
    /\ Cardinality(Holders) \in Nat
  <1>1. IsFiniteSet(TaskId)
    BY FS_Interval, QueueAssumption DEF TaskId, QueueAssumption
  <1>2. Holders \subseteq TaskId
    BY DEF Holders
  <1> QED
    BY <1>1, <1>2, FS_Subset, FS_CardinalityType

(* A worker that gets a permit, gives it back, or does neither.            *)
LEMMA HoldersChange ==
    ASSUME TypeOK, PermitsConserved, NEW t \in TaskId,
           \A u \in TaskId \ {t} : pc'[u] \in WithPermit <=> pc[u] \in WithPermit,
           \/ pc[t] \in WithPermit /\ pc'[t] \notin WithPermit /\ permits' = permits + 1
           \/ pc[t] \notin WithPermit /\ pc'[t] \in WithPermit /\ permits' = permits - 1
           \/ (pc[t] \in WithPermit <=> pc'[t] \in WithPermit) /\ permits' = permits
    PROVE  PermitsConserved'
  <1> USE HoldersFinite
  <1>0. permits + Cardinality(Holders) = MaxConcurrent /\ permits \in Nat
    BY QueueAssumption DEF PermitsConserved, Holders, TypeOK, QueueAssumption
  <1>1. CASE pc[t] \in WithPermit /\ pc'[t] \notin WithPermit /\ permits' = permits + 1
    <2>1. Holders' = Holders \ {t} /\ t \in Holders
      BY <1>1 DEF Holders
    <2>2. Cardinality(Holders') = Cardinality(Holders) - 1
      BY <2>1, FS_RemoveElement
    <2> QED
      BY <1>0, <1>1, <2>2 DEF PermitsConserved, Holders
  <1>2. CASE pc[t] \notin WithPermit /\ pc'[t] \in WithPermit /\ permits' = permits - 1
    <2>1. Holders' = Holders \cup {t} /\ t \notin Holders
      BY <1>2 DEF Holders
    <2>2. Cardinality(Holders') = Cardinality(Holders) + 1
      BY <2>1, FS_AddElement
    <2> QED
      BY <1>0, <1>2, <2>2 DEF PermitsConserved, Holders
  <1>3. CASE (pc[t] \in WithPermit <=> pc'[t] \in WithPermit) /\ permits' = permits
    <2>1. Holders' = Holders
      BY <1>3 DEF Holders
    <2> QED
      BY <1>0, <1>3, <2>1 DEF PermitsConserved, Holders
  <1> QED
    BY <1>1, <1>2, <1>3

(* Conservation bounds the free permits.                                   *)
LEMMA PermitsBound ==
    ASSUME PermitsConserved', permits' \in Nat
    PROVE  permits' \in 0..MaxConcurrent
  <1>1. IsFiniteSet(TaskId)
    BY FS_Interval, QueueAssumption DEF TaskId, QueueAssumption
  <1>2. Holders' \subseteq TaskId
    BY DEF Holders
  <1>3. Cardinality(Holders') \in Nat
    BY <1>1, <1>2, FS_Subset, FS_CardinalityType
  <1>4. permits' + Cardinality(Holders') = MaxConcurrent
    BY DEF PermitsConserved, Holders
  <1> QED
    BY <1>3, <1>4, QueueAssumption DEF QueueAssumption

-----------------------------------------------------------------------------
(* IInv is inductive.                                                      *)

(* The empty queue satisfies the invariant.                                *)
LEMMA InitIInv == Init => IInv
  <1> SUFFICES ASSUME Init PROVE IInv
    OBVIOUS
  <1> USE QueueAssumption DEF QueueAssumption, Init, TaskId
  <1>1. TypeOK
    <2>1. waiters \in Seq(TaskId) /\ next \in 1..(MaxTasks + 1) /\ permits \in 0..MaxConcurrent
      OBVIOUS
    <2>2. list \subseteq TaskId /\ paused \in BOOLEAN /\ connected \subseteq Sessions
      OBVIOUS
    <2>3. /\ req \in [TaskId -> Requests \cup {NoRequest}]
          /\ status \in [TaskId -> Active \cup Finished \cup {"none"}]
          /\ pc \in [TaskId -> Phase]
          /\ outcome \in [TaskId -> Finished \cup {"none"}]
      BY DEF Phase
    <2> QED
      BY <2>1, <2>2, <2>3 DEF TypeOK
  <1>2. FreshIds /\ NoStrandedTask /\ MarkedInProgress /\ DistinctActive
    BY DEF FreshIds, NoStrandedTask, MarkedInProgress, DistinctActive, ActiveTasks, WithPermit
  <1>3. PermitsConserved
    <2>1. {t \in TaskId : pc[t] \in WithPermit} = {}
      BY DEF WithPermit
    <2>2. Cardinality({}) = 0
      BY FS_EmptySet
    <2>3. permits + 0 = MaxConcurrent
      OBVIOUS
    <2> QED
      BY <2>1, <2>2, <2>3 DEF PermitsConserved
  <1> QED
    BY <1>1, <1>2, <1>3 DEF IInv

(* An entry becomes active only by its enqueue, so calls and steps that    *)
(* queue nothing cannot bring two active entries into conflict.            *)
LEMMA DistinctKept ==
    ASSUME DistinctActive, UNCHANGED req, ActiveTasks' \subseteq ActiveTasks
    PROVE  DistinctActive'
  BY DEF DistinctActive, SameDestination, SameMoveSource

(* enqueue: its checks under the lock are what keeps active entries apart. *)
LEMMA EnqueueStep ==
    ASSUME IInv, NEW r \in Requests, Enqueue(r)
    PROVE  IInv'
  <1> DEFINE rejected == SelfTransfer(r) \/ Duplicate(r)
  <1> USE QueueAssumption DEF QueueAssumption
  <1>0. TypeOK /\ FreshIds /\ PermitsConserved /\ NoStrandedTask
        /\ MarkedInProgress /\ DistinctActive
    BY DEF IInv
  <1>1. /\ next \in TaskId /\ next' = next + 1
        /\ status' = [status EXCEPT ![next] = IF rejected THEN "Failed" ELSE "Queued"]
        /\ pc' = [pc EXCEPT ![next] = IF rejected THEN "done" ELSE "check"]
        /\ req' = [req EXCEPT ![next] = r]
        /\ UNCHANGED <<paused, permits, waiters, outcome, connected>>
    BY DEF Enqueue
  <1>2. list' \subseteq list \cup {next}
    BY PrunedKeeps DEF Enqueue
  <1>3. pc[next] = "none" /\ next \notin list
    BY <1>0, <1>1 DEF FreshIds, TypeOK, TaskId
  <1>4. TypeOK'
    <2>1. status' \in [TaskId -> {"none"} \cup Active \cup Finished]
      BY <1>0, <1>1 DEF TypeOK, Active, Finished
    <2>2. pc' \in [TaskId -> Phase] /\ req' \in [TaskId -> Requests \cup {NoRequest}]
      BY <1>0, <1>1 DEF TypeOK, Phase
    <2> QED
      BY <1>0, <1>1, <1>2, <2>1, <2>2 DEF TypeOK, TaskId
  <1>5. FreshIds'
    BY <1>0, <1>1, <1>2 DEF FreshIds, TypeOK, TaskId
  <1>6. PermitsConserved'
    <2>1. \A u \in TaskId \ {next} : pc'[u] \in WithPermit <=> pc[u] \in WithPermit
      BY <1>0, <1>1 DEF TypeOK
    <2>2. pc[next] \notin WithPermit /\ pc'[next] \notin WithPermit
      BY <1>0, <1>1, <1>3 DEF TypeOK, WithPermit
    <2> QED
      BY <1>0, <1>1, <2>1, <2>2, HoldersChange
  <1>7. \A t \in ActiveTasks' : t # next => t \in ActiveTasks /\ status'[t] = status[t]
    BY <1>0, <1>1, <1>2 DEF ActiveTasks, TypeOK
  <1>8. NoStrandedTask'
    BY <1>0, <1>1, <1>7 DEF NoStrandedTask, ActiveTasks, TypeOK, BeforePermit, Active
  <1>9. MarkedInProgress'
    <2> SUFFICES ASSUME NEW t \in TaskId, pc'[t] \in WithPermit \ {"mark"}
                 PROVE  status'[t] = "Cancelled" \/ (t \in list' /\ status'[t] = "InProgress")
      BY DEF MarkedInProgress
    <2>1. t # next
      BY <1>0, <1>1 DEF TypeOK, WithPermit
    <2>2. status[t] = "Cancelled" \/ (t \in list /\ status[t] = "InProgress")
      BY <1>0, <1>1, <2>1 DEF MarkedInProgress, TypeOK
    <2>3. t \in list /\ status'[t] = "InProgress" => t \in list'
      BY PrunedKeeps DEF Enqueue
    <2> QED
      BY <1>0, <1>1, <2>1, <2>2, <2>3 DEF TypeOK
  <1>10. DistinctActive'
    <2> SUFFICES ASSUME NEW t \in ActiveTasks', NEW u \in ActiveTasks', t # u
                 PROVE  ~ SameDestination(req'[t], req'[u]) /\ ~ SameMoveSource(req'[t], req'[u])
      BY DEF DistinctActive, SameDestination, SameMoveSource
    <2>0. t \in TaskId /\ u \in TaskId
      BY <1>4 DEF ActiveTasks, TypeOK
    <2>1. CASE t # next /\ u # next
      BY <1>0, <1>1, <1>7, <2>0, <2>1 DEF DistinctActive, TypeOK
    <2>2. ASSUME NEW v \in ActiveTasks', v # next, next \in ActiveTasks'
          PROVE  ~ SameDestination(r, req[v]) /\ ~ SameMoveSource(r, req[v])
      <3>1. ~ Duplicate(r)
        BY <1>0, <1>1, <2>2 DEF ActiveTasks, Active, TypeOK
      <3> QED
        BY <1>7, <2>2, <3>1 DEF Duplicate
    <2>3. req'[next] = r /\ \A v \in TaskId \ {next} : req'[v] = req[v]
      BY <1>0, <1>1 DEF TypeOK
    <2> QED
      BY <2>0, <2>1, <2>2, <2>3, ConflictSymmetric
  <1> QED
    BY <1>4, <1>5, <1>6, <1>8, <1>9, <1>10 DEF IInv

(* pause, resume and the session map.                                      *)
LEMMA SettingsStep ==
    ASSUME IInv, paused' \in BOOLEAN, connected' \subseteq Sessions,
           UNCHANGED <<list, req, status, next, permits, waiters, pc, outcome>>
    PROVE  IInv'
  <1>1. TypeOK'
    BY DEF IInv, TypeOK
  <1>2. FreshIds' /\ MarkedInProgress' /\ NoStrandedTask' /\ PermitsConserved'
    BY DEF IInv, FreshIds, MarkedInProgress, NoStrandedTask, PermitsConserved, ActiveTasks
  <1>3. DistinctActive'
    BY DistinctKept DEF IInv, ActiveTasks
  <1> QED
    BY <1>1, <1>2, <1>3 DEF IInv

(* cancel_task: an entry that stops being active needs no worker.          *)
LEMMA CancelTaskStep ==
    ASSUME IInv, NEW t \in TaskId, CancelTask(t)
    PROVE  IInv'
  <1> USE DEF CancelTask
  <1>0. TypeOK /\ FreshIds /\ PermitsConserved /\ NoStrandedTask
        /\ MarkedInProgress /\ DistinctActive
    BY DEF IInv
  <1>1. TypeOK'
    BY <1>0 DEF TypeOK, Finished
  <1>2. FreshIds' /\ MarkedInProgress' /\ PermitsConserved'
    BY <1>0 DEF FreshIds, MarkedInProgress, PermitsConserved, TypeOK, ActiveTasks
  <1>3. ActiveTasks' = ActiveTasks \ {t} /\ \A u \in ActiveTasks' : status'[u] = status[u]
    BY <1>0 DEF ActiveTasks, TypeOK, Active
  <1>4. NoStrandedTask'
    BY <1>0, <1>3 DEF NoStrandedTask
  <1>5. DistinctActive'
    BY <1>0, <1>3, DistinctKept
  <1> QED
    BY <1>1, <1>2, <1>4, <1>5 DEF IInv

(* clear_completed: only finished entries go.                              *)
LEMMA ClearCompletedStep ==
    ASSUME IInv, ClearCompleted
    PROVE  IInv'
  <1> USE DEF ClearCompleted
  <1>0. TypeOK /\ FreshIds /\ PermitsConserved /\ NoStrandedTask
        /\ MarkedInProgress /\ DistinctActive
    BY DEF IInv
  <1>1. TypeOK'
    BY <1>0 DEF TypeOK
  <1>2. FreshIds' /\ PermitsConserved'
    BY <1>0 DEF FreshIds, PermitsConserved
  <1>3. MarkedInProgress'
    BY <1>0 DEF MarkedInProgress, Finished
  <1>4. ActiveTasks' \subseteq ActiveTasks
    BY DEF ActiveTasks
  <1>5. NoStrandedTask'
    BY <1>0, <1>4 DEF NoStrandedTask
  <1>6. DistinctActive'
    BY <1>0, <1>4, DistinctKept
  <1> QED
    BY <1>1, <1>2, <1>3, <1>5, <1>6 DEF IInv

(* What every step of the worker of t has in common.                       *)
LEMMA WorkerOnly ==
    ASSUME IInv, NEW t \in TaskId, t < next, NEW phase \in Phase,
           MoveTo(t, phase), UNCHANGED <<list, req, next>>,
           status' \in [TaskId -> Active \cup Finished \cup {"none"}],
           \A u \in TaskId \ {t} : status'[u] = status[u]
    PROVE  /\ pc' \in [TaskId -> Phase]
           /\ pc'[t] = phase
           /\ \A u \in TaskId \ {t} : pc'[u] = pc[u]
           /\ FreshIds'
  <1>1. pc' \in [TaskId -> Phase] /\ pc'[t] = phase /\ \A u \in TaskId \ {t} : pc'[u] = pc[u]
    BY DEF IInv, TypeOK, MoveTo
  <1>2. FreshIds'
    BY <1>1 DEF IInv, FreshIds
  <1> QED
    BY <1>1, <1>2

(* A spawned worker belongs to an id that was used.                        *)
LEMMA WasSpawned ==
    ASSUME IInv, NEW t \in TaskId, pc[t] # "none"
    PROVE  t < next
  BY DEF IInv, FreshIds

(* Steps between the phases without a permit, and to its end.              *)
LEMMA PhaseStep ==
    ASSUME IInv, NEW t \in TaskId, NEW phase \in Phase, pc[t] # "none",
           MoveTo(t, phase), UNCHANGED <<list, req, next, status, paused, connected>>,
           outcome' \in [TaskId -> Finished \cup {"none"}],
           waiters' \in Seq(TaskId),
           \/ pc[t] \in WithPermit /\ phase \notin WithPermit /\ permits' = permits + 1
           \/ pc[t] \notin WithPermit /\ phase \in WithPermit /\ permits' = permits - 1 /\ permits > 0
           \/ (pc[t] \in WithPermit <=> phase \in WithPermit) /\ permits' = permits,
           phase \in WithPermit \ {"mark"} => pc[t] \in WithPermit \ {"mark"}
                \/ (t \in list /\ status[t] = "InProgress"),
           t \in list /\ status[t] = "Queued" => phase \in BeforePermit \cup {"mark"},
           t \in list /\ status[t] = "InProgress" => phase \in WithPermit \ {"mark"}
    PROVE  IInv'
  <1> USE QueueAssumption DEF QueueAssumption
  <1>0. TypeOK /\ FreshIds /\ PermitsConserved /\ NoStrandedTask
        /\ MarkedInProgress /\ DistinctActive
    BY DEF IInv
  <1>1. /\ pc' \in [TaskId -> Phase]
        /\ pc'[t] = phase
        /\ \A u \in TaskId \ {t} : pc'[u] = pc[u]
        /\ FreshIds'
    BY <1>0, WasSpawned, WorkerOnly DEF TypeOK
  <1>2. PermitsConserved'
    BY <1>0, <1>1, HoldersChange
  <1>3. permits' \in 0..MaxConcurrent
    <2>1. permits' \in Nat
      BY <1>0 DEF TypeOK
    <2> QED
      BY <1>2, <2>1, PermitsBound
  <1>4. TypeOK'
    BY <1>0, <1>1, <1>3 DEF TypeOK
  <1>5. NoStrandedTask'
    BY <1>0, <1>1 DEF NoStrandedTask, ActiveTasks, Active, TypeOK
  <1>6. MarkedInProgress'
    BY <1>0, <1>1 DEF MarkedInProgress
  <1>7. DistinctActive'
    BY <1>0, DistinctKept DEF ActiveTasks
  <1> QED
    BY <1>1, <1>2, <1>4, <1>5, <1>6, <1>7 DEF IInv

(* Marking a task InProgress: its worker already holds a permit.           *)
LEMMA MarkStep ==
    ASSUME IInv, NEW t \in TaskId, MarkInProgress(t)
    PROVE  IInv'
  <1> USE DEF MarkInProgress
  <1>0. /\ TypeOK /\ FreshIds /\ PermitsConserved /\ NoStrandedTask
        /\ MarkedInProgress /\ DistinctActive
        /\ t \in list /\ status[t] = "Queued" /\ pc[t] = "mark"
    BY DEF IInv, TaskStatus
  <1>1. /\ pc' \in [TaskId -> Phase]
        /\ pc'[t] = "lookup"
        /\ \A u \in TaskId \ {t} : pc'[u] = pc[u]
        /\ FreshIds'
    <2>1. status' \in [TaskId -> Active \cup Finished \cup {"none"}]
          /\ \A u \in TaskId \ {t} : status'[u] = status[u]
      BY <1>0 DEF TypeOK, Active
    <2>2. "lookup" \in Phase /\ t < next
      BY <1>0, WasSpawned DEF Phase
    <2> QED
      BY <2>1, <2>2, WorkerOnly
  <1>2. status'[t] = "InProgress" /\ \A u \in TaskId \ {t} : status'[u] = status[u]
    BY <1>0 DEF TypeOK
  <1>3. PermitsConserved'
    BY <1>0, <1>1, HoldersChange DEF WithPermit
  <1>4. TypeOK'
    BY <1>0, <1>1 DEF TypeOK, Active
  <1>5. ActiveTasks' \subseteq ActiveTasks
    BY <1>0, <1>2, <1>4 DEF ActiveTasks, TypeOK, Active
  <1>6. NoStrandedTask'
    BY <1>0, <1>1, <1>2, <1>4, <1>5 DEF NoStrandedTask, ActiveTasks, TypeOK, WithPermit
  <1>7. MarkedInProgress'
    BY <1>0, <1>1, <1>2 DEF MarkedInProgress
  <1>8. DistinctActive'
    BY <1>0, <1>5, DistinctKept
  <1> QED
    BY <1>1, <1>3, <1>4, <1>6, <1>7, <1>8 DEF IInv

(* finalize: the entry stops being active as the permit is given back.     *)
LEMMA FinalizeStep ==
    ASSUME IInv, NEW t \in TaskId, Finalize(t)
    PROVE  IInv'
  <1> USE DEF Finalize
  <1>0. /\ TypeOK /\ FreshIds /\ PermitsConserved /\ NoStrandedTask
        /\ MarkedInProgress /\ DistinctActive /\ pc[t] = "finalizing"
    BY DEF IInv
  <1>1. /\ status' \in [TaskId -> Active \cup Finished \cup {"none"}]
        /\ status'[t] = IF t \in list /\ status[t] = "InProgress" THEN outcome[t] ELSE status[t]
        /\ \A u \in TaskId \ {t} : status'[u] = status[u]
    <2>1. CASE TaskStatus(t) = "InProgress"
      BY <1>0, <2>1 DEF TypeOK, TaskStatus
    <2>2. CASE TaskStatus(t) # "InProgress"
      BY <1>0, <2>2 DEF TypeOK, TaskStatus
    <2> QED
      BY <2>1, <2>2
  <1>2. /\ pc' \in [TaskId -> Phase]
        /\ pc'[t] = "done"
        /\ \A u \in TaskId \ {t} : pc'[u] = pc[u]
        /\ FreshIds'
    <2>1. "done" \in Phase /\ t < next /\ MoveTo(t, "done")
      BY <1>0, WasSpawned DEF Phase, Leave
    <2> QED
      BY <1>1, <2>1, WorkerOnly
  <1>3. PermitsConserved'
    BY <1>0, <1>2, HoldersChange DEF WithPermit, Leave
  <1>4. TypeOK'
    <2>1. permits' \in 0..MaxConcurrent
      <3>1. permits' \in Nat
        BY <1>0, QueueAssumption DEF TypeOK, Leave, QueueAssumption
      <3> QED
        BY <1>3, <3>1, PermitsBound
    <2>2. outcome' \in [TaskId -> Finished \cup {"none"}]
      BY <1>0 DEF TypeOK
    <2> QED
      BY <1>0, <1>1, <1>2, <2>1, <2>2 DEF TypeOK
  <1>5. t \notin ActiveTasks' /\ ActiveTasks' \subseteq ActiveTasks
    <2>1. t \in list => status[t] # "Queued"
      BY <1>0 DEF NoStrandedTask, ActiveTasks, Active, BeforePermit
    <2>2. outcome[t] \notin Active
      BY <1>0 DEF TypeOK, Active, Finished
    <2> QED
      BY <1>0, <1>1, <2>1, <2>2 DEF ActiveTasks, Active, TypeOK
  <1>6. NoStrandedTask'
    BY <1>0, <1>1, <1>2, <1>5 DEF NoStrandedTask, ActiveTasks, TypeOK
  <1>7. MarkedInProgress'
    BY <1>0, <1>1, <1>2 DEF MarkedInProgress, WithPermit
  <1>8. DistinctActive'
    BY <1>0, <1>5, DistinctKept
  <1> QED
    BY <1>2, <1>3, <1>4, <1>6, <1>7, <1>8 DEF IInv

(* Every step of a worker preserves the invariant.                         *)
LEMMA WorkerStepInvariant ==
    ASSUME IInv, NEW t \in TaskId, WorkerStep(t)
    PROVE  IInv'
  <1>0. TypeOK /\ NoStrandedTask /\ MarkedInProgress
    BY DEF IInv
  <1> USE <1>0, PhaseStep DEF TypeOK, Phase, BeforePermit, WithPermit, userVars
  <1>1. CASE CheckPaused(t)
    BY <1>1 DEF CheckPaused, NoStrandedTask, ActiveTasks, Active
  <1>2. CASE WakePaused(t)
    BY <1>2 DEF WakePaused, NoStrandedTask, ActiveTasks, Active, TaskStatus
  <1>3. CASE Acquire(t)
    BY <1>3 DEF Acquire, NoStrandedTask, ActiveTasks, Active
  <1>4. CASE Granted(t)
    BY <1>4 DEF Granted, NoStrandedTask, ActiveTasks, Active
  <1>5. CASE MarkInProgress(t)
    BY <1>5, MarkStep
  <1>6. CASE LeaveUnqueued(t)
    BY <1>6 DEF LeaveUnqueued, Leave, NoStrandedTask, ActiveTasks, Active, TaskStatus
  <1>7. CASE SessionMissing(t)
    BY <1>7 DEF SessionMissing, NoStrandedTask, ActiveTasks, Active, Finished
  <1>8. CASE Finalize(t)
    BY <1>8, FinalizeStep
  <1>9. CASE StartJob(t)
    BY <1>9 DEF StartJob, NoStrandedTask, ActiveTasks, Active
  <1>10. CASE ObserveCancel(t)
    BY <1>10 DEF ObserveCancel, NoStrandedTask, ActiveTasks, Active
  <1>11. CASE ReturnCancelled(t)
    BY <1>11 DEF ReturnCancelled, NoStrandedTask, ActiveTasks, Active, Finished
  <1>12. ASSUME NEW o \in {"Completed", "Failed"}, Return(t, o)
         PROVE  IInv'
    BY <1>12 DEF Return, NoStrandedTask, ActiveTasks, Active, Finished
  <1> QED
    BY <1>1, <1>2, <1>3, <1>4, <1>5, <1>6, <1>7, <1>8, <1>9, <1>10, <1>11, <1>12
       DEF WorkerStep, QueueStep, JobStep

(* Every call from the user interface preserves the invariant.             *)
LEMMA UserStepInvariant ==
    ASSUME IInv, UserStep
    PROVE  IInv'
  <1>0. paused \in BOOLEAN /\ connected \subseteq Sessions
    BY DEF IInv, TypeOK
  <1>1. ASSUME NEW r \in Requests, Enqueue(r)
        PROVE  IInv'
    BY <1>1, EnqueueStep
  <1>2. CASE Pause
    BY <1>0, <1>2, SettingsStep DEF Pause
  <1>3. CASE Resume
    BY <1>0, <1>3, SettingsStep DEF Resume
  <1>4. ASSUME NEW t \in TaskId, CancelTask(t)
        PROVE  IInv'
    BY <1>4, CancelTaskStep
  <1>5. CASE ClearCompleted
    BY <1>5, ClearCompletedStep
  <1>6. ASSUME NEW s \in Sessions, Connect(s)
        PROVE  IInv'
    BY <1>0, <1>6, SettingsStep DEF Connect
  <1>7. ASSUME NEW s \in Sessions, Disconnect(s)
        PROVE  IInv'
    BY <1>0, <1>7, SettingsStep DEF Disconnect
  <1> QED
    BY <1>1, <1>2, <1>3, <1>4, <1>5, <1>6, <1>7 DEF UserStep

(* Every step preserves the invariant.                                     *)
LEMMA InvariantStep == IInv /\ [Next]_vars => IInv'
  <1> SUFFICES ASSUME IInv, [Next]_vars PROVE IInv'
    OBVIOUS
  <1>1. CASE UserStep
    BY <1>1, UserStepInvariant
  <1>2. ASSUME NEW t \in TaskId, WorkerStep(t)
        PROVE  IInv'
    BY <1>2, WorkerStepInvariant
  <1>3. CASE UNCHANGED vars
    <2>1. paused' \in BOOLEAN /\ connected' \subseteq Sessions
      BY <1>3 DEF IInv, TypeOK, vars
    <2> QED
      BY <1>3, <2>1, SettingsStep DEF vars
  <1> QED
    BY <1>1, <1>2, <1>3 DEF Next

(* The invariant from which the other theorems follow.                     *)
THEOREM Inductive == Spec => []IInv
  BY InitIInv, InvariantStep, PTL DEF Spec

-----------------------------------------------------------------------------
(* The properties the runs check, for every value of the constants.        *)

(* Every variable keeps its type; in particular no permit is lost for good *)
(* or invented.                                                            *)
THEOREM TypeCorrect == Spec => []TypeOK
  BY Inductive, PTL DEF IInv

(* Every way out of a worker gives its permit back.                        *)
THEOREM PermitsAreConserved == Spec => []PermitsConserved
  BY Inductive, PTL DEF IInv

(* No entry says Queued or InProgress without a worker to change it.       *)
THEOREM NoTaskIsStranded == Spec => []NoStrandedTask
  BY Inductive, PTL DEF IInv

(* No two unfinished entries share a destination or a move source.         *)
THEOREM ActiveTasksAreDistinct == Spec => []DistinctActive
  BY Inductive, PTL DEF IInv

(* Two jobs get in each other's way only after one of them was cancelled:  *)
(* otherwise both would be InProgress in the list, against DistinctActive. *)
THEOREM ConflictsComeFromCancel == Spec => []ConflictNeedsCancel
  <1>1. IInv => ConflictNeedsCancel
    <2> SUFFICES ASSUME IInv,
                        NEW t \in TaskId, NEW u \in TaskId, t # u,
                        pc[t] \in Working, pc[u] \in Working,
                        SameDestination(req[t], req[u]) \/ SameMoveSource(req[t], req[u]),
                        status[t] # "Cancelled", status[u] # "Cancelled"
                 PROVE  FALSE
      BY DEF ConflictNeedsCancel
    <2>1. {pc[t], pc[u]} \subseteq WithPermit \ {"mark"}
      BY DEF Working, WithPermit
    <2>2. t \in ActiveTasks /\ u \in ActiveTasks
      BY <2>1 DEF IInv, MarkedInProgress, ActiveTasks, Active
    <2> QED
      BY <2>2 DEF IInv, DistinctActive
  <1> QED
    BY Inductive, <1>1, PTL

(* What a finished entry says never changes.                               *)
THEOREM FinishedStaysFinal == Spec => FinishedIsFinal
  <1>1. IInv /\ [Next]_vars =>
          [\A t \in list : status[t] \in Finished => status'[t] = status[t]]_vars
    <2> SUFFICES ASSUME IInv, Next, NEW t \in list, status[t] \in Finished
                 PROVE  status'[t] = status[t]
      BY DEF vars
    <2>0. /\ t \in TaskId
          /\ status \in [TaskId -> Active \cup Finished \cup {"none"}]
          /\ next \in TaskId => t # next
      BY DEF IInv, TypeOK, FreshIds
    <2>1. CASE UserStep
      BY <2>0, <2>1 DEF UserStep, Enqueue, Pause, Resume, CancelTask, ClearCompleted,
         Connect, Disconnect, ActiveTasks, Active, Finished
    <2>2. ASSUME NEW u \in TaskId, QueueStep(u)
          PROVE  status'[t] = status[t]
      BY <2>0, <2>2 DEF QueueStep, CheckPaused, WakePaused, Acquire, Granted, MarkInProgress,
         LeaveUnqueued, SessionMissing, Finalize, TaskStatus, userVars, Finished
    <2>3. ASSUME NEW u \in TaskId, JobStep(u)
          PROVE  status'[t] = status[t]
      BY <2>3 DEF JobStep, StartJob, ObserveCancel, ReturnCancelled, Return, userVars
    <2> QED
      BY <2>1, <2>2, <2>3 DEF Next, WorkerStep
  <1> QED
    BY Inductive, <1>1, PTL DEF Spec, FinishedIsFinal

(* An unfinished entry is neither cleared nor pruned.                      *)
THEOREM UnfinishedStays == Spec => UnfinishedKept
  <1>1. IInv /\ [Next]_vars => [ActiveTasks \subseteq list']_vars
    <2> SUFFICES ASSUME IInv, Next, NEW t \in ActiveTasks
                 PROVE  t \in list'
      BY DEF vars
    <2>0. /\ t \in TaskId /\ t \in list /\ status[t] \in Active
          /\ status \in [TaskId -> Active \cup Finished \cup {"none"}]
          /\ next \in TaskId => t # next
      BY DEF IInv, TypeOK, FreshIds, ActiveTasks
    <2>1. ASSUME NEW r \in Requests, Enqueue(r)
          PROVE  t \in list'
      <3>1. status'[t] \notin {"Completed", "Cancelled"}
        BY <2>0, <2>1 DEF Enqueue, Active
      <3> QED
        BY <2>0, <2>1, <3>1, PrunedKeeps DEF Enqueue
    <2>2. CASE UserStep /\ ~ \E r \in Requests : Enqueue(r)
      BY <2>0, <2>2 DEF UserStep, Pause, Resume, CancelTask, ClearCompleted,
         Connect, Disconnect, Active, Finished
    <2>3. ASSUME NEW u \in TaskId, QueueStep(u)
          PROVE  t \in list'
      BY <2>0, <2>3 DEF QueueStep, CheckPaused, WakePaused, Acquire, Granted, MarkInProgress,
         LeaveUnqueued, SessionMissing, Finalize, userVars
    <2>4. ASSUME NEW u \in TaskId, JobStep(u)
          PROVE  t \in list'
      BY <2>0, <2>4 DEF JobStep, StartJob, ObserveCancel, ReturnCancelled, Return, userVars
    <2> QED
      BY <2>1, <2>2, <2>3, <2>4 DEF Next, WorkerStep
  <1> QED
    BY Inductive, <1>1, PTL DEF Spec, UnfinishedKept

(* Permits, workers and entries fit together at every moment.              *)
THEOREM QueueIsConsistent == Spec => []QueueConsistent
  BY TypeCorrect, PermitsAreConserved, NoTaskIsStranded, ActiveTasksAreDistinct, PTL
     DEF QueueConsistent

(* No step changes a finished entry or drops an unfinished one.            *)
THEOREM ListStaysKept == Spec => ListIsKept
  BY FinishedStaysFinal, UnfinishedStays DEF ListIsKept

-----------------------------------------------------------------------------
(* How many entries prune_finished drops.                                  *)

LEMMA LeastTask ==
    ASSUME NEW T \in SUBSET TaskId, T # {}
    PROVE  \E m \in T : \A n \in T : m <= n
  <1> DEFINE Less == OpToRel(<, Nat)
  <1>1. T \subseteq Nat
    BY DEF TaskId
  <1>2. PICK m \in T : \A n \in T : ~ (<<n, m>> \in Less)
    BY <1>1, NatLessThanWellFounded, WFMin
  <1>3. ASSUME NEW n \in T PROVE m <= n
    <2>1. ~ (<<n, m>> \in Less) /\ n \in Nat /\ m \in Nat
      BY <1>1, <1>2
    <2> QED
      BY <2>1 DEF OpToRel
  <1> QED
    BY <1>3

LEMMA LatestTask ==
    ASSUME NEW T \in SUBSET TaskId, T # {}
    PROVE  \E m \in T : \A n \in T : n <= m
  <1> DEFINE U == {MaxTasks + 1 - n : n \in T}
  <1>1. MaxTasks \in Nat /\ \A n \in T : n \in 1..MaxTasks
    BY QueueAssumption DEF QueueAssumption, TaskId
  <1>2. U \in SUBSET TaskId /\ U # {}
    <2>1. ASSUME NEW n \in T PROVE MaxTasks + 1 - n \in 1..MaxTasks
      BY <1>1
    <2> QED
      BY <2>1 DEF TaskId
  <1>3. PICK k \in U : \A n \in U : k <= n
    BY <1>2, LeastTask
  <1>4. PICK m \in T : k = MaxTasks + 1 - m
    OBVIOUS
  <1>5. ASSUME NEW n \in T PROVE n <= m
    <2>1. MaxTasks + 1 - m <= MaxTasks + 1 - n
      BY <1>3, <1>4
    <2> QED
      BY <1>1, <2>1
  <1> QED
    BY <1>5

(* The entries of one kind that are older than t.                          *)
Older(T, t) == {u \in T : u < t}

LEMMA TasksAreFinite ==
    ASSUME NEW T \in SUBSET TaskId
    PROVE  IsFiniteSet(T) /\ Cardinality(T) \in Nat
  <1>1. IsFiniteSet(TaskId)
    BY FS_Interval, QueueAssumption DEF TaskId, QueueAssumption
  <1> QED
    BY <1>1, FS_Subset, FS_CardinalityType

LEMMA PruneCounts ==
    ASSUME NEW entries \in SUBSET TaskId, NEW st,
           NEW old, old = {t \in entries : st[t] \in {"Completed", "Cancelled"}},
           NEW kept, kept = Pruned(entries, st)
    PROVE  /\ \A t \in entries \ kept :
                 /\ t \in old /\ Cardinality(kept) >= MaxKept
                 /\ \A u \in kept : u < t => u \notin old
           /\ Cardinality(kept) <= MaxKept \/ kept \cap old = {}
  <1> DEFINE gone == entries \ kept
             n    == Cardinality(entries)
  <1>1. /\ old \subseteq entries /\ MaxKept \in Nat
        /\ kept = {t \in entries : t \in old => Cardinality(Older(old, t)) + MaxKept >= n}
    BY QueueAssumption DEF Pruned, Older, QueueAssumption
  <1>2. /\ kept \in SUBSET TaskId /\ gone \in SUBSET TaskId /\ old \in SUBSET TaskId
        /\ \A t : Older(old, t) \in SUBSET TaskId /\ Older(old, t) \subseteq old
    BY <1>1 DEF Older
  <1>3. /\ n \in Nat /\ Cardinality(kept) \in Nat /\ Cardinality(gone) \in Nat
        /\ \A t : IsFiniteSet(Older(old, t)) /\ Cardinality(Older(old, t)) \in Nat
        /\ IsFiniteSet(gone) /\ IsFiniteSet(entries) /\ IsFiniteSet(kept)
    BY <1>2, TasksAreFinite
  <1>4. Cardinality(gone) = n - Cardinality(kept)
    <2>1. kept \subseteq entries /\ entries \cap kept = kept
      BY <1>1
    <2>2. Cardinality(entries \ kept) = Cardinality(entries) - Cardinality(entries \cap kept)
      BY <1>3, FS_Difference
    <2> QED
      BY <2>1, <2>2
  <1>5. \A t \in gone : t \in old /\ Cardinality(Older(old, t)) + MaxKept < n
    BY <1>1, <1>3
  <1>6. ASSUME NEW t \in gone PROVE Cardinality(kept) >= MaxKept
    <2>1. PICK m \in gone : \A u \in gone : u <= m
      BY <1>2, LatestTask
    <2>2. gone \subseteq Older(old, m) \cup {m}
      <3>1. ASSUME NEW u \in gone PROVE u \in Older(old, m) \cup {m}
        <4>1. u \in old /\ u <= m /\ u \in 1..MaxTasks /\ m \in 1..MaxTasks
          BY <1>2, <1>5, <2>1 DEF TaskId
        <4>2. u = m \/ u < m
          BY <4>1
        <4> QED
          BY <4>1, <4>2 DEF Older
      <3> QED
        BY <3>1
    <2>3. m \notin Older(old, m)
      BY <1>2, <2>1 DEF Older, TaskId
    <2>4. IsFiniteSet(Older(old, m) \cup {m}) /\ Cardinality(Older(old, m) \cup {m}) = Cardinality(Older(old, m)) + 1
      BY <1>3, <2>3, FS_AddElement
    <2>5. Cardinality(gone) <= Cardinality(Older(old, m)) + 1
      <3>1. Cardinality(gone) <= Cardinality(Older(old, m) \cup {m})
        BY <2>2, <2>4, FS_Subset
      <3> QED
        BY <2>4, <3>1
    <2> QED
      BY <1>1, <1>3, <1>4, <1>5, <2>5
  <1>7. ASSUME NEW t \in gone, NEW u \in kept, u < t PROVE u \notin old
    <2>1. t \in Nat /\ u \in Nat
      BY <1>2 DEF TaskId
    <2>2. Older(old, u) \subseteq Older(old, t)
      BY <1>2, <1>7, <2>1 DEF Older, TaskId
    <2>3. Cardinality(Older(old, u)) <= Cardinality(Older(old, t))
      BY <1>3, <2>2, FS_Subset
    <2> QED
      BY <1>1, <1>3, <1>5, <2>3
  <1>8. CASE kept \cap old # {}
    <2>1. PICK p \in kept \cap old : \A u \in kept \cap old : p <= u
      <3>1. kept \cap old \in SUBSET TaskId
        BY <1>2
      <3> QED
        BY <1>8, <3>1, LeastTask
    <2>2. Older(old, p) \subseteq gone
      <3>1. ASSUME NEW u \in Older(old, p) PROVE u \in gone
        <4>1. u \in old /\ u < p /\ u \in Nat /\ p \in Nat
          BY <1>2, <2>1 DEF Older, TaskId
        <4>2. u \notin kept
          BY <2>1, <4>1
        <4> QED
          BY <1>1, <4>1, <4>2
      <3> QED
        BY <3>1
    <2>3. Cardinality(Older(old, p)) <= Cardinality(gone)
      BY <1>3, <2>2, FS_Subset
    <2>4. Cardinality(Older(old, p)) + MaxKept >= n
      BY <1>1, <2>1
    <2> QED
      BY <1>1, <1>3, <1>4, <1>5, <1>6, <1>7, <2>3, <2>4
  <1> QED
    BY <1>5, <1>6, <1>7, <1>8

(* prune_finished drops completed and cancelled entries only, the oldest   *)
(* first and no more than it must, and leaves no more than it may.         *)
THEOREM PrunesRight == Spec => PruneIsRight
  <1> DEFINE Frugal  == \A t \in list \ list' :
                            next' # next =>
                               /\ status[t] # "Failed"
                               /\ Cardinality(list') >= MaxKept
                               /\ \A u \in list' : u < t => status'[u] \notin {"Completed", "Cancelled"}
             Bounded == next' # next =>
                            \/ Cardinality(list') <= MaxKept
                            \/ \A t \in list' : status'[t] \notin {"Completed", "Cancelled"}
  <1>1. IInv /\ [Next]_vars => [Frugal]_vars /\ [Bounded]_vars
    <2> SUFFICES ASSUME IInv, Next PROVE Frugal /\ Bounded
      BY DEF vars
    <2>1. ASSUME NEW r \in Requests, Enqueue(r) PROVE Frugal /\ Bounded
      <3> DEFINE entries == list \cup {next}
                 old     == {t \in entries : status'[t] \in {"Completed", "Cancelled"}}
      <3>1. /\ entries \in SUBSET TaskId /\ list' = Pruned(entries, status') /\ next \in TaskId /\ next \notin list
            /\ status \in [TaskId -> Active \cup Finished \cup {"none"}]
            /\ \A t \in TaskId \ {next} : status'[t] = status[t]
        <4>1. next \in TaskId /\ next \in Nat
          BY <2>1 DEF Enqueue, TaskId
        <4> QED
          BY <2>1, <4>1 DEF Enqueue, IInv, TypeOK, FreshIds
      <3>2. /\ \A t \in entries \ list' :
                   /\ t \in old /\ Cardinality(list') >= MaxKept
                   /\ \A u \in list' : u < t => u \notin old
            /\ Cardinality(list') <= MaxKept \/ list' \cap old = {}
        <4> HIDE DEF entries, old
        <4>1. old = {t \in entries : status'[t] \in {"Completed", "Cancelled"}}
          BY DEF old
        <4>2. PICK st, kept : st = status' /\ kept = list'
          OBVIOUS
        <4>3. old = {t \in entries : st[t] \in {"Completed", "Cancelled"}} /\ kept = Pruned(entries, st)
          BY <3>1, <4>1, <4>2
        <4>4. /\ \A t \in entries \ kept :
                     /\ t \in old /\ Cardinality(kept) >= MaxKept
                     /\ \A u \in kept : u < t => u \notin old
              /\ Cardinality(kept) <= MaxKept \/ kept \cap old = {}
          BY <3>1, <4>3, PruneCounts
        <4> QED
          BY <4>2, <4>4
      <3>3. list' \subseteq entries
        BY <3>1, PrunedKeeps
      <3>4. Bounded
        BY <3>2, <3>3
      <3>5. ASSUME NEW t \in list \ list'
            PROVE  /\ status[t] # "Failed"
                   /\ Cardinality(list') >= MaxKept
                   /\ \A u \in list' : u < t => status'[u] \notin {"Completed", "Cancelled"}
        BY <3>1, <3>2, <3>3
      <3> QED
        BY <3>4, <3>5
    <2>2. CASE UserStep /\ ~ \E r \in Requests : Enqueue(r)
      BY <2>2 DEF UserStep, Pause, Resume, CancelTask, ClearCompleted, Connect, Disconnect
    <2>3. ASSUME NEW u \in TaskId, QueueStep(u) PROVE next' = next
      BY <2>3 DEF QueueStep, CheckPaused, WakePaused, Acquire, Granted, MarkInProgress,
         LeaveUnqueued, SessionMissing, Finalize, userVars
    <2>4. ASSUME NEW u \in TaskId, JobStep(u) PROVE next' = next
      BY <2>4 DEF JobStep, StartJob, ObserveCancel, ReturnCancelled, Return, userVars
    <2> QED
      BY <2>1, <2>2, <2>3, <2>4 DEF Next, WorkerStep
  <1> QED
    BY Inductive, <1>1, PTL DEF Spec, PruneIsRight, PruneIsFrugal, BoundedByEnqueue

-----------------------------------------------------------------------------
(* The queue with the jobs of TransferJob implements the abstract queue.   *)

(* All that the queue needs to know of the fields of a job.                *)
JobsShaped == DOMAIN job = TaskId /\ \A t \in TaskId : {"at", "result"} \subseteq DOMAIN job[t]
Over == {"discard", "end"}

(* What a step of the job of t does to its result: nothing, or it is the   *)
(* end, and Cancelled only if the list says so.                            *)
ResultStep(t) ==
    \/ job'[t].result = job[t].result /\ job[t].at \notin Over /\ job'[t].at \notin Over
    \/ job'[t].result = job[t].result /\ job[t].at = "discard" /\ job'[t].at = "end"
    \/ /\ job[t].at \notin Over /\ job'[t].at \in Over
       /\ \/ job'[t].result \in {"Completed", "Failed"}
          \/ job'[t].result = "Cancelled" /\ TaskStatus(t) = "Cancelled"
OnlyJob(t) == JobsShaped' /\ ResultStep(t) /\ \A u \in TaskId \ {t} : job'[u] = job[u]

(* The ways a driver call moves its job on, starts a stage or ends it.     *)
LEMMA GoIs ==
    ASSUME JobsShaped, NEW t \in TaskId, NEW step, J!Go(t, step)
    PROVE  /\ JobsShaped' /\ \A u \in TaskId \ {t} : job'[u] = job[u]
           /\ job'[t].at = step /\ job'[t].result = job[t].result
  BY DEF JobsShaped, J!Go

LEMMA BeginIs ==
    ASSUME JobsShaped, NEW t \in TaskId, NEW step, NEW stage, J!Begin(t, step, stage)
    PROVE  /\ JobsShaped' /\ \A u \in TaskId \ {t} : job'[u] = job[u]
           /\ job'[t].at = step /\ job'[t].result = job[t].result
  BY DEF JobsShaped, J!Begin

LEMMA StopIs ==
    ASSUME JobsShaped, NEW t \in TaskId, NEW r, J!Stop(t, r) \/ J!StopAndDiscard(t, r) \/ J!StopOwned(t, r)
    PROVE  /\ JobsShaped' /\ \A u \in TaskId \ {t} : job'[u] = job[u]
           /\ job'[t].at \in Over /\ job'[t].result = r
  BY DEF JobsShaped, J!Stop, J!StopAndDiscard, J!StopOwned, Over

(* Every driver call is one of these.                                      *)
LEMMA DriverResult ==
    ASSUME JobsShaped, NEW t \in TaskId, J!DriverStep(t)
    PROVE  OnlyJob(t)
  <1> DEFINE cancelled == [u \in TaskId |-> TaskStatus(u) = "Cancelled"]
  <1>c. cancelled[t] = (TaskStatus(t) = "Cancelled")
    OBVIOUS
  <1> USE DEF OnlyJob, ResultStep, Over, J!At
  <1>1. CASE J!Stat(t)
    <2>1. CASE J!Stop(t, "Failed")
      BY <1>1, <2>1, StopIs DEF J!Stat
    <2>2. CASE job' = [job EXCEPT ![t].at = J!AfterStat(t), ![t].size = Len(fs[J!Src(t)])]
      BY <1>1, <2>2 DEF J!Stat, J!AfterStat, JobsShaped
    <2> QED
      BY <1>1, <2>1, <2>2 DEF J!Stat
  <1>2. CASE J!ServerRename(t) \/ J!NoShell(t) \/ J!ShellCheck(t)
    BY <1>2, StopIs, GoIs DEF J!ServerRename, J!NoShell, J!ShellCheck
  <1>3. CASE J!ServerCommand(t)
    <2>1. CASE job' = [job EXCEPT ![t].at = "end", ![t].result = "Failed", ![t].remote = TRUE]
      BY <1>3, <2>1 DEF J!ServerCommand, JobsShaped
    <2>2. CASE J!Stop(t, "Failed") \/ J!Go(t, "shellCheck") \/ J!Go(t, "destStat")
      BY <1>3, <2>2, StopIs, GoIs DEF J!ServerCommand
    <2> QED
      BY <1>3, <2>1, <2>2 DEF J!ServerCommand
  <1>4. CASE J!CopyWhole(t) \/ J!DestMissing(t) \/ J!CreateTemp(t)
    BY <1>4, StopIs, BeginIs DEF J!CopyWhole, J!DestMissing, J!CreateTemp
  <1>5. CASE J!GuardInPlace(t) \/ J!Probe(t)
    BY <1>5, StopIs, GoIs DEF J!GuardInPlace, J!Probe
  <1>6. CASE J!Commit(t) \/ J!CommitAgain(t) \/ J!LookForOld(t) \/ J!UnlinkOld(t)
    BY <1>6, BeginIs, GoIs DEF J!Commit, J!CommitAgain, J!RenameTemp, J!LookForOld, J!UnlinkOld
  <1>7. CASE J!DropTemp(t) \/ J!ReadFails(t)
    BY <1>7, StopIs, GoIs DEF J!DropTemp, J!ReadFails
  <1>8. CASE J!CopyBlock(t)
    <2>1. PICK blocks \in J!ReadBlocks(t) : J!Advance(t, Len(blocks)) \/ J!StopOwned(t, "Failed")
      BY <1>8 DEF J!CopyBlock
    <2>2. CASE J!Advance(t, Len(blocks))
      BY <1>8, <2>2 DEF J!CopyBlock, J!Advance, JobsShaped
    <2> QED
      BY <1>8, <2>1, <2>2, StopIs DEF J!CopyBlock
  <1>9. CASE J!Finish(t) \/ J!Verify(t)
    BY <1>9, StopIs, GoIs DEF J!Finish, J!Verify, J!AfterVerify
  <1>10. CASE J!CollectFails(t) \/ J!WholeProbe(t) \/ J!WholePut(t)
    BY <1>10, StopIs, GoIs DEF J!CollectFails, J!WholeProbe, J!WholePut
  <1>11. CASE J!CollectBlock(t)
    <2>1. PICK blocks \in J!ReadBlocks(t) :
              job' = [job EXCEPT ![t].at = "loop", ![t].off = @ + Len(blocks), ![t].buf = @ \o blocks]
      BY <1>11 DEF J!CollectBlock
    <2> QED
      BY <1>11, <2>1 DEF J!CollectBlock, JobsShaped
  <1>12. CASE J!MoveStat(t) \/ J!UnlinkSource(t)
    BY <1>12, StopIs, GoIs DEF J!MoveStat, J!UnlinkSource
  <1>13. CASE J!Discard(t)
    BY <1>13, GoIs DEF J!Discard
  <1>14. ASSUME J!PreCommit(t) \/ J!Loop(t) \/ J!WholeLoop(t) \/ J!WholeCancelled(t) \/ J!Copied(t)
         PROVE  OnlyJob(t)
    <2>1. CASE cancelled[t]
      <3>1. TaskStatus(t) = "Cancelled"
        BY <2>1, <1>c, Zenon
      <3>2. \/ \E step \in {"finish", "wholeWrite"} : J!Go(t, step)
            \/ \E r \in {"Completed", "Failed", "Cancelled"} :
                  J!Stop(t, r) \/ J!StopAndDiscard(t, r) \/ J!StopOwned(t, r)
        BY <1>14, <2>1, SMT DEF J!PreCommit, J!Loop, J!WholeLoop, J!WholeCancelled, J!Copied
      <3> QED
        BY <1>14, <3>1, <3>2, StopIs, GoIs DEF J!PreCommit, J!Loop, J!WholeLoop, J!WholeCancelled, J!Copied
    <2>2. CASE ~ cancelled[t]
      <3>1. \/ \E step \in {"commit", "block", "finish", "wholeWrite", "wholePut", "moveStat"} : J!Go(t, step)
            \/ \E r \in {"Completed", "Failed"} :
                  J!Stop(t, r) \/ J!StopAndDiscard(t, r) \/ J!StopOwned(t, r)
        BY <1>14, <2>2, SMT DEF J!PreCommit, J!Loop, J!WholeLoop, J!WholeCancelled, J!Copied
      <3> QED
        BY <1>14, <3>1, StopIs, GoIs DEF J!PreCommit, J!Loop, J!WholeLoop, J!WholeCancelled, J!Copied
    <2> QED
      BY <2>1, <2>2
  <1> QED
    BY <1>1, <1>2, <1>3, <1>4, <1>5, <1>6, <1>7, <1>8, <1>9, <1>10, <1>11, <1>12, <1>13, <1>14 DEF J!DriverStep

(* What a worker and its job know of each other: a job is finished only at *)
(* its end, it has not begun before its worker holds a permit and found    *)
(* the sessions, and it is cancelled as long as its worker unwinds.        *)
BeforeJob == {"none", "mark", "lookup"} \cup BeforePermit
Fits(t) ==
    /\ IF job[t].at \in Over THEN job[t].result \in Finished ELSE job[t].result = "none"
    /\ pc[t] \in BeforeJob => job[t].result = "none"
    /\ pc[t] = "running" => job[t].result # "Cancelled"
    /\ pc[t] = "unwinding" => job[t].result = "Cancelled"
JobsFit == JobsShaped /\ \A t \in TaskId : Fits(t)
SInv == IInv /\ JobsFit

(* A worker that moves on while its job stays as it is.                    *)
LEMMA WorkerMoves ==
    ASSUME SInv, NEW t \in TaskId, NEW p, MoveTo(t, p), UNCHANGED job,
           p # "unwinding", p \in BeforeJob \cup {"running"} => pc[t] \in BeforeJob
    PROVE  JobsFit'
  BY DEF SInv, IInv, TypeOK, Finished, JobsFit, JobsShaped, Fits, MoveTo, BeforeJob, BeforePermit, Over

(* A step of the system is a step of the abstract queue, or one of a job   *)
(* that the queue does not see; and it keeps the invariant.                *)
LEMMA SystemStep ==
    ASSUME SInv, [SystemNext]_sysVars
    PROVE  [Next]_vars /\ JobsFit'
  <1>0. pc \in [TaskId -> Phase] /\ JobsShaped /\ (\A t \in TaskId : Fits(t)) /\ JobsFit
    BY DEF SInv, IInv, TypeOK, JobsFit
  <1>1. ASSUME UNCHANGED pc, UNCHANGED job
        PROVE  JobsFit'
    BY <1>0, <1>1 DEF JobsFit, JobsShaped, Fits
  <1>2. CASE UNCHANGED sysVars
    BY <1>1, <1>2 DEF sysVars, vars
  <1>3. CASE UserStep /\ UNCHANGED <<fs, job>>
    <2>1. CASE \E r \in Requests : Enqueue(r)
      <3>1. next \in TaskId /\ pc[next] = "none" /\ (MoveTo(next, "done") \/ MoveTo(next, "check"))
        <4>1. next \in TaskId /\ (MoveTo(next, "done") \/ MoveTo(next, "check"))
          BY <2>1 DEF Enqueue, MoveTo
        <4>2. ~ next < next
          BY <4>1 DEF TaskId
        <4> QED
          BY <4>1, <4>2 DEF SInv, IInv, FreshIds
      <3> QED
        BY <1>3, <3>1, WorkerMoves DEF BeforeJob, BeforePermit, Next
    <2>2. CASE ~ \E r \in Requests : Enqueue(r)
      BY <1>1, <1>3, <2>2 DEF UserStep, Pause, Resume, CancelTask, ClearCompleted, Connect, Disconnect, Next
    <2> QED
      BY <2>1, <2>2
  <1>4. ASSUME NEW t \in TaskId, (QueueStep(t) \/ StartJob(t)) /\ UNCHANGED <<fs, job>>
        PROVE  [Next]_vars /\ JobsFit'
    <2>1. Next
      BY <1>4 DEF Next, WorkerStep, JobStep
    <2>2. PICK p : /\ MoveTo(t, p)
                   /\ p # "unwinding"
                   /\ p \in BeforeJob \cup {"running"} => pc[t] \in BeforeJob
      BY <1>4 DEF QueueStep, StartJob, CheckPaused, WakePaused, Acquire, Granted, MarkInProgress,
                  LeaveUnqueued, SessionMissing, Finalize, Leave, BeforeJob, BeforePermit
    <2> QED
      BY <1>4, <2>1, <2>2, WorkerMoves
  <1>5. ASSUME NEW t \in TaskId, JobRuns(t)
        PROVE  [Next]_vars /\ JobsFit'
    <2>0. pc[t] \in {"running", "unwinding"} /\ UNCHANGED <<userVars, permits, waiters, outcome>>
      BY <1>5 DEF JobRuns, Working
    <2>1. OnlyJob(t)
      BY <1>0, <1>5, DriverResult DEF JobRuns
    <2>2. CASE job'[t].result = "Cancelled" /\ pc[t] = "running"
      <3>1. TaskStatus(t) = "Cancelled" /\ job'[t].at \in Over
        BY <1>0, <2>1, <2>2 DEF OnlyJob, ResultStep, Fits
      <3>2. MoveTo(t, "unwinding")
        BY <1>5, <2>2 DEF JobRuns
      <3>3. ObserveCancel(t)
        BY <2>0, <2>2, <3>1, <3>2 DEF ObserveCancel
      <3>4. JobsFit'
        BY <1>0, <2>1, <2>2, <3>1, <3>2
           DEF JobsFit, OnlyJob, Fits, MoveTo, Finished, BeforeJob, BeforePermit
      <3> QED
        BY <3>3, <3>4 DEF Next, WorkerStep, JobStep
    <2>3. CASE ~ (job'[t].result = "Cancelled" /\ pc[t] = "running")
      <3>1. /\ pc[t] = "unwinding" <=> job'[t].result = "Cancelled"
            /\ IF job'[t].at \in Over THEN job'[t].result \in Finished ELSE job'[t].result = "none"
        BY <1>0, <2>0, <2>1, <2>3 DEF OnlyJob, ResultStep, Fits, Over, Finished
      <3>2. UNCHANGED pc
        BY <1>0, <1>5, <2>0, <3>1 DEF JobRuns, MoveTo
      <3>3. JobsFit'
        BY <1>0, <2>0, <2>1, <3>1, <3>2 DEF JobsFit, OnlyJob, Fits, BeforeJob, BeforePermit
      <3> QED
        BY <2>0, <3>2, <3>3 DEF vars, userVars
    <2> QED
      BY <2>2, <2>3
  <1>6. ASSUME NEW t \in TaskId, JobReturns(t)
        PROVE  [Next]_vars /\ JobsFit'
    <2>1. job[t].result \in Finished /\ pc[t] \in {"running", "unwinding"}
      BY <1>0, <1>6 DEF JobReturns, J!Ended, J!At, Fits, Over, Working
    <2>2. JobsFit'
      BY <1>6, WorkerMoves DEF JobReturns, BeforeJob, BeforePermit
    <2>3. CASE pc[t] = "running"
      <3>1. job[t].result \in {"Completed", "Failed"}
        BY <1>0, <2>1, <2>3 DEF Fits, Finished
      <3>2. Return(t, job[t].result)
        BY <1>6, <2>3 DEF JobReturns, Return
      <3> QED
        BY <2>2, <3>1, <3>2 DEF Next, WorkerStep, JobStep
    <2>4. CASE pc[t] = "unwinding"
      <3>1. ReturnCancelled(t)
        BY <1>0, <1>6, <2>4 DEF JobReturns, ReturnCancelled, Fits
      <3> QED
        BY <2>2, <3>1 DEF Next, WorkerStep, JobStep
    <2> QED
      BY <2>1, <2>3, <2>4
  <1>7. ASSUME NEW t \in TaskId, CommandRunsOn(t)
        PROVE  [Next]_vars /\ JobsFit'
    <2>1. JobsShaped' /\ \A u \in TaskId : job'[u].at = job[u].at /\ job'[u].result = job[u].result
      BY <1>0, <1>7 DEF CommandRunsOn, J!CommandRunsOn, JobsShaped
    <2> QED
      BY <1>0, <1>7, <2>1 DEF CommandRunsOn, JobsFit, Fits, vars
  <1> QED
    BY <1>2, <1>3, <1>4, <1>5, <1>6, <1>7 DEF SystemNext, SystemWorker

(* The invariant of the system, and with it every step is a queue step.    *)
LEMMA SystemInductive == SystemSpec => []SInv /\ Spec
  <1>1. SystemInit => SInv /\ Init
    <2> SUFFICES ASSUME SystemInit PROVE SInv /\ Init
      OBVIOUS
    <2>1. Init /\ IInv
      BY InitIInv DEF SystemInit
    <2>2. JobsFit
      BY <2>1 DEF SystemInit, Init, J!NewJob, JobsFit, JobsShaped, Fits, Over, BeforeJob
    <2> QED
      BY <2>1, <2>2 DEF SInv
  <1>2. IInv /\ [Next]_vars => IInv'
    BY InvariantStep
  <1>3. SInv /\ [SystemNext]_sysVars => SInv' /\ [Next]_vars
    BY <1>2, SystemStep DEF SInv
  <1> QED
    BY <1>1, <1>3, PTL DEF SystemSpec, Spec

-----------------------------------------------------------------------------
(* The queue that runs the jobs of TransferJob behaves as the abstract one *)
(* says: a job gives up only when its entry says Cancelled, ends with a    *)
(* result, and touches nothing of the queue.                               *)
THEOREM SystemImplementsQueue == SystemSpec => Spec
  BY SystemInductive, PTL

(* So what is proved of the queue with abstract jobs holds of the whole.   *)
THEOREM SystemIsConsistent == SystemSpec => []QueueConsistent
  BY SystemImplementsQueue, QueueIsConsistent, PTL

THEOREM SystemKeepsItsList == SystemSpec => ListIsKept /\ PruneIsRight
  BY SystemImplementsQueue, ListStaysKept, PrunesRight, PTL

THEOREM SystemConflictsComeFromCancel == SystemSpec => []ConflictNeedsCancel
  BY SystemImplementsQueue, ConflictsComeFromCancel, PTL

=============================================================================
