--------------------------- MODULE ContinuousSync ---------------------------
(***************************************************************************)
(* "Keep remote up to date": the watcher of                                *)
(* crates/rustscp-core/src/continuous_sync.rs and the task of              *)
(* start_continuous_sync that applies its events.  The user changes a      *)
(* local folder; the backend reports each change once, with hints; the     *)
(* debouncer waits until a path is quiet and reports what the disk holds   *)
(* then.  Time is abstract: any of the pending paths may be due.           *)
(***************************************************************************)
EXTENDS Naturals, Sequences, FiniteSets, SequencesExt

CONSTANTS
    Entry,      \* paths below the watched folder
    Above,      \* the folder each is in, or itself at the top
    LastChange, \* bound: changes the user makes
    MaxOutbox,  \* MAX_OUTBOX: events kept for a slow consumer
    DeleteRemote \* whether deletions are propagated

ASSUME SyncAssumption ==
    /\ Above \in [Entry -> Entry]
    /\ LastChange \in Nat /\ MaxOutbox \in Nat \ {0} /\ DeleteRemote \in BOOLEAN

Gone == 0               \* what a path holds: nothing, a folder,
Dir  == 1               \* or one version of a file, 2 and above
IsAFile(c) == c > Dir
Nowhere == {}
Within(p) == {q \in Entry : q # p /\ Above[q] = p}
Depth(p)  == IF Above[p] = p THEN 0 ELSE 1

VARIABLES
    local,      \* what the local folder holds
    remote,     \* what the server holds
    made,       \* history: paths created since the watch began
    changes,    \* history: how many changes the user made
    raw,        \* the channel of the notify callback
    pending,    \* Debouncer::pending: what is known of each path that waits
    known,      \* Debouncer::known
    outbox,     \* events on their way to the task that applies them
    lost,       \* history: an event was dropped, or could not be applied
    reused      \* history: a name came back before its disappearance was reported

syncVars == <<local, remote, made, changes, raw, pending, known, outbox, lost, reused>>

Hint(created, gone, renamed) == [created |-> created, gone |-> gone, renamed |-> renamed]
NoHint == Hint(FALSE, FALSE, FALSE)
Quiet  == [waits |-> FALSE, hint |-> NoHint, sig |-> Gone]

(* -------------------------- The user's changes --------------------------- *)
Report(events) == raw' = raw \o events
Event(p, hint) == <<[path |-> p, hint |-> hint]>>
UserDoes ==
    /\ changes < LastChange /\ changes' = changes + 1
    /\ UNCHANGED <<remote, pending, known, outbox, lost>>

InAFolder(p) == Above[p] = p \/ local[Above[p]] = Dir

(* A name that is used again before its disappearance was reported hides   *)
(* it: what a renamed folder had in it stays on the server, and a file     *)
(* deleted once more counts as one that never was there.                   *)
Unsettled(p) == pending[p].waits \/ \E i \in DOMAIN raw : raw[i].path = p

SaveFile(p) ==
    /\ local[p] # Dir /\ InAFolder(p)
    /\ local' = [local EXCEPT ![p] = changes + 2]
    /\ Report(Event(p, IF local[p] = Gone THEN Hint(TRUE, FALSE, FALSE) ELSE NoHint))
    /\ made' = IF local[p] = Gone THEN made \cup {p} ELSE made
    /\ reused' = (reused \/ (local[p] = Gone /\ p \notin known /\ Unsettled(p)))
    /\ UserDoes

MakeFolder(p) ==
    /\ local[p] = Gone /\ InAFolder(p)
    /\ local' = [local EXCEPT ![p] = Dir]
    /\ Report(Event(p, Hint(TRUE, FALSE, FALSE)))
    /\ made' = made \cup {p}
    /\ reused' = (reused \/ Unsettled(p))
    /\ UserDoes

(* FSEvents may still flag as created what was created since it watches.   *)
RemoveEntry(p) ==
    /\ local[p] # Gone
    /\ local' = [q \in Entry |-> IF q = p \/ q \in Within(p) THEN Gone ELSE local[q]]
    /\ \E stale \in {FALSE, (p \in made)} :
          Report(FoldSeq(LAMBDA q, s : s \o Event(q, Hint(FALSE, TRUE, FALSE)), <<>>,
                         SetToSeq({q \in Within(p) : local[q] # Gone}))
                 \o Event(p, Hint(stale, TRUE, FALSE)))
    /\ UserDoes /\ UNCHANGED <<made, reused>>

(* What is in a renamed folder goes with it and has no events of its own.  *)
(* The two names are reported together, or the new one without its kind.   *)
Moved(p, q) ==
    [x \in Entry |-> IF x = q THEN local[p] ELSE IF x = p THEN Gone ELSE local[x]]
MoveEntry(p, q) ==
    /\ p # q /\ local[p] # Gone /\ local[q] = Gone /\ Above[q] = q /\ Above[p] = p
    /\ \E twin \in [Within(p) -> Within(q)] :
          /\ \A x, y \in Within(p) : x # y => twin[x] # twin[y]
          /\ local' = [x \in Entry |->
                IF x \in Within(q) THEN (IF \E y \in Within(p) : twin[y] = x
                                         THEN local[CHOOSE y \in Within(p) : twin[y] = x] ELSE Gone)
                ELSE IF x \in Within(p) THEN Gone ELSE Moved(p, q)[x]]
    /\ \E any \in BOOLEAN :
          Report(Event(p, Hint(FALSE, TRUE, any)) \o Event(q, Hint(FALSE, any, TRUE)))
    /\ reused' = (reused \/ (local[p] = Dir /\ Unsettled(q)))
    /\ UserDoes /\ UNCHANGED made

(* ----------------------------- The debouncer ----------------------------- *)
Record ==
    /\ raw # <<>>
    /\ LET e == Head(raw)
           h == pending[e.path].hint
       IN  pending' = [pending EXCEPT ![e.path] =
               [waits |-> TRUE, sig |-> Gone,
                hint |-> Hint(h.created \/ e.hint.created, h.gone \/ e.hint.gone,
                              h.renamed \/ e.hint.renamed)]]
    /\ raw' = Tail(raw)
    /\ UNCHANGED <<local, remote, made, changes, known, outbox, lost, reused>>

Waiting == {p \in Entry : pending[p].waits}
AnyHint(p) == pending[p].hint # NoHint

(* A file has settled when it did not change between two looks, or after   *)
(* MAX_PENDING.                                                            *)
Settled(p, overdue) == local[p] = pending[p].sig \/ overdue

(* Mutant: what was created and is gone again is never reported.           *)
ForgetKnown(p) == local[p] = Gone /\ ~(pending[p].hint.created /\ ~pending[p].hint.renamed)
GoneForGood(p) ==
    local[p] = Gone /\ ~(pending[p].hint.created /\ ~pending[p].hint.renamed /\ p \notin known)

Changed  == [p \in Entry |-> [path |-> p, kind |-> "changed", dir |-> local[p] = Dir]]
Vanished == [p \in Entry |-> [path |-> p, kind |-> "removed", dir |-> FALSE]]
InOrder(S) == SetToSortSeq(S, LAMBDA p, q : Depth(p) < Depth(q))
Events(S, what) == [i \in 1..Cardinality(S) |-> what[InOrder(S)[i]]]

(* Folders before the files in them, removals last, and no removal below   *)
(* another.                                                                *)
Poll(due, overdue) ==
    LET dirs    == {p \in due : local[p] = Dir /\ AnyHint(p)}
        walked  == UNION {Within(p) : p \in dirs}
        folders == dirs \cup {p \in walked : local[p] = Dir}
        files   == {p \in due : IsAFile(local[p]) /\ Settled(p, overdue)}
                   \cup {p \in walked : IsAFile(local[p])}
        again   == {p \in due : IsAFile(local[p]) /\ ~Settled(p, overdue)}
        gone    == {p \in due : GoneForGood(p)}
        tops    == {p \in gone : Above[p] = p \/ Above[p] \notin gone}
        out     == outbox \o Events(folders, Changed) \o Events(files, Changed)
                          \o Events(tops, Vanished)
        excess  == IF Len(out) > MaxOutbox THEN Len(out) - MaxOutbox ELSE 0
    IN  /\ pending' = [p \in Entry |->
                IF p \in again THEN [pending[p] EXCEPT !.sig = local[p]]
                ELSE IF p \in due THEN Quiet ELSE pending[p]]
        /\ known' = (known \cup folders \cup files) \ tops
        /\ outbox' = SubSeq(out, excess + 1, Len(out))
        /\ lost' = (lost \/ excess > 0)

PollDue ==
    /\ \E due \in SUBSET Waiting \ {{}}, overdue \in BOOLEAN : Poll(due, overdue)
    /\ UNCHANGED <<local, remote, made, changes, raw, reused>>

(* ----------------------- apply_continuous_sync_event --------------------- *)
HasParent(p) == Above[p] = p \/ remote[Above[p]] = Dir
WithParent(p) ==        \* the parent folder is made and the upload tried again
    IF HasParent(p) THEN remote
    ELSE IF remote[Above[p]] = Gone THEN [remote EXCEPT ![Above[p]] = Dir] ELSE remote
Takes(p) == remote[p] # Dir /\ (Above[p] = p \/ ~IsAFile(remote[Above[p]]))

Apply ==
    /\ outbox # <<>>
    /\ LET e == Head(outbox)
           p == e.path
       IN  \/ /\ e.kind = "removed"
              /\ remote' = IF ~DeleteRemote THEN remote
                           ELSE [q \in Entry |-> IF q = p \/ q \in Within(p) THEN Gone ELSE remote[q]]
              /\ UNCHANGED lost
           \/ /\ e.kind = "changed" /\ e.dir
              /\ LET made1 == ~IsAFile(remote[p]) /\ HasParent(p)
                 IN  /\ remote' = IF made1 THEN [remote EXCEPT ![p] = Dir] ELSE remote
                     /\ lost' = (lost \/ ~made1)
           \/ /\ e.kind = "changed" /\ ~e.dir
              /\ IF IsAFile(local[p]) /\ Takes(p)
                 THEN remote' = [WithParent(p) EXCEPT ![p] = local[p]] /\ UNCHANGED lost
                 ELSE /\ remote' = WithParent(p)    \* the file has gone, or is in the way
                      /\ lost' = (lost \/ IsAFile(local[p]))
    /\ outbox' = Tail(outbox)
    /\ UNCHANGED <<local, made, changes, raw, pending, known, reused>>

ApplyFails ==           \* the error is logged and the event is gone
    /\ outbox # <<>> /\ outbox' = Tail(outbox) /\ lost' = TRUE
    /\ UNCHANGED <<local, remote, made, changes, raw, pending, known, reused>>

SyncInit ==
    /\ local \in [Entry -> {Gone, Dir, 2}]
    /\ \A p \in Entry : /\ local[p] # Gone => InAFolder(p)
                        /\ local[p] = Dir <=> Within(p) # Nowhere
    /\ remote = local
    /\ made = {} /\ changes = 1 /\ raw = <<>>
    /\ pending = [p \in Entry |-> Quiet]
    /\ known = {} /\ outbox = <<>> /\ lost = FALSE /\ reused = FALSE

SyncNext ==
    \/ \E p \in Entry : SaveFile(p) \/ MakeFolder(p) \/ RemoveEntry(p)
    \/ \E p, q \in Entry : MoveEntry(p, q)
    \/ Record \/ PollDue \/ Apply \/ ApplyFails

SyncSpec == SyncInit /\ [][SyncNext]_syncVars

(* ------------------------------ Properties ------------------------------ *)
(* When the user has stopped and every event has been worked off, each     *)
(* local file is on the server as it is here, each local folder is there,  *)
(* and no deleted file is left where deletions are propagated - unless an  *)
(* event was dropped or could not be applied, which is only logged, or a   *)
(* name was reused too soon.                                               *)
WorkedOff == raw = <<>> /\ Waiting = {} /\ outbox = <<>> /\ ~lost
PresentAreInStep == \A p \in Entry : local[p] # Gone => remote[p] = local[p]
DeletedAreGone == DeleteRemote => \A p \in Entry : local[p] = Gone => ~IsAFile(remote[p])
QuietMeansInStep == WorkedOff /\ ~reused => PresentAreInStep /\ DeletedAreGone
=============================================================================
