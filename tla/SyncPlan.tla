------------------------------ MODULE SyncPlan ------------------------------
(***************************************************************************)
(* Synchronizing two folders (sync.rs): listings, the plan made from sizes *)
(* and times, the comparison of contents within a budget, and the run of   *)
(* the plan by the window, while files of both sides change.               *)
(***************************************************************************)
EXTENDS Naturals, FiniteSets, TLC

CONSTANTS
    SyncFile, Nested,         \* files; those in the subfolder
    Size,                     \* sizes of files, in units of the content check
    Budget, Largest, Chunk,   \* ContentCheckLimits in these units
    Tolerance,                \* MTIME_TOLERANCE_SECS in ticks of the clock
    MaxClock, MaxVersion, MaxComparisons    \* bounds

ASSUME SyncAssumption ==
    /\ Nested \subseteq SyncFile /\ Size \subseteq Nat
    /\ {Budget, Largest, Tolerance, MaxClock, MaxVersion, MaxComparisons} \subseteq Nat /\ Chunk \in Nat \ {0}

VARIABLES
    side,      \* "local", "remote" -> file -> [ver, size, at]; ver 0: not there
    clock, versions,
    base,      \* history: the version both sides last had
    phase, opts, comparisons,
    plan, checks, budget,   \* actions, pending checks [file, differs, left], bytes left
    listed,    \* what the listings said of each file, both sides
    stale,     \* history: files that changed after they were listed
    unread,    \* history: files whose contents could not be compared
    settled    \* history: files a run in some direction brought in step

world    == <<side, clock, versions, base>>
planVars == <<world, phase, opts, comparisons, plan, checks, budget, listed, stale, unread, settled>>

Side   == {"local", "remote"}
Other(s) == IF s = "local" THEN "remote" ELSE "local"
Gone   == [ver |-> 0, size |-> 0, at |-> 0]
There(s, f)  == side[s][f].ver # 0
Direction    == {"toRemote", "toLocal", "both"}
Options      == [direction : Direction, mirror : BOOLEAN, sizeOnly : BOOLEAN, recursive : BOOLEAN]
NoOptions    == [direction |-> "both", mirror |-> FALSE, sizeOnly |-> FALSE, recursive |-> FALSE]
Is(action)   == [do |-> action, differs |-> action]

(* ------------------------------- the plan ------------------------------- *)
(* Files without a time compare as if changed together.                    *)
Newer(l, r) ==
    CASE l.at > r.at + Tolerance -> "local"
      [] r.at > l.at + Tolerance -> "remote"
      [] OTHER -> "same"
BySize(l, r, d) ==
    IF l.size = r.size THEN "identical"
    ELSE CASE d = "toRemote" -> "upload"
           [] d = "toLocal"  -> "download"
           [] d = "both" /\ Newer(l, r) = "local"  -> "upload"
           [] d = "both" /\ Newer(l, r) = "remote" -> "download"
           [] d = "both" /\ Newer(l, r) = "same"   -> "conflict"
(* Mutant: what is newer at the destination is overwritten.                *)
OverwritesNewer(l, r, from, action) ==
    IF l.size = r.size THEN IF Newer(l, r) = from THEN action ELSE "identical" ELSE action
OneWay(l, r, from, action) ==     \* towards the destination or not at all
    IF l.size = r.size THEN IF Newer(l, r) = from THEN action ELSE "identical"
    ELSE IF Newer(l, r) = Other(from) THEN "conflict" ELSE action
(* Same size and one side newer: do is what happens if the contents cannot *)
(* be compared, differs if they differ (transfers keep no times).          *)
Both(l, r) ==
    IF l.size # r.size THEN Is(BySize(l, r, "both"))
    ELSE CASE Newer(l, r) = "local"  -> [do |-> "upload", differs |-> "upload", compare |-> TRUE]
           [] Newer(l, r) = "remote" -> [do |-> "conflict", differs |-> "download", compare |-> TRUE]
           [] Newer(l, r) = "same"   -> Is("identical")
PlanBothPresent(l, r) ==
    IF opts.sizeOnly THEN Is(BySize(l, r, opts.direction))
    ELSE CASE opts.direction = "toRemote" -> Is(OneWay(l, r, "local", "upload"))
           [] opts.direction = "toLocal"  -> Is(OneWay(l, r, "remote", "download"))
           [] opts.direction = "both"     -> Both(l, r)
PlanFile(l, r) ==
    IF l.ver # 0 /\ r.ver # 0 THEN PlanBothPresent(l, r)
    ELSE IF l.ver # 0
    THEN CASE opts.direction \in {"toRemote", "both"} -> Is("upload")
           [] opts.direction = "toLocal" /\ opts.mirror -> Is("delete local")
           [] OTHER -> Is("none")
    ELSE CASE r.ver # 0 /\ opts.direction \in {"toLocal", "both"} -> Is("download")
           [] r.ver # 0 /\ opts.direction = "toRemote" /\ opts.mirror -> Is("delete remote")
           [] OTHER -> Is("none")

NoPlan == [f \in SyncFile |-> "none"]
NoneListed == [f \in SyncFile |-> [local |-> Gone, remote |-> Gone]]
Compare(o) ==
    /\ phase = "idle" /\ comparisons < MaxComparisons /\ comparisons' = comparisons + 1
    /\ phase' = "list local" /\ opts' = o
    /\ UNCHANGED <<world, settled, plan, checks, budget, listed, stale, unread>>
(* The comparison or the run is over: nothing of it is kept.               *)
Over ==
    /\ phase' = "idle" /\ opts' = NoOptions /\ plan' = NoPlan /\ checks' = {} /\ budget' = Budget
    /\ listed' = NoneListed /\ stale' = {} /\ unread' = {}

ReadOf(s) ==
    [f \in SyncFile |->
        IF f \in Nested /\ ~opts.recursive THEN listed[f]
        ELSE [listed[f] EXCEPT !.local = IF s = "local" THEN side[s][f] ELSE @,
                               !.remote = IF s = "remote" THEN side[s][f] ELSE @]]
ListLocal ==
    /\ phase = "list local"
    /\ \/ /\ listed' = ReadOf("local") /\ phase' = "list remote"
          /\ UNCHANGED <<opts, plan, checks, budget, stale, unread>>
       \/ Over
    /\ UNCHANGED <<world, comparisons, settled>>
PlanFiles(l) ==
    /\ listed' = l /\ phase' = "check"
    /\ plan' = [f \in SyncFile |-> PlanFile(l[f].local, l[f].remote).do]
    /\ checks' = {[file |-> f, left |-> l[f].local.size, differs |-> PlanFile(l[f].local, l[f].remote).differs] :
                     f \in {g \in SyncFile : "compare" \in DOMAIN PlanFile(l[g].local, l[g].remote)}}
    /\ UNCHANGED <<opts, budget, stale, unread>>
(* Mutant: a folder that cannot be read counts as empty.                   *)
UnreadableIsEmpty == PlanFiles(listed)
(* A folder that cannot be read ends the comparison.                       *)
Unreadable == Over
ListRemote ==
    /\ phase = "list remote"
    /\ PlanFiles(ReadOf("remote")) \/ Unreadable
    /\ UNCHANGED <<world, comparisons, settled>>

(* ------------------------ comparison of contents ------------------------ *)
(* Smallest files first; a file is read chunk by chunk from both sides.    *)
Smallest(cs) == CHOOSE c \in cs : \A d \in cs : listed[c.file].local.size <= listed[d.file].local.size
Current == Smallest(checks)
Whole   == Current.left = listed[Current.file].local.size
Unverified ==
    /\ phase = "check" /\ checks # {}
    /\ checks' = checks \ {Current} /\ unread' = unread \cup {Current.file}
    /\ UNCHANGED <<world, phase, opts, comparisons, plan, budget, listed, stale, settled>>
CompareChunk ==
    LET f    == Current.file
        l    == side["local"][f]
        r    == side["remote"][f]
        size == listed[f].local.size
        want == IF Chunk < Current.left THEN Chunk ELSE Current.left
    IN
    /\ phase = "check" /\ checks # {}
    /\ Whole /\ size # 0 => size <= Largest /\ size <= budget
    /\ size # 0 => \A copy \in {l, r} : copy.ver # 0 /\ size - Current.left + want <= copy.size
    /\ budget' = IF want < budget THEN budget - want ELSE 0
    /\ \/ /\ size = 0 \/ (l.ver = r.ver /\ Current.left = want)
          /\ plan' = [plan EXCEPT ![f] = "identical"] /\ checks' = checks \ {Current}
       \/ /\ size # 0 /\ (l.ver = r.ver \/ Current.left > want) /\ Current.left > want
          /\ checks' = (checks \ {Current}) \cup {[Current EXCEPT !.left = @ - want]}
          /\ UNCHANGED plan
       \/ /\ size # 0 /\ l.ver # r.ver
          /\ plan' = [plan EXCEPT ![f] = Current.differs] /\ checks' = checks \ {Current}
    /\ UNCHANGED <<world, phase, opts, comparisons, listed, stale, unread, settled>>
Planned ==
    /\ phase = "check" /\ checks = {} /\ phase' = "planned"
    /\ UNCHANGED <<world, opts, comparisons, plan, checks, budget, listed, stale, unread, settled>>

(* ------------------------------ the run --------------------------------- *)
(* The person starts the plan, or discards it.                             *)
RunPlan ==
    /\ phase = "planned"
    /\ \/ phase' = "run" /\ UNCHANGED <<opts, plan, checks, budget, listed, stale, unread>>
       \/ Over
    /\ UNCHANGED <<world, comparisons, settled>>
Did(f) == plan' = [plan EXCEPT ![f] = "none"]
Transfer(f, from) ==
    /\ phase = "run" /\ plan[f] = (IF from = "local" THEN "upload" ELSE "download")
    /\ Did(f)
    /\ \/ /\ There(from, f)
          /\ side' = [side EXCEPT ![Other(from)][f] = [side[from][f] EXCEPT !.at = clock]]
          /\ base' = [base EXCEPT ![f] = side[from][f].ver]
          /\ settled' = (settled \ (Direction \X {f})) \cup {<<opts.direction, f>>}
       \/ UNCHANGED <<side, base, settled>>
    /\ UNCHANGED <<clock, versions, phase, opts, comparisons, checks, budget, listed, stale, unread>>
Delete(f, on) ==
    /\ phase = "run" /\ plan[f] = (IF on = "local" THEN "delete local" ELSE "delete remote")
    /\ Did(f)
    /\ \/ side' = [side EXCEPT ![on][f] = Gone]
       \/ UNCHANGED side
    /\ UNCHANGED <<clock, versions, base, phase, opts, comparisons, checks, budget, listed, stale, unread, settled>>
PlanEnds ==
    /\ phase = "run" /\ \A f \in SyncFile : plan[f] \in {"none", "identical", "conflict"}
    /\ Over
    /\ UNCHANGED <<world, comparisons, settled>>

(* ------------------------------ the world ------------------------------- *)
Touched(f) == stale' = (IF phase = "idle" THEN {} ELSE stale \cup {f}) /\ settled' = settled \ (Direction \X {f})
Edit(s, f) ==
    /\ versions < MaxVersion /\ versions' = versions + 1
    /\ \E size \in Size : side' = [side EXCEPT ![s][f] = [ver |-> versions + 1, size |-> size, at |-> clock]]
    /\ Touched(f)
    /\ UNCHANGED <<clock, base, phase, opts, comparisons, plan, checks, budget, listed, unread>>
Unlink(s, f) ==
    /\ versions < MaxVersion /\ versions' = versions + 1 /\ There(s, f)
    /\ side' = [side EXCEPT ![s][f] = Gone] /\ Touched(f)
    /\ UNCHANGED <<clock, base, phase, opts, comparisons, plan, checks, budget, listed, unread>>
Tick ==
    /\ clock < MaxClock /\ clock' = clock + 1
    /\ UNCHANGED <<side, versions, base, phase, opts, comparisons, plan, checks, budget, listed>>
    /\ UNCHANGED <<stale, unread, settled>>

PlanInit ==
    /\ clock = 1 /\ versions = 1 /\ phase = "idle" /\ comparisons = 0 /\ opts = NoOptions
    /\ \E size \in Size : \E at \in [Side -> {0, 1}] :
           side = [s \in Side |-> [f \in SyncFile |-> [ver |-> 1, size |-> size, at |-> at[s]]]]
    /\ base = [f \in SyncFile |-> 1]
    /\ plan = NoPlan /\ checks = {} /\ budget = Budget
    /\ listed = NoneListed
    /\ stale = {} /\ unread = {} /\ settled = {}
PlanNext ==
    \/ \E o \in Options : Compare(o)
    \/ ListLocal \/ ListRemote \/ Unverified \/ CompareChunk \/ Planned \/ RunPlan \/ PlanEnds \/ Tick
    \/ \E f \in SyncFile, s \in Side : Transfer(f, s) \/ Delete(f, s) \/ Edit(s, f) \/ Unlink(s, f)
PlanSpec == PlanInit /\ [][PlanNext]_planVars

(* ------------------------------ Properties ------------------------------ *)
Fresh(f) == phase \in {"planned", "run"} /\ f \notin stale
EditedOnly(s, f) == side[s][f].ver # base[f] /\ side[Other(s)][f].ver = base[f] /\ There(s, f)
(* A copy changed on one side only since both were the same is never       *)
(* overwritten with the unchanged one: in both directions always, in one   *)
(* direction if its time tells (and sizes are not all that is compared).   *)
EditedCopyWins ==
    \A f \in SyncFile : Fresh(f) =>
        /\ plan[f] = "upload" /\ EditedOnly("remote", f) =>
               opts.direction # "both" /\ (opts.sizeOnly \/ Newer(side["local"][f], side["remote"][f]) # "remote")
        /\ plan[f] = "download" /\ EditedOnly("local", f) =>
               opts.direction # "both" /\ (opts.sizeOnly \/ Newer(side["local"][f], side["remote"][f]) # "local")
(* No ping-pong: what a run has brought in step is not transferred again   *)
(* by the next one in that direction, though its copy is newer now; only a *)
(* file that cannot be read is sent once more or shown as a conflict.      *)
SettledStays ==
    \A f \in SyncFile : Fresh(f) /\ <<opts.direction, f>> \in settled /\ There("local", f) /\ There("remote", f) =>
        \/ plan[f] \in {"none", "identical"}
        \/ opts.direction = "both" /\ f \in unread /\ plan[f] \in {"upload", "conflict"}
(* What a mirror deletes is missing at the source: a folder that could not *)
(* be read is never taken to be empty.                                     *)
MirrorsDelete ==
    \A f \in SyncFile : Fresh(f) =>
        /\ plan[f] = "delete remote" => ~There("local", f)
        /\ plan[f] = "delete local"  => ~There("remote", f)

(* The plan of a synchronization keeps the edited copy, does not move      *)
(* files back and forth, and deletes only what is missing at its source:   *)
(* the three above (sync.rs plan, refine and run).                         *)
SyncIsSound == EditedCopyWins /\ SettledStays /\ MirrorsDelete
=============================================================================
