------------------------------ MODULE SiteTree -----------------------------
(***************************************************************************)
(* The commands of the connections tree (site_tree.rs): the sites and the  *)
(* layout in memory, under the lock of the sites and then that of the      *)
(* layout; the two files they are written to, one after the other; the     *)
(* delayed writes of the layout, of which the newest one counts; and the   *)
(* undo entries, under a lock of their own that the undo does not keep.    *)
(***************************************************************************)
EXTENDS SiteLayout

CONSTANTS
    Batch,       \* batches of operations the page may ask for
    StartSites, StartLayout,
    MaxBatches, MaxViews,   \* bounds: batches; changes made beside them
    MaxFails,    \* bound: writes that fail
    MaxUndo      \* UNDO_MAX_ENTRIES

ASSUME TreeAssumption ==
    /\ MaxBatches \in Nat /\ MaxViews \in Nat /\ MaxFails \in Nat /\ MaxUndo \in Nat \ {0}
    /\ StartSites \in [Id -> [group : Path \cup {Top}, ver : Nat]]

VARIABLES
    sites, tree, slotted, dirty,    \* AppState::saved_sites, the layout slot
    read_only,                      \* the layout is never written in this run
    diskSites, diskLayout,
    undos,       \* undo entries, oldest first
    taken,       \* the entries of undos that wait for the locks
    storing,     \* a command that saved the sites and holds both locks: what it
                 \* stores next, or <<>>
    gen, delayed,\* view_write_gen; the delayed writes that sleep
    asks,        \* commands that gave the locks back and have yet to schedule a write
    exiting,
    batches, views, fails,
    failed       \* history: the last write of the layout failed

memory    == <<sites, tree, slotted, dirty>>
treeFiles == <<diskSites, diskLayout>>
writes    == <<gen, delayed, asks>>
treeCount == <<batches, views, fails>>
treeVars  == <<memory, read_only, treeFiles, undos, taken, storing, writes, exiting, treeCount, failed>>

Now == IF slotted THEN tree ELSE diskLayout        \* loaded_slot
Locked == storing # <<>>
Holding == ~Locked /\ ~exiting
Writable == ~read_only

push_undo(queue, u) == LET q == Append(queue, u) IN IF Len(q) > MaxUndo THEN Tail(q) ELSE q

TreeInit ==
    /\ sites = StartSites /\ diskSites = StartSites
    /\ tree = StartLayout /\ diskLayout = StartLayout
    /\ slotted = FALSE /\ dirty = FALSE /\ read_only \in BOOLEAN
    /\ undos = <<>> /\ taken = <<>> /\ storing = <<>>
    /\ gen = 0 /\ delayed = {} /\ asks = 0
    /\ exiting = FALSE /\ batches = 0 /\ views = 0 /\ fails = 0 /\ failed = FALSE

(* write_if_dirty, on the layout the slot now holds.                       *)
WriteIfDirty(l, isDirty) ==
    IF ~isDirty \/ ~Writable
    THEN dirty' = isDirty /\ UNCHANGED <<diskLayout, fails, failed>>
    ELSE \/ dirty' = FALSE /\ diskLayout' = l /\ failed' = FALSE /\ UNCHANGED fails
         \/ /\ fails < MaxFails /\ fails' = fails + 1 /\ failed' = TRUE
            /\ dirty' = TRUE /\ UNCHANGED diskLayout
(* store_layout, which gives the locks back.                               *)
StoreLayout(l, changed) ==
    /\ tree' = l /\ slotted' = TRUE
    /\ WriteIfDirty(l, (slotted /\ dirty) \/ changed)
Slot(l, isDirty) == tree' = l /\ dirty' = isDirty /\ slotted' = TRUE
SaveFails ==                            \* sites.vault could not be written
    /\ fails < MaxFails /\ fails' = fails + 1
    /\ Slot(Now, slotted /\ dirty)
    /\ UNCHANGED <<sites, treeFiles, storing, failed>>

(* ------------------------------ the commands ---------------------------- *)
LayoutOnly(op) == op[1] \in {"create folder", "set favorites", "set label", "set labels",
                             "rename folder", "move folder", "copy folder", "delete folder"}
ApplyBatch(ops) ==
    /\ Holding /\ batches < MaxBatches /\ batches' = batches + 1
    /\ read_only => \A n \in DOMAIN ops : ~LayoutOnly(ops[n])
    /\ \E u \in apply_ops(sites, Now, ops) :
        LET changed == u.layout_after # Now IN
        \/ /\ u.changed # {}
           /\ sites' = u.after /\ diskSites' = u.after
           /\ storing' = <<[layout |-> u.layout_after, changed |-> changed, push |-> <<u>>]>>
           /\ UNCHANGED <<tree, slotted, dirty, diskLayout, undos, fails, failed>>
        \/ /\ u.changed = {}
           /\ StoreLayout(u.layout_after, changed)
           /\ undos' = IF changed THEN push_undo(undos, u) ELSE undos
           /\ UNCHANGED <<sites, diskSites, storing>>
        \/ u.changed # {} /\ SaveFails /\ UNCHANGED undos
    /\ UNCHANGED <<read_only, taken, writes, exiting, views>>
(* save_sites has returned: the layout is put in place and written.        *)
Stores ==
    /\ Locked /\ storing' = <<>>
    /\ StoreLayout(Head(storing).layout, Head(storing).changed)
    /\ undos' = IF Head(storing).push = <<>> THEN undos ELSE push_undo(undos, Head(Head(storing).push))
    /\ UNCHANGED <<sites, read_only, diskSites, taken, writes, exiting, batches, views>>

TakeUndo(n) ==
    /\ ~exiting
    /\ taken' = Append(taken, undos[n]) /\ undos' = RemoveAt(undos, n)
    /\ UNCHANGED <<memory, read_only, treeFiles, storing, writes, exiting, treeCount, failed>>
UndoRuns(n) ==
    /\ Holding /\ taken' = RemoveAt(taken, n)
    /\ LET u == taken[n]
           r == undo(u, sites, Now)
           changed == r.layout # Now
           restored == u.changed \ Skipped(u, sites) # {}
       IN  \/ /\ restored
              /\ sites' = r.sites /\ diskSites' = r.sites
              /\ storing' = <<[layout |-> r.layout, changed |-> changed, push |-> <<>>]>>
              /\ UNCHANGED <<tree, slotted, dirty, diskLayout, undos, fails, failed>>
           \/ restored /\ SaveFails /\ undos' = push_undo(undos, u)
           \/ /\ ~restored
              /\ StoreLayout(r.layout, changed)
              /\ UNCHANGED <<sites, diskSites, storing, undos>>
    /\ UNCHANGED <<read_only, writes, exiting, batches, views>>
(* forget_site_tree_undo, and entries too old (prune_undo).                *)
ForgetUndo ==
    /\ ~exiting /\ undos # <<>>
    /\ undos' \in {<<>>, Tail(undos)}
    /\ UNCHANGED <<memory, read_only, treeFiles, taken, storing, writes, exiting, treeCount, failed>>

(* Saves and imports of sites know nothing of the layout.                  *)
OtherChange(i) ==
    /\ Holding /\ views < MaxViews /\ views' = views + 1
    /\ \E site \in {NoSite, [group |-> sites[i].group, ver |-> sites[i].ver + 1]} :
           sites' = [sites EXCEPT ![i] = site] /\ sites' # sites
    /\ diskSites' = sites'
    /\ UNCHANGED <<tree, slotted, dirty, read_only, diskLayout, undos, taken, storing,
                   writes, exiting, batches, fails, failed>>

(* get_site_layout and set_site_tree_view, record_site_connected: the      *)
(* schedule comes after the locks.                                         *)
Asks(wanted) == asks' = IF wanted /\ Writable THEN asks + 1 ELSE asks
LayoutView ==
    LET l == reconcile(Now, sites)
        isDirty == (slotted /\ dirty) \/ (l # Now /\ Writable)
    IN  /\ Holding /\ asks = 0 /\ l # Now
        /\ Slot(l, isDirty) /\ Asks(isDirty)
        /\ UNCHANGED <<sites, read_only, treeFiles, undos, taken, storing, gen, delayed, exiting,
                       treeCount, failed>>
SetView(marks) ==
    LET l == [reconcile(Now, sites) EXCEPT !.marks = marks]
        isDirty == (slotted /\ dirty) \/ l # Now
    IN  /\ Holding /\ views < MaxViews /\ views' = views + 1
        /\ marks \subseteq {<<"folder", p>> : p \in reconcile(Now, sites).folders}
        /\ Slot(l, isDirty) /\ Asks(isDirty)
        /\ UNCHANGED <<sites, read_only, treeFiles, undos, taken, storing, gen, delayed, exiting,
                       batches, fails, failed>>
RecordConnected(i) ==
    /\ Holding /\ views < MaxViews /\ views' = views + 1
    /\ i \in Saved(sites)
    /\ Slot([Now EXCEPT !.marks = @ \cup {<<"site", i>>}], TRUE) /\ Asks(TRUE)
    /\ UNCHANGED <<sites, read_only, treeFiles, undos, taken, storing, gen, delayed, exiting,
                   batches, fails, failed>>

(* --------------------------- delayed writes ----------------------------- *)
(* schedule_layout_write.  Mutant: fetch_add without the + 1.              *)
ScheduleOld ==
    /\ asks > 0 /\ asks' = asks - 1
    /\ gen' = gen + 1 /\ delayed' = delayed \cup {gen}
    /\ UNCHANGED <<memory, read_only, treeFiles, undos, taken, storing, exiting, treeCount, failed>>
Schedule ==
    /\ asks > 0 /\ asks' = asks - 1
    /\ gen' = gen + 1 /\ delayed' = delayed \cup {gen + 1}
    /\ UNCHANGED <<memory, read_only, treeFiles, undos, taken, storing, exiting, treeCount, failed>>
Flush == IF slotted THEN WriteIfDirty(tree, dirty) ELSE UNCHANGED <<dirty, diskLayout, fails, failed>>
DelayedWrite(g) ==
    /\ Holding /\ delayed' = delayed \ {g}
    /\ IF g # gen THEN UNCHANGED <<dirty, diskLayout, fails, failed>> ELSE Flush
    /\ UNCHANGED <<sites, tree, slotted, read_only, diskSites, undos, taken, storing, gen, asks,
                   exiting, batches, views>>

(* ---------------------------- exit and crash ---------------------------- *)
ExitStarts ==                           \* flush_site_layout_blocking
    /\ ~exiting /\ exiting' = TRUE /\ undos' = <<>> /\ gen' = gen + 1
    /\ UNCHANGED <<memory, read_only, treeFiles, taken, storing, delayed, asks, treeCount, failed>>
ExitFlushes ==                          \* the command with the locks ends first
    /\ exiting /\ ~Locked /\ dirty /\ Writable /\ Flush
    /\ UNCHANGED <<sites, tree, slotted, read_only, diskSites, undos, taken, storing, writes,
                   exiting, batches, views>>
(* The process ends, after the flush or its timeout or at any step, and    *)
(* starts again from the files.                                            *)
TreeRestart ==
    /\ sites' = diskSites /\ tree' = diskLayout /\ slotted' = FALSE /\ dirty' = FALSE
    /\ undos' = <<>> /\ taken' = <<>> /\ storing' = <<>>
    /\ gen' = 0 /\ delayed' = {} /\ asks' = 0 /\ exiting' = FALSE /\ failed' = FALSE
    /\ UNCHANGED <<read_only, treeFiles, treeCount>>

TreeNext ==
    \/ \E ops \in Batch : ApplyBatch(ops)
    \/ Stores
    \/ \E n \in DOMAIN undos : TakeUndo(n)
    \/ \E n \in DOMAIN taken : UndoRuns(n)
    \/ ForgetUndo
    \/ \E i \in Id : OtherChange(i)
    \/ LayoutView
    \/ \E p \in Path : SetView({<<"folder", p>>}) \/ SetView({})
    \/ \E i \in Id : RecordConnected(i)
    \/ Schedule
    \/ \E g \in delayed : DelayedWrite(g)
    \/ ExitStarts
    \/ ExitFlushes
    \/ TreeRestart
TreeSpec == TreeInit /\ [][TreeNext]_treeVars

(* ------------------------------ properties ------------------------------ *)
(* A layout changed in memory that may be written is never left there with *)
(* no write to come, unless the last one failed: the newest of the delayed *)
(* writes counts, and the commands schedule theirs after the locks.        *)
LayoutGetsWritten ==
    slotted /\ dirty /\ Writable /\ ~failed /\ ~exiting =>
        gen \in delayed \/ asks > 0 \/ Locked

(* An undo right after its batch gives back the sites and the layout as    *)
(* they were, whatever the batch did: moves, merges, copies and deletes.   *)
UndoGivesBack ==
    \A u \in ToSet(undos) :
        sites = u.after /\ Now = u.layout_after =>
            undo(u, sites, Now) = [sites |-> u.before, layout |-> u.layout_before]

(* An undo takes back what its batch did and nothing that came later: a    *)
(* site changed since stays as it is, and a folder the batch moved with    *)
(* such a site stays where the batch put it, with its label and its marks. *)
UndoRan(n) == taken' = RemoveAt(taken, n) /\ (storing' # <<>> \/ slotted')
Outcome == IF storing' # <<>> THEN Head(storing').layout ELSE tree'
Alike(l, p, m, q) == /\ l.folderLabel[p] = m.folderLabel[q]
                     /\ (<<"folder", p>> \in l.marks) <=> (<<"folder", q>> \in m.marks)
StaysMoved(u, r) == {r.moves[from] : from \in
    {f \in DOMAIN r.moves : Alike(u.layout_before, f, u.layout_after, r.moves[f])}}
UndoKeepsLater == [][
    \A n \in DOMAIN taken : UndoRan(n) => LET u == taken[n]  skipped == Skipped(u, sites) IN
        /\ \A i \in skipped : sites'[i] = sites[i]
        /\ \A r \in ToSet(u.remaps) : r.ids \cap skipped # {} =>
               \A p \in StaysMoved(u, r) \cap Now.folders :
                   p \in Outcome.folders /\ Alike(Outcome, p, Now, p)
    ]_treeVars

(* An undo gives back just what its batch changed: the two above           *)
(* (site_layout.rs undo, site_tree.rs undo).                               *)
Taking == Len(taken') > Len(taken)      \* an undo is about to run
UndoIsExact == [][Taking => UndoGivesBack]_treeVars /\ UndoKeepsLater
=============================================================================
