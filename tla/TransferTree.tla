---------------------------- MODULE TransferTree ----------------------------
(***************************************************************************)
(* The transfer of a folder: Job::transfer_dir of                          *)
(* crates/rustscp-core/src/transfer_queue.rs, with the part of Job::run    *)
(* that decides that the source is a folder.  The tree is listed, folders  *)
(* are created, files copied one after the other, and a move then deletes  *)
(* what it copied.  How one file is copied is TransferJob's subject; here  *)
(* a copy succeeds or fails.                                               *)
(*                                                                         *)
(* Other programs may put entries into the source at any time (Late).      *)
(***************************************************************************)
EXTENDS Naturals, FiniteSets

CONSTANTS
    Node,       \* the entries that may be found below the source folder
    Root,       \* the source folder itself
    Parent,     \* the folder of each entry
    Kind,       \* what each entry is
    Key,        \* the destination path of each entry, letter case left out
    FirstTrees, \* the sets of entries a behaviour may start with
    Late,       \* the entries that may appear while the transfer runs
    MaxDepth,   \* MAX_TREE_DEPTH
    TreePlans       \* what may be asked, and what the servers are like

Kinds == {"file", "linkToFile", "dir", "linkToDir", "dangling", "special",
          "unsafe"}     \* a name that is_unsafe_entry_name or the check
                        \* that follows it refuses

(* Calls that may fail: metadata of the source or of a link; the listing   *)
(* of the parent of the source; a listing in the tree; create_dir; the     *)
(* probe for case-insensitivity; a copy; a deletion.                       *)
TreeFaults == {"stat", "parent", "list", "mkdir", "probe", "copy", "remove"}

TreePlan == [root   : {"folder", "link", "missing", "file"},
         isMove : BOOLEAN,
         store  : BOOLEAN,      \* an object store lists what does not exist
         folds  : BOOLEAN,      \* the destination ignores the case of names
         faults : SUBSET TreeFaults]

IsDir(n) == n = Root \/ Kind[n] = "dir"
Files    == {n \in Node : Kind[n] \in {"file", "linkToFile"}}

(* Nothing is found outside a folder.                                      *)
TreeLike(nodes) == \A n \in nodes : IsDir(Parent[n]) /\ (Parent[n] = Root \/ Parent[n] \in nodes)

ASSUME TreeAssumption ==
    /\ Root \notin Node
    /\ Parent \in [Node -> Node \cup {Root}]
    /\ Kind \in [Node -> Kinds]
    /\ DOMAIN Key = Node
    /\ \A tree \in FirstTrees : tree \subseteq Node /\ TreeLike(tree)
    /\ Late \subseteq {n \in Files : IsDir(Parent[n])}
    /\ MaxDepth \in Nat
    /\ TreePlans \subseteq TreePlan

VARIABLES
    treePlan,       \* what is asked
    first,      \* the entries that were there at the start
    late,       \* the entries that appeared since
    source,     \* the entries that are there now
    dest,       \* whose data are under a name of the destination
    at,         \* the step the transfer is at
    rootIsLink, \* root_is_link
    stack,      \* folders still to be listed
    dirs,       \* folders that were found
    files,      \* files to be copied
    made,       \* folders whose creation was tried
    tried,      \* files whose copy was tried
    copied,     \* files whose copy was verified
    failed,     \* failures is not empty
    deleted,    \* entries whose deletion was tried
    treeCancelled,  \* what is_cancelled answers
    result

world    == <<treePlan, first, late, treeCancelled>>
planning == <<rootIsLink, stack, dirs, files>>
treeVars     == <<world, source, dest, at, planning, made, tried, copied, failed, deleted, result>>

Nothing == "nothing"

(* The name an entry gets at the destination.                              *)
NameOf(n) == IF treePlan.folds THEN Key[n] ELSE n
Names == Node \cup {Key[n] : n \in Node}

TreeTypeOK ==
    /\ treePlan \in TreePlans
    /\ first \in FirstTrees
    /\ late \subseteq Late
    /\ source \subseteq first \cup late
    /\ dest \in [Names -> Files \cup {Nothing}]
    /\ at \in {"stat", "parent", "list", "mkdir", "collide", "copy", "judge",
               "unlink", "delete", "end"}
    /\ rootIsLink \in BOOLEAN
    /\ stack \subseteq dirs
    /\ dirs \subseteq {n \in Node \cup {Root} : IsDir(n)}
    /\ files \subseteq Files
    /\ made \subseteq dirs
    /\ tried \subseteq files
    /\ copied \subseteq tried
    /\ failed \in BOOLEAN
    /\ deleted \subseteq copied \cup dirs
    /\ treeCancelled \in BOOLEAN
    /\ result \in {"none", "Completed", "Failed", "Cancelled"}

TreeInit ==
    /\ treePlan \in TreePlans
    /\ first \in FirstTrees
    /\ treePlan.root \in {"missing", "file"} => first = {}
    /\ late = {}
    /\ source = first
    /\ dest = [name \in Names |-> Nothing]
    /\ at = "stat"
    /\ rootIsLink = FALSE
    /\ stack = {Root}
    /\ dirs = {Root}
    /\ files = {}
    /\ made = {}
    /\ tried = {}
    /\ copied = {}
    /\ failed = FALSE
    /\ deleted = {}
    /\ treeCancelled = FALSE
    /\ result = "none"

-----------------------------------------------------------------------------
TreeMay(kind) == kind \in treePlan.faults

GoTo(step) == at' = step /\ UNCHANGED result
StopWith(r)  == at' = "end" /\ result' = r

Children(d) == {n \in source : Parent[n] = d}

Depth[d \in Node \cup {Root}] == IF d = Root THEN 0 ELSE Depth[Parent[d]] + 1

(* Each entry is somewhere below the source folder: no folder is below     *)
(* itself, so that the recursion says how deep each of them is.            *)
ASSUME DepthAssumption ==
    /\ Depth \in [Node \cup {Root} -> Nat]
    /\ \A n \in Node : Depth[n] = Depth[Parent[n]] + 1

(* run: a source without metadata counts as a folder when it can be        *)
(* listed, and an object store lists anything.                             *)
Listable  == treePlan.store \/ treePlan.root \in {"folder", "link"}
AfterRoot == IF treePlan.isMove /\ ~ treePlan.store THEN "parent" ELSE "list"

StatRoot ==
    /\ at = "stat"
    /\ \/ treePlan.root \in {"folder", "link"} /\ GoTo(AfterRoot)
       \/ /\ treePlan.root = "missing" \/ TreeMay("stat")
          /\ \/ Listable /\ GoTo(AfterRoot)
             \/ (~ Listable \/ TreeMay("list")) /\ StopWith("Failed")
    /\ UNCHANGED <<world, source, dest, planning, made, tried, copied, failed, deleted>>

(* is_symlink: any error of the listing of the parent means "no".          *)
IsSymlink ==
    /\ at = "parent"
    /\ \/ rootIsLink' = (treePlan.root = "link")
       \/ TreeMay("parent") /\ rootIsLink' = FALSE
    /\ GoTo("list")
    /\ UNCHANGED <<world, source, dest, stack, dirs, files, made, tried, copied, failed, deleted>>

-----------------------------------------------------------------------------
(* 1. Plan the tree.                                                       *)

(* The folders in d the transfer goes into.                                *)
FoldersIn(d) == {n \in Children(d) : Kind[n] = "dir" /\ Depth[d] < MaxDepth}

FilesIn(d) == {n \in Children(d) : n \in Files}

Refused(d) ==
    {n \in Children(d) : Kind[n] = "unsafe" \/ (Kind[n] = "dir" /\ Depth[d] >= MaxDepth)}

(* One folder of the stack is listed.  A link whose metadata cannot be     *)
(* read counts as dangling; dangling links, links to folders and special   *)
(* files are skipped and do not fail the transfer.                         *)
ListDir(d) ==
    /\ at = "list" /\ d \in stack
    /\ \/ /\ treeCancelled
          /\ StopWith("Cancelled")
          /\ UNCHANGED <<planning, failed>>
       \/ /\ ~ treeCancelled /\ TreeMay("list")
          /\ stack' = stack \ {d}
          /\ IF d = Root THEN StopWith("Failed") /\ UNCHANGED failed
             ELSE failed' = TRUE /\ UNCHANGED <<at, result>>
          /\ UNCHANGED <<rootIsLink, dirs, files>>
       \/ /\ ~ treeCancelled
          /\ \E unread \in SUBSET {n \in FilesIn(d) : Kind[n] = "linkToFile" /\ TreeMay("stat")} :
                files' = files \cup (FilesIn(d) \ unread)
          /\ dirs'  = dirs \cup FoldersIn(d)
          /\ stack' = (stack \ {d}) \cup FoldersIn(d)
          /\ failed' = (failed \/ Refused(d) # {})
          /\ UNCHANGED <<at, result, rootIsLink>>
    /\ UNCHANGED <<world, source, dest, made, tried, copied, deleted>>

Planned ==
    /\ at = "list" /\ stack = {}
    /\ GoTo("mkdir")
    /\ UNCHANGED <<world, source, dest, planning, made, tried, copied, failed, deleted>>

(* 2. Folders, parents first.                                              *)
MakeDir(d) ==
    /\ at = "mkdir" /\ d \in dirs \ made
    /\ d # Root => Parent[d] \in made
    /\ made' = made \cup {d}
    /\ \/ UNCHANGED <<at, failed, result>>
       \/ /\ TreeMay("mkdir")
          /\ IF d = Root THEN StopWith("Failed") /\ UNCHANGED failed
             ELSE failed' = TRUE /\ UNCHANGED <<at, result>>
    /\ UNCHANGED <<world, source, dest, planning, tried, copied, deleted>>

AllMade ==
    /\ at = "mkdir" /\ made = dirs
    /\ GoTo("collide")
    /\ UNCHANGED <<world, source, dest, planning, made, tried, copied, failed, deleted>>

(* 3. Names that collide.                                                  *)
Collide(m, n) == m # n /\ Key[m] = Key[n]

(* The files that may stay: one of each name, and none of a folder's name. *)
WithoutCollisions(kept) ==
    /\ \A m, n \in kept : ~ Collide(m, n)
    /\ \A n \in kept, d \in dirs \ {Root} : ~ Collide(n, d)
    /\ \A n \in files \ kept : \E m \in kept \cup (dirs \ {Root}) : Collide(n, m)

(* Mutant: a probe without an answer means "case-sensitive".               *)
SensitiveUnlessSeen == treePlan.folds /\ ~ TreeMay("probe")

(* dest_case_insensitive: no answer means "insensitive".                   *)
FoldsAsSeen == treePlan.folds

RefuseCollisions ==
    /\ at = "collide"
    /\ \E kept \in SUBSET files :
          /\ WithoutCollisions(kept)
          /\ \/ (FoldsAsSeen \/ TreeMay("probe")) /\ files' = kept
             \/ (~ FoldsAsSeen \/ kept = files) /\ files' = files
    /\ failed' = (failed \/ files' # files)
    /\ GoTo("copy")
    /\ UNCHANGED <<world, source, dest, rootIsLink, stack, dirs, made, tried, copied, deleted>>

(* 4. Files.                                                               *)
CopyFile(n) ==
    /\ at = "copy" /\ n \in files \ tried
    /\ \/ /\ treeCancelled
          /\ StopWith("Cancelled")
          /\ UNCHANGED <<dest, tried, copied, failed>>
       \/ /\ dest'   = [dest EXCEPT ![NameOf(n)] = n]
          /\ tried'  = tried \cup {n}
          /\ copied' = copied \cup {n}
          /\ UNCHANGED <<at, failed, result>>
       \/ /\ TreeMay("copy")
          /\ \E left \in {dest[NameOf(n)], Nothing} : dest' = [dest EXCEPT ![NameOf(n)] = left]
          /\ tried'  = tried \cup {n}
          /\ failed' = TRUE
          /\ UNCHANGED <<at, copied, result>>
    /\ UNCHANGED <<world, source, planning, made, deleted>>

AllTried ==
    /\ at = "copy" /\ tried = files
    /\ IF failed THEN StopWith("Failed")
       ELSE IF treePlan.isMove THEN GoTo("judge") ELSE StopWith("Completed")
    /\ UNCHANGED <<world, source, dest, planning, made, tried, copied, failed, deleted>>

(* 5. A move deletes.                                                      *)
(* Mutant: that the source is a link is forgotten.                         *)
JudgeAsFolder ==
    /\ at = "judge"
    /\ IF treeCancelled THEN StopWith("Cancelled") ELSE GoTo("delete")
    /\ UNCHANGED <<world, source, dest, planning, made, tried, copied, failed, deleted>>

Judge ==
    /\ at = "judge"
    /\ IF treeCancelled THEN StopWith("Cancelled") ELSE GoTo(IF rootIsLink THEN "unlink" ELSE "delete")
    /\ UNCHANGED <<world, source, dest, planning, made, tried, copied, failed, deleted>>

(* The link itself goes or not; the entries of the folder stay.            *)
RemoveLink ==
    /\ at = "unlink"
    /\ StopWith("Completed")
    /\ UNCHANGED <<world, source, dest, planning, made, tried, copied, failed, deleted>>

(* Mutant: is_cancelled is asked before every deletion.                    *)
DeleteUnlessCancelled(n) ==
    /\ at = "delete" /\ n \in copied \ deleted
    /\ IF treeCancelled THEN StopWith("Cancelled") /\ UNCHANGED <<source, deleted>>
       ELSE /\ deleted' = deleted \cup {n}
            /\ source' = source \ {n}
            /\ UNCHANGED <<at, result>>
    /\ UNCHANGED <<world, dest, planning, made, tried, copied, failed>>

DeleteFile(n) ==
    /\ at = "delete" /\ n \in copied \ deleted
    /\ deleted' = deleted \cup {n}
    /\ source' \in {source \ {n}} \cup (IF TreeMay("remove") THEN {source} ELSE {})
    /\ UNCHANGED <<world, dest, at, planning, made, tried, copied, failed, result>>

(* Mutant: a folder goes with what is in it.                               *)
DeleteTree(d) ==
    /\ at = "delete" /\ d \in dirs \ deleted
    /\ copied \subseteq deleted
    /\ deleted' = deleted \cup {d}
    /\ source' = source \ ({d} \cup Children(d))
    /\ UNCHANGED <<world, dest, at, planning, made, tried, copied, failed, result>>

(* Mutant: a folder that is not empty is tried again.                      *)
DeleteDirAgain(d) ==
    /\ at = "delete" /\ d \in dirs \ deleted
    /\ copied \subseteq deleted
    /\ Children(d) = {}
    /\ deleted' = deleted \cup {d}
    /\ source' = source \ {d}
    /\ UNCHANGED <<world, dest, at, planning, made, tried, copied, failed, result>>

(* remove_dir(d, false), in the reverse order of discovery, after the      *)
(* files: a folder that is not empty stays.                                *)
DeleteDir(d) ==
    /\ at = "delete" /\ d \in dirs \ deleted
    /\ copied \subseteq deleted
    /\ \A c \in dirs \ {Root} : Parent[c] = d => c \in deleted
    /\ deleted' = deleted \cup {d}
    /\ \/ Children(d) = {} /\ source' = source \ {d}
       \/ (Children(d) # {} \/ TreeMay("remove")) /\ UNCHANGED source
    /\ UNCHANGED <<world, dest, at, planning, made, tried, copied, failed, result>>

AllDeleted ==
    /\ at = "delete" /\ deleted = copied \cup dirs
    /\ StopWith("Completed")
    /\ UNCHANGED <<world, source, dest, planning, made, tried, copied, failed, deleted>>

-----------------------------------------------------------------------------
(* The user cancels, or clears the cancelled entry from the list.          *)
CancelOrClear ==
    /\ treeCancelled' = ~ treeCancelled
    /\ UNCHANGED <<treePlan, first, late, source, dest, at, planning, made, tried, copied, failed,
                   deleted, result>>

(* Another program puts a file into a folder of the source.                *)
Appear(n) ==
    /\ n \in Late \ (first \cup late)
    /\ Parent[n] = Root \/ Parent[n] \in source
    /\ Root \notin deleted /\ treePlan.root \in {"folder", "link"}
    /\ late' = late \cup {n}
    /\ source' = source \cup {n}
    /\ UNCHANGED <<treePlan, first, treeCancelled, dest, at, planning, made, tried, copied, failed,
                   deleted, result>>

JobStep ==
    \/ StatRoot \/ IsSymlink
    \/ \E d \in stack : ListDir(d)
    \/ Planned
    \/ \E d \in dirs : MakeDir(d)
    \/ AllMade \/ RefuseCollisions
    \/ \E n \in files : CopyFile(n)
    \/ AllTried \/ Judge \/ RemoveLink
    \/ \E n \in copied : DeleteFile(n)
    \/ \E d \in dirs : DeleteDir(d)
    \/ AllDeleted

TreeNext == JobStep \/ CancelOrClear \/ \E n \in Late : Appear(n)

TreeSpec == TreeInit /\ [][TreeNext]_treeVars

(* Every driver call returns.                                              *)
TreeFairSpec == TreeSpec /\ WF_treeVars(JobStep)

-----------------------------------------------------------------------------
(* Properties.                                                             *)

Known == first \cup late
TreeSafe(kinds) == treePlan.faults \cap kinds = {}

(* A folder is Completed only when every regular file that was in it at    *)
(* the start is at the destination under its own name, whichever calls     *)
(* failed and whatever names collide there.                                *)
CompletedIsWhole ==
    result = "Completed" =>
        \A n \in first : Kind[n] = "file" => dest[NameOf(n)] = n

(* "nothing was deleted from the source", as the error text says: a        *)
(* failed or cancelled transfer leaves every entry where it was.           *)
FailedKeepsSource == result \in {"Failed", "Cancelled"} => Known = source

(* A file or link that is gone from the source is at the destination: not  *)
(* skipped, refused, or put there by somebody while the move was running.  *)
(* Links the transfer passes over are never removed.                       *)
NothingLost ==
    \A n \in Known \ source :
        Kind[n] = "dir" \/ (n \in Files /\ dest[NameOf(n)] = n)

(* "With root_is_link a move removes only the link, never the folder's     *)
(* files", where the folder of the link can be listed.                     *)
LinkedFolderKept == treePlan.root = "link" /\ ~ treePlan.store /\ TreeSafe({"parent"}) => Known = source

(* What a move deletes it has copied, and nothing else is deleted: the     *)
(* three together.                                                         *)
DeletesOnlyCopied == NothingLost /\ FailedKeepsSource /\ LinkedFolderKept

(* The transfer ends once every call returns.                              *)
TreeEnds == <>(at = "end")

=============================================================================
