------------------------ MODULE TransferTreeProofs ------------------------
(***************************************************************************)
(* Theorems about TransferTree, for trees of any size and shape, any       *)
(* letter-case rule and any combination of failing calls, and about        *)
(* ExternalEdit, for any number of edits. IInv is inductive: a source is   *)
(* touched only in the last phase, what is copied stays where it was put   *)
(* because no two files of the plan share a name, and the deletion of a    *)
(* linked folder is never entered. EditInv says what the stamps the        *)
(* watcher keeps know of the copy and of the file on the server.           *)
(***************************************************************************)
EXTENDS TransferTree, ExternalEdit, WellFoundedInduction, TLAPS

(* Entries leave the source in the last phase of a move only, and an       *)
(* outcome is there exactly when the transfer has ended.                   *)
DeletesLast ==
    /\ at = "end" <=> result # "none"
    /\ source # Known => at = "delete" \/ result = "Completed"

(* While files are copied, no two of them have the same destination.       *)
NamesDistinct ==
    at = "copy" => \A m, n \in files : m # n => NameOf(m) # NameOf(n)

(* What was copied and verified is at the destination.                     *)
CopiedThere == \A n \in copied : dest[NameOf(n)] = n

(* A link whose parent can be listed.                                      *)
NoticedLink == treePlan.root = "link" /\ ~ treePlan.store /\ TreeSafe({"parent"})

(* From the look at the parent on, a move knows that its source is a link, *)
(* and does not get to the deletion of files.                              *)
LinkKnown ==
    /\ at \in {"judge", "delete"} => treePlan.isMove
    /\ NoticedLink /\ treePlan.isMove =>
          /\ at \in {"list", "mkdir", "collide", "copy", "judge"} => rootIsLink
          /\ at # "delete"

(* Nothing is copied before the colliding names are left out.              *)
NotYet == at \in {"stat", "parent", "list", "mkdir", "collide"} => tried = {}

IInv == /\ TreeTypeOK /\ NotYet /\ DeletesLast /\ NamesDistinct /\ CopiedThere
        /\ NothingLost /\ LinkKnown /\ LinkedFolderKept

-----------------------------------------------------------------------------
(* The assumption on the constants, unfolded.                              *)
LEMMA Constants ==
    /\ TreePlans \subseteq TreePlan
    /\ \A tree \in FirstTrees : tree \subseteq Node
    /\ Late \subseteq Files /\ Files \subseteq Node
    /\ Root \notin Node
  BY TreeAssumption DEF TreeAssumption, Files

(* What is in the source is an entry, and has a name at the destination.   *)
LEMMA SourceTyped ==
    ASSUME TreeTypeOK
    PROVE  /\ source \subseteq Node
           /\ \A n \in Node : NameOf(n) \in Names
  BY Constants DEF TreeTypeOK, NameOf, Names

(* The initial states satisfy the invariant.                               *)
LEMMA InitIInv == TreeInit => IInv
  <1> SUFFICES ASSUME TreeInit PROVE IInv
    OBVIOUS
  <1>1. TreeTypeOK
    BY Constants DEF TreeInit, TreeTypeOK, IsDir
  <1>2. NotYet /\ DeletesLast /\ NothingLost /\ LinkedFolderKept
    BY DEF TreeInit, NotYet, DeletesLast, NothingLost, LinkedFolderKept, Known
  <1>3. NamesDistinct /\ CopiedThere /\ LinkKnown
    BY DEF TreeInit, NamesDistinct, CopiedThere, LinkKnown
  <1> QED
    BY <1>1, <1>2, <1>3 DEF IInv

-----------------------------------------------------------------------------
(* Every step keeps the variables in their ranges.                         *)
LEMMA TypeStep == TreeTypeOK /\ NotYet /\ [TreeNext]_treeVars => TreeTypeOK'
  <1> SUFFICES ASSUME TreeTypeOK, NotYet, [TreeNext]_treeVars PROVE TreeTypeOK'
    OBVIOUS
  <1> USE DEF world, planning
  <1>1. CASE StatRoot
    BY <1>1 DEF StatRoot, AfterRoot, GoTo, StopWith, TreeTypeOK
  <1>2. CASE IsSymlink
    BY <1>2 DEF IsSymlink, GoTo, TreeTypeOK
  <1>3. ASSUME NEW d \in stack, ListDir(d) PROVE TreeTypeOK'
    <2>1. FoldersIn(d) \subseteq {n \in Node : IsDir(n)} /\ FilesIn(d) \subseteq Files
      BY SourceTyped DEF FoldersIn, FilesIn, Children, IsDir
    <2>2. /\ stack' \subseteq dirs' /\ dirs' \subseteq {n \in Node \cup {Root} : IsDir(n)}
          /\ files' \subseteq Files /\ dirs \subseteq dirs' /\ files \subseteq files'
      BY <1>3, <2>1 DEF ListDir, TreeTypeOK
    <2>3. /\ UNCHANGED <<treePlan, first, late, source, dest, made, tried, copied, deleted, treeCancelled,
                         rootIsLink>>
          /\ at' \in {"list", "end"} /\ result' \in {result, "Cancelled", "Failed"}
          /\ failed' \in BOOLEAN
      BY <1>3 DEF ListDir, StopWith, TreeTypeOK
    <2> QED
      BY <2>2, <2>3 DEF TreeTypeOK
  <1>4. CASE Planned \/ AllMade \/ AllTried \/ Judge \/ RemoveLink \/ AllDeleted
    BY <1>4 DEF Planned, AllMade, AllTried, Judge, RemoveLink, AllDeleted, GoTo, StopWith, TreeTypeOK
  <1>5. ASSUME NEW d \in dirs, MakeDir(d) PROVE TreeTypeOK'
    BY <1>5 DEF MakeDir, StopWith, TreeTypeOK
  <1>6. CASE RefuseCollisions
    <2>1. tried = {} /\ files' \subseteq files
      BY <1>6 DEF RefuseCollisions, NotYet
    <2> QED
      BY <1>6, <2>1 DEF RefuseCollisions, GoTo, TreeTypeOK
  <1>7. ASSUME NEW n \in files, CopyFile(n) PROVE TreeTypeOK'
    BY <1>7, SourceTyped, Constants DEF CopyFile, StopWith, TreeTypeOK
  <1>8. ASSUME NEW n \in copied, DeleteFile(n) PROVE TreeTypeOK'
    BY <1>8 DEF DeleteFile, TreeTypeOK
  <1>9. ASSUME NEW d \in dirs, DeleteDir(d) PROVE TreeTypeOK'
    BY <1>9 DEF DeleteDir, TreeTypeOK
  <1>10. CASE CancelOrClear
    BY <1>10 DEF CancelOrClear, TreeTypeOK
  <1>11. ASSUME NEW n \in Late, Appear(n) PROVE TreeTypeOK'
    BY <1>11 DEF Appear, TreeTypeOK
  <1>12. CASE UNCHANGED treeVars
    BY <1>12 DEF treeVars, TreeTypeOK
  <1> QED
    BY <1>1, <1>2, <1>3, <1>4, <1>5, <1>6, <1>7, <1>8, <1>9, <1>10, <1>11, <1>12
    DEF TreeNext, JobStep

-----------------------------------------------------------------------------
(* A step that leaves the plan, the source and the copies alone, and keeps *)
(* the phases in order.                                                    *)
LEMMA QuietStep ==
    ASSUME IInv, TreeTypeOK',
           UNCHANGED <<treePlan, first, late, source, dest, tried, copied, files>>,
           NotYet', DeletesLast', LinkKnown', at' = "copy" => at = "copy"
    PROVE  IInv'
  <1>1. NamesDistinct' /\ CopiedThere'
    BY DEF IInv, NamesDistinct, CopiedThere, NameOf
  <1>2. NothingLost'
    BY DEF IInv, NothingLost, Known, NameOf
  <1>3. LinkedFolderKept'
    BY DEF IInv, LinkedFolderKept, Known, TreeSafe
  <1> QED
    BY <1>1, <1>2, <1>3 DEF IInv

(* A step before the files are copied: their set may still change.         *)
LEMMA EarlyStep ==
    ASSUME IInv, TreeTypeOK',
           at \in {"list", "collide"},
           UNCHANGED <<treePlan, first, late, source, dest, tried, copied>>,
           NamesDistinct', DeletesLast', LinkKnown', at' # "copy" => NotYet'
    PROVE  IInv'
  <1>1. tried = {} /\ tried' = {} /\ copied' = {}
    BY DEF IInv, NotYet, TreeTypeOK
  <1>2. NotYet' /\ CopiedThere'
    BY <1>1 DEF NotYet, CopiedThere
  <1>3. NothingLost' /\ LinkedFolderKept'
    BY DEF IInv, NothingLost, LinkedFolderKept, Known, TreeSafe, NameOf
  <1> QED
    BY <1>2, <1>3 DEF IInv

(* A copy: the source is whole, and no other copy has this file's name.    *)
LEMMA CopyStep ==
    ASSUME IInv, TreeTypeOK', NEW n \in files, CopyFile(n)
    PROVE  IInv'
  <1>1. /\ at = "copy" /\ n \in files \ tried /\ at' \in {"copy", "end"}
        /\ UNCHANGED <<world, source, planning, made, deleted>>
    BY DEF CopyFile, StopWith
  <1>2. source = Known /\ result = "none"
    BY <1>1 DEF IInv, DeletesLast
  <1>3. source' = Known'
    BY <1>1, <1>2 DEF Known, world
  <1>4. NotYet' /\ NothingLost' /\ LinkedFolderKept'
    BY <1>1, <1>3 DEF NotYet, NothingLost, LinkedFolderKept
  <1>5. DeletesLast'
    BY <1>1, <1>2, <1>3 DEF CopyFile, StopWith, DeletesLast
  <1>6. NamesDistinct'
    BY <1>1 DEF IInv, NamesDistinct, NameOf, world, planning
  <1>7. LinkKnown'
    BY <1>1 DEF IInv, LinkKnown, NoticedLink, TreeSafe, world, planning
  <1>8. CopiedThere'
    <2>1. treePlan' = treePlan /\ n \in Node /\ NameOf(n) \in Names /\ DOMAIN dest = Names
      BY <1>1, SourceTyped, Constants DEF IInv, TreeTypeOK, world
    <2>2. \A m \in copied : dest[NameOf(m)] = m /\ NameOf(m) # NameOf(n)
      BY <1>1 DEF IInv, TreeTypeOK, NamesDistinct, CopiedThere
    <2>3. CASE copied' = copied /\ \A m \in copied : dest'[NameOf(m)] = dest[NameOf(m)]
      BY <2>1, <2>2, <2>3 DEF CopiedThere, NameOf
    <2>4. CASE copied' = copied \cup {n} /\ dest' = [dest EXCEPT ![NameOf(n)] = n]
      <3>1. dest'[NameOf(n)] = n
        BY <2>1, <2>4
      <3>2. \A m \in copied : dest'[NameOf(m)] = m
        BY <2>1, <2>2, <2>4, SourceTyped, Constants DEF IInv, TreeTypeOK
      <3> QED
        BY <2>1, <2>4, <3>1, <3>2 DEF CopiedThere, NameOf
    <2>5. \/ copied' = copied \cup {n} /\ dest' = [dest EXCEPT ![NameOf(n)] = n]
          \/ /\ copied' = copied
             /\ \/ dest' = dest
                \/ \E left : dest' = [dest EXCEPT ![NameOf(n)] = left]
      BY DEF CopyFile
    <2>6. ASSUME NEW left, dest' = [dest EXCEPT ![NameOf(n)] = left]
          PROVE  \A m \in copied : dest'[NameOf(m)] = dest[NameOf(m)]
      BY <2>1, <2>2, <2>6, SourceTyped, Constants DEF IInv, TreeTypeOK
    <2> QED
      BY <2>3, <2>4, <2>5, <2>6
  <1> QED
    BY <1>4, <1>5, <1>6, <1>7, <1>8 DEF IInv

(* A deletion: only folders and copied files go, and no linked folder.     *)
LEMMA DeleteStep ==
    ASSUME IInv, TreeTypeOK', at = "delete", source' \subseteq source,
           \A n \in source \ source' : n \in copied \/ Kind[n] = "dir",
           UNCHANGED <<world, dest, at, planning, made, tried, copied, failed, result>>
    PROVE  IInv'
  <1> USE DEF world, planning
  <1>1. Known' = Known
    BY DEF Known
  <1>2. NotYet' /\ NamesDistinct' /\ CopiedThere'
    BY DEF IInv, NotYet, NamesDistinct, CopiedThere, NameOf
  <1>3. DeletesLast' /\ LinkKnown'
    BY DEF IInv, DeletesLast, LinkKnown, NoticedLink, TreeSafe
  <1>4. NothingLost'
    <2> SUFFICES ASSUME NEW n \in Known \ source', Kind[n] # "dir"
                 PROVE  n \in Files /\ dest[NameOf(n)] = n
      BY <1>1 DEF NothingLost, NameOf
    <2>1. CASE n \in source
      BY <2>1 DEF IInv, CopiedThere, TreeTypeOK
    <2>2. CASE n \notin source
      BY <2>2 DEF IInv, NothingLost
    <2> QED
      BY <2>1, <2>2
  <1>5. LinkedFolderKept'
    BY DEF IInv, LinkKnown, NoticedLink, LinkedFolderKept, TreeSafe
  <1> QED
    BY <1>2, <1>3, <1>4, <1>5 DEF IInv

(* A new entry is in the source and among what is known.                   *)
LEMMA AppearStep ==
    ASSUME IInv, TreeTypeOK', NEW n \in Late, Appear(n)
    PROVE  IInv'
  <1>1. /\ source' = source \cup {n} /\ Known' = Known \cup {n}
        /\ n \notin Known
    BY DEF Appear, Known
  <1>2. UNCHANGED <<treePlan, dest, at, planning, made, tried, copied, failed, deleted, result>>
    BY DEF Appear
  <1>3. Known' \ source' \subseteq Known \ source
    BY <1>1
  <1>4. NotYet' /\ NamesDistinct' /\ CopiedThere'
    BY <1>2 DEF IInv, NotYet, NamesDistinct, CopiedThere, NameOf, planning
  <1>5. DeletesLast' /\ LinkKnown'
    BY <1>1, <1>2 DEF IInv, DeletesLast, LinkKnown, NoticedLink, TreeSafe, planning
  <1>6. NothingLost'
    BY <1>2, <1>3 DEF IInv, NothingLost, NameOf
  <1>7. LinkedFolderKept'
    BY <1>1, <1>2 DEF IInv, LinkedFolderKept, TreeSafe
  <1> QED
    BY <1>4, <1>5, <1>6, <1>7 DEF IInv

-----------------------------------------------------------------------------
(* The invariant holds in every reachable state.                           *)
THEOREM Inductive == TreeSpec => []IInv
  <1>1. ASSUME IInv, [TreeNext]_treeVars PROVE IInv'
    <2>1. TreeTypeOK'
      BY <1>1, TypeStep DEF IInv
    <2> USE <1>1, <2>1 DEF world, planning
    <2>2. CASE StatRoot
      <3>1. /\ at = "stat" /\ at' \in {"parent", "list", "end"}
            /\ UNCHANGED <<world, source, dest, planning, made, tried, copied, failed, deleted>>
            /\ at' = "list" => ~ (treePlan.isMove /\ ~ treePlan.store)
            /\ at' = "end" <=> result' # "none"
        BY <2>2 DEF StatRoot, AfterRoot, GoTo, StopWith, IInv, DeletesLast
      <3>2. NotYet' /\ DeletesLast' /\ LinkKnown'
        BY <3>1 DEF IInv, NotYet, DeletesLast, LinkKnown, NoticedLink, Known, TreeSafe
      <3> QED
        BY <3>1, <3>2, QuietStep
    <2>3. CASE IsSymlink
      <3>1. /\ at = "parent" /\ at' = "list" /\ result' = result
            /\ UNCHANGED <<world, source, dest, files, made, tried, copied, failed, deleted>>
            /\ NoticedLink => rootIsLink'
        BY <2>3 DEF IsSymlink, GoTo, NoticedLink, TreeSafe, TreeMay
      <3>2. NotYet' /\ DeletesLast' /\ LinkKnown'
        BY <3>1 DEF IInv, NotYet, DeletesLast, LinkKnown, NoticedLink, Known, TreeSafe
      <3> QED
        BY <3>1, <3>2, QuietStep
    <2>4. ASSUME NEW d \in stack, ListDir(d) PROVE IInv'
      <3>1. /\ at = "list" /\ at' \in {"list", "end"}
            /\ at' = "end" => result' \in {"Cancelled", "Failed"}
            /\ at' = "list" => result' = result
            /\ UNCHANGED <<world, source, dest, rootIsLink, made, tried, copied, deleted>>
        BY <2>4 DEF ListDir, StopWith
      <3>2. NotYet' /\ DeletesLast' /\ LinkKnown' /\ NamesDistinct'
        BY <3>1 DEF IInv, NotYet, DeletesLast, LinkKnown, NoticedLink, Known, TreeSafe, NamesDistinct
      <3> QED
        BY <3>1, <3>2, EarlyStep
    <2>5. CASE Planned \/ AllMade
      <3>1. NotYet' /\ DeletesLast' /\ LinkKnown'
        BY <2>5 DEF Planned, AllMade, GoTo, IInv, NotYet, DeletesLast, LinkKnown, NoticedLink,
                    Known, TreeSafe
      <3> QED
        BY <2>5, <3>1, QuietStep DEF Planned, AllMade, GoTo
    <2>6. ASSUME NEW d \in dirs, MakeDir(d) PROVE IInv'
      <3>1. /\ at = "mkdir" /\ at' \in {"mkdir", "end"}
            /\ at' = "end" => result' = "Failed"
            /\ at' = "mkdir" => result' = result
            /\ UNCHANGED <<world, source, dest, planning, tried, copied, deleted>>
        BY <2>6 DEF MakeDir, StopWith
      <3>2. NotYet' /\ DeletesLast' /\ LinkKnown'
        BY <3>1 DEF IInv, NotYet, DeletesLast, LinkKnown, NoticedLink, Known, TreeSafe
      <3> QED
        BY <3>1, <3>2, QuietStep
    <2>7. CASE RefuseCollisions
      <3>1. /\ at = "collide" /\ at' = "copy" /\ result' = result
            /\ UNCHANGED <<world, source, dest, rootIsLink, made, tried, copied, deleted>>
        BY <2>7 DEF RefuseCollisions, GoTo
      <3>2. NamesDistinct'
        BY <2>7, <3>1 DEF RefuseCollisions, WithoutCollisions, Collide, FoldsAsSeen,
                          NamesDistinct, NameOf
      <3>3. DeletesLast' /\ LinkKnown'
        BY <3>1 DEF IInv, DeletesLast, LinkKnown, NoticedLink, Known, TreeSafe
      <3> QED
        BY <3>1, <3>2, <3>3, EarlyStep
    <2>8. ASSUME NEW n \in files, CopyFile(n) PROVE IInv'
      BY <2>8, CopyStep
    <2>9. CASE AllTried
      <3>1. /\ at = "copy" /\ at' \in {"judge", "end"}
            /\ at' = "judge" => treePlan.isMove /\ result' = result
            /\ at' = "end" => result' \in {"Failed", "Completed"}
            /\ UNCHANGED <<world, source, dest, planning, made, tried, copied, failed, deleted>>
        BY <2>9 DEF AllTried, GoTo, StopWith
      <3>2. NotYet' /\ DeletesLast' /\ LinkKnown'
        BY <3>1 DEF IInv, NotYet, DeletesLast, LinkKnown, NoticedLink, Known, TreeSafe
      <3> QED
        BY <3>1, <3>2, QuietStep
    <2>10. CASE Judge
      <3>1. /\ at = "judge" /\ at' \in {"unlink", "delete", "end"}
            /\ at' = "end" => result' = "Cancelled"
            /\ at' # "end" => result' = result
            /\ at' = "delete" => ~ rootIsLink
            /\ UNCHANGED <<world, source, dest, planning, made, tried, copied, failed, deleted>>
        BY <2>10 DEF Judge, GoTo, StopWith
      <3>2. NotYet' /\ DeletesLast' /\ LinkKnown'
        BY <3>1 DEF IInv, NotYet, DeletesLast, LinkKnown, NoticedLink, Known, TreeSafe
      <3> QED
        BY <3>1, <3>2, QuietStep
    <2>11. CASE RemoveLink \/ AllDeleted
      <3>1. /\ at \in {"unlink", "delete"} /\ at' = "end" /\ result' = "Completed"
            /\ UNCHANGED <<world, source, dest, planning, made, tried, copied, failed, deleted>>
        BY <2>11 DEF RemoveLink, AllDeleted, StopWith
      <3>2. NotYet' /\ DeletesLast' /\ LinkKnown'
        BY <3>1 DEF IInv, NotYet, DeletesLast, LinkKnown, NoticedLink, Known, TreeSafe
      <3> QED
        BY <3>1, <3>2, QuietStep
    <2>12. ASSUME NEW n \in copied, DeleteFile(n) PROVE IInv'
      BY <2>12, DeleteStep DEF DeleteFile
    <2>13. ASSUME NEW d \in dirs, DeleteDir(d) PROVE IInv'
      <3>1. \A n \in source \ source' : n \in copied \/ Kind[n] = "dir"
        BY <2>13, SourceTyped, Constants DEF DeleteDir, IInv, TreeTypeOK, IsDir
      <3> QED
        BY <2>13, <3>1, DeleteStep DEF DeleteDir
    <2>14. CASE CancelOrClear
      <3>1. NotYet' /\ DeletesLast' /\ LinkKnown'
        BY <2>14 DEF CancelOrClear, IInv, NotYet, DeletesLast, LinkKnown, NoticedLink, Known, TreeSafe
      <3> QED
        BY <2>14, <3>1, QuietStep DEF CancelOrClear
    <2>15. ASSUME NEW n \in Late, Appear(n) PROVE IInv'
      BY <2>15, AppearStep
    <2>16. CASE UNCHANGED treeVars
      <3>1. NotYet' /\ DeletesLast' /\ LinkKnown'
        BY <2>16 DEF treeVars, IInv, NotYet, DeletesLast, LinkKnown, NoticedLink, Known, TreeSafe
      <3> QED
        BY <2>16, <3>1, QuietStep DEF treeVars
    <2> QED
      BY <2>2, <2>3, <2>4, <2>5, <2>6, <2>7, <2>8, <2>9, <2>10, <2>11, <2>12, <2>13, <2>14,
         <2>15, <2>16
      DEF TreeNext, JobStep
  <1> QED
    BY InitIInv, <1>1, PTL DEF TreeSpec

(* Every variable stays in its range: nothing is copied that was not       *)
(* planned, nothing deleted that was not copied or a folder of the plan.   *)
THEOREM TypeCorrect == TreeSpec => []TreeTypeOK
  <1>1. IInv => TreeTypeOK
    BY DEF IInv
  <1> QED
    BY <1>1, Inductive, PTL

(* What is gone from the source is at the destination under its own name,  *)
(* or was a folder: in any tree, whatever fails, whatever else appears.    *)
THEOREM NothingIsLost == TreeSpec => []NothingLost
  <1>1. IInv => NothingLost
    BY DEF IInv
  <1> QED
    BY <1>1, Inductive, PTL

(* A failed or cancelled transfer of a folder has deleted nothing.         *)
THEOREM FailureDeletesNothing == TreeSpec => []FailedKeepsSource
  <1>1. IInv => FailedKeepsSource
    BY DEF IInv, DeletesLast, FailedKeepsSource
  <1> QED
    BY <1>1, Inductive, PTL

(* A move of a link leaves the folder behind it alone, where the parent of *)
(* the link can be listed.                                                 *)
THEOREM LinkedFolderIsKept == TreeSpec => []LinkedFolderKept
  <1>1. IInv => LinkedFolderKept
    BY DEF IInv
  <1> QED
    BY <1>1, Inductive, PTL

(* What is deleted was copied: no entry is lost, a failure deletes         *)
(* nothing, and a linked folder keeps its files.                           *)
THEOREM OnlyCopiedIsDeleted == TreeSpec => []DeletesOnlyCopied
  BY NothingIsLost, FailureDeletesNothing, LinkedFolderIsKept, PTL DEF DeletesOnlyCopied

-----------------------------------------------------------------------------
(* A Completed folder is whole.  What is planned grows from the root: of a *)
(* folder that was listed, every file and folder is in the plan.           *)
ListedWhole ==
    at \in {"stat", "parent", "list"} /\ ~ failed =>
        /\ Root \in dirs
        /\ \A n \in first : Parent[n] \in dirs \ stack =>
              /\ Kind[n] = "file" => n \in files
              /\ Kind[n] = "dir" => n \in dirs

PlanWhole ==
    at \in {"mkdir", "collide", "copy"} /\ ~ failed =>
        \A n \in first : Kind[n] = "file" => n \in files

TriedCopied == at = "copy" /\ ~ failed => tried = copied

(* A move deletes, and a transfer is Completed, after all were copied.     *)
CopiedWhole ==
    at \in {"judge", "unlink", "delete"} \/ result = "Completed" =>
        \A n \in first : Kind[n] = "file" => n \in copied

WInv == IInv /\ ListedWhole /\ PlanWhole /\ TriedCopied /\ CopiedWhole

(* Of natural numbers there is a least one: what stands here for an        *)
(* induction on the depth of the tree.                                     *)
Less == {p \in Nat \X Nat : p[1] < p[2]}

LEMMA LeastNatural ==
    ASSUME NEW T, T \subseteq Nat, T # {}
    PROVE  \E m \in T : \A k \in T : m <= k
  <1>1. IsWellFoundedOn(Less, Nat)
    BY NatLessThanWellFounded DEF OpToRel, Less
  <1>2. PICK m \in T : \A k \in T : ~ (<<k, m>> \in Less)
    BY <1>1, WFMin
  <1>3. ASSUME NEW k \in T PROVE m <= k
    <2>1. ~ (<<k, m>> \in Less)
      BY <1>2
    <2> QED
      BY <2>1 DEF Less
  <1> QED
    BY <1>3

(* Once no folder is left to be listed, every file is in the plan: one     *)
(* that is not would be in a folder that is not, and so on up to the root. *)
LEMMA ListedAll ==
    ASSUME IInv, ListedWhole, at = "list", ~ failed, stack = {}
    PROVE  \A n \in first : Kind[n] = "file" => n \in files
  <1> DEFINE missed == {n \in first : Parent[n] \notin dirs}
             depths == {Depth[n] : n \in missed}
  <1>1. /\ first \subseteq Node /\ TreeLike(first)
        /\ Parent \in [Node -> Node \cup {Root}]
    BY TreeAssumption DEF IInv, TreeTypeOK, TreeAssumption
  <1>2. missed = {}
    <2> SUFFICES ASSUME missed # {} PROVE FALSE
      OBVIOUS
    <2>1. depths \subseteq Nat /\ depths # {}
      BY <1>1, DepthAssumption DEF DepthAssumption
    <2>2. PICK m \in missed : \A n \in missed : Depth[m] <= Depth[n]
      <3> HIDE DEF missed
      <3>1. PICK least \in depths : \A k \in depths : least <= k
        BY <2>1, LeastNatural
      <3> QED
        BY <3>1
    <2>3. /\ Parent[m] \in first /\ Kind[Parent[m]] = "dir" /\ Parent[m] \in Node
          /\ Depth[m] = Depth[Parent[m]] + 1 /\ Depth[Parent[m]] \in Nat
      BY <1>1, DepthAssumption, TreeAssumption DEF TreeLike, IsDir, ListedWhole, DepthAssumption, TreeAssumption
    <2>4. Parent[m] \notin missed
      BY <2>2, <2>3
    <2> QED
      BY <2>3, <2>4 DEF ListedWhole
  <1> QED
    BY <1>2 DEF ListedWhole

(* What is left of a step that only moves on: the parts about phases it    *)
(* does not enter hold as they held.                                       *)
LEMMA PassStep ==
    ASSUME WInv, UNCHANGED <<first, stack, dirs, files, tried, copied>>,
           failed' \in {failed, TRUE},
           at' \in {at, "end"} \/ (at \in {"stat", "parent"} /\ at' \in {"parent", "list"}),
           result' \in {result, "Failed", "Cancelled"}
    PROVE  (ListedWhole /\ PlanWhole /\ TriedCopied /\ CopiedWhole)'
  BY DEF WInv, ListedWhole, PlanWhole, TriedCopied, CopiedWhole

(* A folder is listed: what is in it gets into the plan, or the transfer   *)
(* is a failure.                                                           *)
LEMMA ListStep ==
    ASSUME WInv, NEW d \in stack, ListDir(d)
    PROVE  (ListedWhole /\ PlanWhole /\ TriedCopied /\ CopiedWhole)'
  <1>1. at = "list" /\ at' \in {"list", "end"} /\ first' = first /\ copied' = copied
        /\ result' \in {result, "Failed", "Cancelled"} /\ source = first \cup late /\ result = "none"
    BY DEF ListDir, StopWith, WInv, IInv, DeletesLast, Known, world
  <1>2. ASSUME at' = "list", ~ failed' PROVE ListedWhole'
    <2>1. /\ stack' = (stack \ {d}) \cup FoldersIn(d) /\ dirs' = dirs \cup FoldersIn(d)
          /\ \E unread \in SUBSET {n \in FilesIn(d) : Kind[n] = "linkToFile"} :
                files' = files \cup (FilesIn(d) \ unread)
          /\ ~ failed /\ Refused(d) = {}
      BY <1>1, <1>2 DEF ListDir, StopWith
    <2>2. ASSUME NEW n \in first, Parent[n] = d
          PROVE  (Kind[n] = "file" => n \in files') /\ (Kind[n] = "dir" => n \in dirs')
      <3>1. n \in Children(d) /\ n \in Node
        BY <1>1, <2>2, SourceTyped DEF Children, WInv, IInv
      <3>2. CASE Kind[n] = "file"
        BY <3>1, <3>2, <2>1 DEF FilesIn, Files
      <3>3. CASE Kind[n] = "dir"
        <4>1. Depth[d] \in Nat /\ MaxDepth \in Nat
          BY DepthAssumption, TreeAssumption DEF DepthAssumption, TreeAssumption, WInv, IInv, TreeTypeOK
        <4> QED
          BY <4>1, <3>1, <3>3, <2>1 DEF Refused, FoldersIn
      <3> QED
        BY <3>2, <3>3
    <2>3. ASSUME NEW n \in first, Parent[n] \in dirs' \ stack', Parent[n] # d
          PROVE  (Kind[n] = "file" => n \in files') /\ (Kind[n] = "dir" => n \in dirs')
      BY <1>1, <2>1, <2>3 DEF WInv, ListedWhole
    <2>4. Root \in dirs'
      BY <1>1, <2>1 DEF WInv, ListedWhole
    <2> QED
      BY <1>1, <2>2, <2>3, <2>4 DEF ListedWhole
  <1>3. ListedWhole'
    BY <1>1, <1>2 DEF ListedWhole
  <1>4. PlanWhole' /\ TriedCopied' /\ CopiedWhole'
    BY <1>1 DEF WInv, PlanWhole, TriedCopied, CopiedWhole
  <1> QED
    BY <1>3, <1>4

LEMMA WStep == WInv /\ [TreeNext]_treeVars => (ListedWhole /\ PlanWhole /\ TriedCopied /\ CopiedWhole)'
  <1> SUFFICES ASSUME WInv, [TreeNext]_treeVars
               PROVE  (ListedWhole /\ PlanWhole /\ TriedCopied /\ CopiedWhole)'
    OBVIOUS
  <1> USE DEF world, planning
  <1>1. CASE StatRoot \/ IsSymlink
    BY <1>1, PassStep DEF StatRoot, IsSymlink, AfterRoot, GoTo, StopWith
  <1>2. ASSUME NEW d \in stack, ListDir(d)
        PROVE  (ListedWhole /\ PlanWhole /\ TriedCopied /\ CopiedWhole)'
    BY <1>2, ListStep
  <1>3. CASE Planned
    <2>1. ~ failed => \A n \in first : Kind[n] = "file" => n \in files
      BY <1>3, ListedAll DEF Planned, WInv
    <2> QED
      BY <1>3, <2>1 DEF Planned, GoTo, WInv, ListedWhole, PlanWhole, TriedCopied, CopiedWhole
  <1>4. ASSUME NEW d \in dirs, MakeDir(d)
        PROVE  (ListedWhole /\ PlanWhole /\ TriedCopied /\ CopiedWhole)'
    BY <1>4, PassStep DEF MakeDir, StopWith
  <1>5. CASE AllMade
    BY <1>5 DEF AllMade, GoTo, WInv, ListedWhole, PlanWhole, TriedCopied, CopiedWhole
  <1>6. CASE RefuseCollisions
    <2>1. /\ at = "collide" /\ at' = "copy" /\ result' = result /\ UNCHANGED <<first, tried, copied>>
          /\ ~ failed' => ~ failed /\ files' = files
      BY <1>6 DEF RefuseCollisions, GoTo
    <2>2. tried = {} /\ copied = {} /\ result = "none"
      BY <2>1 DEF WInv, IInv, NotYet, DeletesLast, TreeTypeOK
    <2> QED
      BY <2>1, <2>2 DEF WInv, ListedWhole, PlanWhole, TriedCopied, CopiedWhole
  <1>7. ASSUME NEW n \in files, CopyFile(n)
        PROVE  (ListedWhole /\ PlanWhole /\ TriedCopied /\ CopiedWhole)'
    <2>1. /\ at = "copy" /\ at' \in {"copy", "end"} /\ UNCHANGED <<first, files>> /\ copied \subseteq copied'
          /\ ~ failed' => ~ failed
          /\ at' = "copy" /\ ~ failed' => tried' = tried \cup {n} /\ copied' = copied \cup {n}
          /\ result' \in {result, "Cancelled"}
      BY <1>7 DEF CopyFile, StopWith
    <2> QED
      BY <2>1 DEF WInv, ListedWhole, PlanWhole, TriedCopied, CopiedWhole
  <1>8. CASE AllTried
    <2>1. /\ at = "copy" /\ tried = files /\ at' \in {"judge", "end"} /\ UNCHANGED <<first, copied>>
          /\ at' = "judge" \/ result' = "Completed" => ~ failed
      BY <1>8 DEF AllTried, GoTo, StopWith, WInv, IInv, DeletesLast
    <2> QED
      BY <2>1 DEF WInv, ListedWhole, PlanWhole, TriedCopied, CopiedWhole
  <1>9. CASE Judge \/ RemoveLink \/ AllDeleted
    <2>1. /\ at \in {"judge", "unlink", "delete"} /\ at' \in {"unlink", "delete", "end"}
          /\ UNCHANGED <<first, copied>>
      BY <1>9 DEF Judge, RemoveLink, AllDeleted, GoTo, StopWith
    <2> QED
      BY <2>1 DEF WInv, ListedWhole, PlanWhole, TriedCopied, CopiedWhole
  <1>10. ASSUME NEW n \in copied, DeleteFile(n)
         PROVE  (ListedWhole /\ PlanWhole /\ TriedCopied /\ CopiedWhole)'
    BY <1>10, PassStep DEF DeleteFile
  <1>11. ASSUME NEW d \in dirs, DeleteDir(d)
         PROVE  (ListedWhole /\ PlanWhole /\ TriedCopied /\ CopiedWhole)'
    BY <1>11, PassStep DEF DeleteDir
  <1>12. CASE CancelOrClear
    BY <1>12, PassStep DEF CancelOrClear
  <1>13. ASSUME NEW n \in Late, Appear(n)
         PROVE  (ListedWhole /\ PlanWhole /\ TriedCopied /\ CopiedWhole)'
    BY <1>13, PassStep DEF Appear
  <1>14. CASE UNCHANGED treeVars
    BY <1>14, PassStep DEF treeVars
  <1> QED
    BY <1>1, <1>2, <1>3, <1>4, <1>5, <1>6, <1>7, <1>8, <1>9, <1>10, <1>11, <1>12, <1>13, <1>14
    DEF TreeNext, JobStep

(* A folder is Completed only when every regular file it held at the start *)
(* is at the destination under its own name: for trees of any depth.       *)
THEOREM CompletedIsWholeTree == TreeSpec => []CompletedIsWhole
  <1>1. TreeInit => ListedWhole /\ PlanWhole /\ TriedCopied /\ CopiedWhole
    <2> SUFFICES ASSUME TreeInit PROVE ListedWhole /\ PlanWhole /\ TriedCopied /\ CopiedWhole
      OBVIOUS
    <2>1. PlanWhole /\ TriedCopied /\ CopiedWhole
      BY DEF TreeInit, PlanWhole, TriedCopied, CopiedWhole
    <2>2. dirs \ stack = {} /\ Root \in dirs
      BY DEF TreeInit
    <2> QED
      BY <2>1, <2>2 DEF ListedWhole
  <1>2. IInv /\ ListedWhole /\ PlanWhole /\ TriedCopied /\ CopiedWhole => WInv
    BY DEF WInv
  <1>3. CopiedWhole /\ IInv => CompletedIsWhole
    BY DEF IInv, CopiedThere, CopiedWhole, CompletedIsWhole
  <1> QED
    BY <1>1, <1>2, <1>3, Inductive, WStep, PTL DEF TreeSpec

(* ----------------------------- the editor ------------------------------ *)
WatcherAt == {"open", "launch", "poll", "stamp", "upload", "uploading", "end", "finish", "over"}
StampSet == [ver : Nat, whole : BOOLEAN]

EditTyped ==
    /\ connected \in BOOLEAN /\ remote \in StampSet
    /\ copy \in StampSet
    /\ edits \in Nat /\ saved \in Nat /\ saved <= edits
    /\ watcher \in [at : WatcherAt, alive : BOOLEAN, stamp : StampSet,
                    uploaded : StampSet, pending : StampSet,
                    unsynced : BOOLEAN, edge : BOOLEAN]
    /\ folder \in {"none", "there", "removed"}

(* What the copy holds follows from what the editor is about.              *)
CopyOf ==
    IF edits = saved THEN copy = [ver |-> edits, whole |-> TRUE]
    ELSE edits = saved + 1 /\ copy \in {Missing, [ver |-> edits, whole |-> FALSE]}

(* A stamp the copy has had is the copy's still, or will not come again.   *)
Spent(s) == s.ver < edits \/ (s.ver = edits /\ edits = saved /\ ~s.whole)
Seen(s)  == s = Missing \/ s = copy \/ Spent(s)

InStep == remote = watcher.uploaded \/ Spent(watcher.uploaded)

NotYetWatched ==
    /\ watcher.at \notin {"open", "over"} => folder = "there"
    /\ watcher.at = "open" => folder = "none"
    /\ watcher.at \in {"open", "launch"} =>
          /\ remote = [ver |-> 1, whole |-> TRUE] /\ edits = 1 /\ saved = 1 /\ ~watcher.unsynced
          /\ watcher.at = "open" => watcher.stamp = Missing /\ watcher.uploaded = Missing
          /\ watcher.at = "launch" => copy = remote /\ remote = watcher.uploaded
CopySound == folder = "there" => CopyOf /\ Seen(watcher.stamp) /\ Seen(watcher.uploaded)
RoundSound ==
    /\ watcher.at \in {"poll", "stamp", "end"} /\ ~watcher.unsynced => InStep
    /\ watcher.at \in {"upload", "uploading"} => watcher.unsynced /\ watcher.stamp # Missing
    /\ watcher.at \in {"end", "finish"} /\ ~watcher.unsynced /\ ~watcher.edge => remote = watcher.stamp

EditInv == EditTyped /\ NotYetWatched /\ CopySound /\ RoundSound /\ EditsArrive

LEMMA EditStamps ==
    /\ Missing \in StampSet /\ Missing.ver = 0
    /\ \A n \in Nat, b \in BOOLEAN : [ver |-> n, whole |-> b] \in StampSet
    /\ \A s \in StampSet, b \in BOOLEAN : [s EXCEPT !.whole = b] \in StampSet
    /\ \A s \in StampSet : s.ver \in Nat /\ s.whole \in BOOLEAN
  BY DEF StampSet, Missing

LEMMA InitEdit == EditInit => EditInv
  BY DEF EditInit, EditInv, EditTyped, NotYetWatched, CopySound, RoundSound,
         Missing, NoStamp, StampSet, WatcherAt, EditsArrive

LEMMA NextEdit == EditInv /\ [EditNext]_editVars => EditInv'
  <1> SUFFICES ASSUME EditInv, [EditNext]_editVars PROVE EditInv'
    OBVIOUS
  <1>i. EditTyped /\ NotYetWatched /\ CopySound /\ RoundSound /\ EditsArrive
    BY DEF EditInv
  <1>1. CASE Download
    <2>1. EditTyped'
      BY <1>1, <1>i, EditStamps, EditAssumption
         DEF Download, Turns, EditTyped, WatcherAt, NoStamp, EditAssumption
    <2>2. NotYetWatched'
      BY <1>1, <1>i DEF Download, Turns, EditTyped, NotYetWatched
    <2>3. CopySound'
      BY <1>1, <1>i, EditStamps DEF Download, Turns, EditTyped, NotYetWatched, CopySound, CopyOf, Seen, Spent, NoStamp
    <2>4. RoundSound'
      BY <1>1, <1>i, EditStamps
         DEF Download, Turns, EditTyped, NotYetWatched, CopySound, CopyOf, Seen, Spent, RoundSound, InStep, NoStamp
    <2>5. EditsArrive'
      BY <1>1, <1>i DEF Download, Turns, EditTyped, NotYetWatched, RoundSound, EditsArrive
    <2> QED
      BY <2>1, <2>2, <2>3, <2>4, <2>5 DEF EditInv
  <1>2. CASE Launch
    <2>1. EditTyped'
      BY <1>2, <1>i, EditStamps, EditAssumption
         DEF Launch, Turns, EditTyped, WatcherAt, NoStamp, EditAssumption
    <2>2. NotYetWatched'
      BY <1>2, <1>i DEF Launch, Turns, EditTyped, NotYetWatched
    <2>3. CopySound'
      BY <1>2, <1>i, EditStamps DEF Launch, Turns, EditTyped, NotYetWatched, CopySound, CopyOf, Seen, Spent, NoStamp
    <2>4. RoundSound'
      BY <1>2, <1>i, EditStamps
         DEF Launch, Turns, EditTyped, NotYetWatched, CopySound, CopyOf, Seen, Spent, RoundSound, InStep, NoStamp
    <2>5. EditsArrive'
      BY <1>2, <1>i DEF Launch, Turns, EditTyped, NotYetWatched, RoundSound, EditsArrive
    <2> QED
      BY <2>1, <2>2, <2>3, <2>4, <2>5 DEF EditInv
  <1>3. CASE SaveBegins
    <2>8. edits + 1 \in Nat
      BY <1>i DEF EditTyped
    <2>9. [ver |-> edits + 1, whole |-> FALSE] \in StampSet
      BY <2>8 DEF StampSet
    <2>7. copy' \in StampSet
      BY <1>3, <2>9, EditStamps DEF SaveBegins
    <2>1. EditTyped'
      BY <1>3, <1>i, EditStamps, EditAssumption, <2>7
         DEF SaveBegins, Turns, EditTyped, WatcherAt, NoStamp, EditAssumption
    <2>2. NotYetWatched'
      BY <1>3, <1>i DEF SaveBegins, Turns, EditTyped, NotYetWatched
    <2>3. CopySound'
      BY <1>3, <1>i, EditStamps DEF SaveBegins, Turns, EditTyped, NotYetWatched, CopySound, CopyOf, Seen, Spent, NoStamp
    <2>4. RoundSound'
      BY <1>3, <1>i, EditStamps
         DEF SaveBegins, Turns, EditTyped, NotYetWatched, CopySound, CopyOf, Seen, Spent, RoundSound, InStep, NoStamp
    <2>5. EditsArrive'
      BY <1>3, <1>i DEF SaveBegins, Turns, EditTyped, NotYetWatched, RoundSound, EditsArrive
    <2> QED
      BY <2>1, <2>2, <2>3, <2>4, <2>5 DEF EditInv
  <1>4. CASE SaveEnds
    <2>7. copy' \in StampSet
      BY <1>4, <1>i DEF SaveEnds, EditTyped, StampSet, Missing
    <2>1. EditTyped'
      BY <1>4, <1>i, EditStamps, EditAssumption, <2>7
         DEF SaveEnds, Turns, EditTyped, WatcherAt, NoStamp, EditAssumption
    <2>2. NotYetWatched'
      BY <1>4, <1>i DEF SaveEnds, Turns, EditTyped, NotYetWatched
    <2>3. CopySound'
      BY <1>4, <1>i, EditStamps DEF SaveEnds, Turns, EditTyped, NotYetWatched, CopySound, CopyOf, Seen, Spent, NoStamp
    <2>4. RoundSound'
      BY <1>4, <1>i, EditStamps
         DEF SaveEnds, Turns, EditTyped, NotYetWatched, CopySound, CopyOf, Seen, Spent, RoundSound, InStep, NoStamp
    <2>5. EditsArrive'
      BY <1>4, <1>i DEF SaveEnds, Turns, EditTyped, NotYetWatched, RoundSound, EditsArrive
    <2> QED
      BY <2>1, <2>2, <2>3, <2>4, <2>5 DEF EditInv
  <1>5. CASE Disconnects
    <2>1. EditTyped'
      BY <1>5, <1>i, EditStamps, EditAssumption
         DEF Disconnects, Turns, EditTyped, WatcherAt, NoStamp, EditAssumption
    <2>2. NotYetWatched'
      BY <1>5, <1>i DEF Disconnects, Turns, EditTyped, NotYetWatched
    <2>3. CopySound'
      BY <1>5, <1>i, EditStamps DEF Disconnects, Turns, EditTyped, NotYetWatched, CopySound, CopyOf, Seen, Spent, NoStamp
    <2>4. RoundSound'
      BY <1>5, <1>i, EditStamps
         DEF Disconnects, Turns, EditTyped, NotYetWatched, CopySound, CopyOf, Seen, Spent, RoundSound, InStep, NoStamp
    <2>5. EditsArrive'
      BY <1>5, <1>i DEF Disconnects, Turns, EditTyped, NotYetWatched, RoundSound, EditsArrive
    <2> QED
      BY <2>1, <2>2, <2>3, <2>4, <2>5 DEF EditInv
  <1>6. CASE LookAlive
    <2>1. EditTyped'
      BY <1>6, <1>i, EditStamps, EditAssumption
         DEF LookAlive, Turns, EditTyped, WatcherAt, NoStamp, EditAssumption
    <2>2. NotYetWatched'
      BY <1>6, <1>i DEF LookAlive, Turns, EditTyped, NotYetWatched
    <2>3. CopySound'
      BY <1>6, <1>i, EditStamps DEF LookAlive, Turns, EditTyped, NotYetWatched, CopySound, CopyOf, Seen, Spent, NoStamp
    <2>4. RoundSound'
      BY <1>6, <1>i, EditStamps
         DEF LookAlive, Turns, EditTyped, NotYetWatched, CopySound, CopyOf, Seen, Spent, RoundSound, InStep, NoStamp
    <2>5. EditsArrive'
      BY <1>6, <1>i DEF LookAlive, Turns, EditTyped, NotYetWatched, RoundSound, EditsArrive
    <2> QED
      BY <2>1, <2>2, <2>3, <2>4, <2>5 DEF EditInv
  <1>7. CASE LookStamp
    <2>1. EditTyped'
      BY <1>7, <1>i, EditStamps, EditAssumption
         DEF LookStamp, Turns, EditTyped, WatcherAt, NoStamp, EditAssumption
    <2>2. NotYetWatched'
      BY <1>7, <1>i DEF LookStamp, Turns, EditTyped, NotYetWatched
    <2>3. CopySound'
      BY <1>7, <1>i, EditStamps DEF LookStamp, Turns, EditTyped, NotYetWatched, CopySound, CopyOf, Seen, Spent, NoStamp
    <2>6. copy # Missing /\ copy = watcher.uploaded => ~Spent(watcher.uploaded)
      BY <1>7, <1>i DEF LookStamp, EditTyped, NotYetWatched, CopySound, CopyOf, Spent
    <2>4. RoundSound'
      BY <1>7, <1>i, EditStamps, <2>6
         DEF LookStamp, Turns, EditTyped, NotYetWatched, CopySound, CopyOf, Seen, Spent, RoundSound, InStep, NoStamp
    <2>5. EditsArrive'
      BY <1>7, <1>i DEF LookStamp, Turns, EditTyped, NotYetWatched, RoundSound, EditsArrive
    <2> QED
      BY <2>1, <2>2, <2>3, <2>4, <2>5 DEF EditInv
  <1>8. CASE UploadStarts
    <2>1. EditTyped'
      BY <1>8, <1>i, EditStamps, EditAssumption
         DEF UploadStarts, Turns, EditTyped, WatcherAt, NoStamp, EditAssumption
    <2>2. NotYetWatched'
      BY <1>8, <1>i DEF UploadStarts, Turns, EditTyped, NotYetWatched
    <2>3. CopySound'
      BY <1>8, <1>i, EditStamps DEF UploadStarts, Turns, EditTyped, NotYetWatched, CopySound, CopyOf, Seen, Spent, NoStamp
    <2>4. RoundSound'
      BY <1>8, <1>i, EditStamps
         DEF UploadStarts, Turns, EditTyped, NotYetWatched, CopySound, CopyOf, Seen, Spent, RoundSound, InStep, NoStamp
    <2>5. EditsArrive'
      BY <1>8, <1>i DEF UploadStarts, Turns, EditTyped, NotYetWatched, RoundSound, EditsArrive
    <2> QED
      BY <2>1, <2>2, <2>3, <2>4, <2>5 DEF EditInv
  <1>9. CASE UploadEnds
    <2>7. remote' \in StampSet
      BY <1>9, <1>i DEF UploadEnds, EditTyped, StampSet, Missing
    <2>1. EditTyped'
      BY <1>9, <1>i, EditStamps, EditAssumption, <2>7
         DEF UploadEnds, Uploaded, Failed, Turns, EditTyped, WatcherAt, NoStamp, EditAssumption
    <2>2. NotYetWatched'
      BY <1>9, <1>i DEF UploadEnds, Uploaded, Failed, Turns, EditTyped, NotYetWatched
    <2>3. CopySound'
      BY <1>9, <1>i, EditStamps DEF UploadEnds, Uploaded, Failed, Turns, EditTyped, NotYetWatched, CopySound, CopyOf, Seen, Spent, NoStamp
    <2>4. RoundSound'
      BY <1>9, <1>i, EditStamps
         DEF UploadEnds, Uploaded, Failed, Turns, EditTyped, NotYetWatched, CopySound, CopyOf, Seen, Spent, RoundSound, InStep, NoStamp
    <2>5. EditsArrive'
      BY <1>9, <1>i DEF UploadEnds, Uploaded, Failed, Turns, EditTyped, NotYetWatched, RoundSound, EditsArrive
    <2> QED
      BY <2>1, <2>2, <2>3, <2>4, <2>5 DEF EditInv
  <1>10. CASE EndOfRound
    <2>1. EditTyped'
      BY <1>10, <1>i, EditStamps, EditAssumption
         DEF EndOfRound, Turns, EditTyped, WatcherAt, NoStamp, EditAssumption
    <2>2. NotYetWatched'
      BY <1>10, <1>i DEF EndOfRound, Turns, EditTyped, NotYetWatched
    <2>3. CopySound'
      BY <1>10, <1>i, EditStamps DEF EndOfRound, Turns, EditTyped, NotYetWatched, CopySound, CopyOf, Seen, Spent, NoStamp
    <2>4. RoundSound'
      BY <1>10, <1>i, EditStamps
         DEF EndOfRound, Turns, EditTyped, NotYetWatched, CopySound, CopyOf, Seen, Spent, RoundSound, InStep, NoStamp
    <2>5. EditsArrive'
      BY <1>10, <1>i DEF EndOfRound, Turns, EditTyped, NotYetWatched, RoundSound, EditsArrive
    <2> QED
      BY <2>1, <2>2, <2>3, <2>4, <2>5 DEF EditInv
  <1>11. CASE WatchEnds
    <2>1. EditTyped'
      BY <1>11, <1>i, EditStamps, EditAssumption
         DEF WatchEnds, Turns, EditTyped, WatcherAt, NoStamp, EditAssumption
    <2>2. NotYetWatched'
      BY <1>11, <1>i DEF WatchEnds, Turns, EditTyped, NotYetWatched
    <2>3. CopySound'
      BY <1>11, <1>i, EditStamps DEF WatchEnds, Turns, EditTyped, NotYetWatched, CopySound, CopyOf, Seen, Spent, NoStamp
    <2>4. RoundSound'
      BY <1>11, <1>i, EditStamps
         DEF WatchEnds, Turns, EditTyped, NotYetWatched, CopySound, CopyOf, Seen, Spent, RoundSound, InStep, NoStamp
    <2>5. EditsArrive'
      BY <1>11, <1>i DEF WatchEnds, Turns, EditTyped, NotYetWatched, RoundSound, EditsArrive
    <2> QED
      BY <2>1, <2>2, <2>3, <2>4, <2>5 DEF EditInv
  <1>12. CASE UNCHANGED editVars
    BY <1>12, <1>i DEF editVars, EditInv, EditTyped, NotYetWatched, CopySound, CopyOf, Seen, Spent,
                      RoundSound, InStep, EditsArrive
  <1> QED
    BY <1>1, <1>2, <1>3, <1>4, <1>5, <1>6, <1>7, <1>8, <1>9, <1>10, <1>11, <1>12 DEF EditNext, WatcherStep, Over

(* Every state of the editor satisfies its inductive invariant.            *)
THEOREM EditInductive == EditSpec => []EditInv
  BY InitEdit, NextEdit, PTL DEF EditSpec

(* The copy of an edited file is removed only if the server has what the   *)
(* copy held when the watcher last looked, but for the two exceptions of   *)
(* its last round (spawn_external_edit_watcher).                           *)
THEOREM SavedEditsArrive == EditSpec => []EditsArrive
  <1>1. EditInv => EditsArrive
    BY DEF EditInv
  <1> QED
    BY EditInductive, <1>1, PTL
=============================================================================
