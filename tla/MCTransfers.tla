---------------------------- MODULE MCTransfers ----------------------------
(***************************************************************************)
(* The transfer of one file, that of a folder, and a file copied here for  *)
(* an editor and uploaded when it is saved, each in behaviours of its own  *)
(* (part says which), with what transfers must do: come to an end.         *)
(***************************************************************************)
EXTENDS MCTransferJob, MCTransferTree, ExternalEdit

VARIABLE part
allVars == <<part, vars, treeVars, editVars>>
OneJob  == fs = (CHOOSE f \in InitialFS : TRUE) /\ plan = CHOOSE p \in Plans : TRUE
OneTree == first = {} /\ treePlan = CHOOSE p \in TreePlans : p.root = "missing"
MCInit ==
    /\ part \in {"file", "folder", "edit"}
    /\ Init /\ TreeInit /\ EditInit
    /\ part # "file" => OneJob
    /\ part # "folder" => OneTree
MCNext ==
    /\ UNCHANGED part
    /\ \/ part = "file" /\ Next /\ UNCHANGED <<treeVars, editVars>>
       \/ part = "folder" /\ TreeNext /\ UNCHANGED <<vars, editVars>>
       \/ part = "edit" /\ EditNext /\ UNCHANGED <<vars, treeVars>>
(* Every driver call returns.                                              *)
MCFairSpec ==
    /\ MCInit /\ [][MCNext]_allVars
    /\ \A j \in Jobs : WF_allVars(part = "file" /\ DriverStep(j) /\ UNCHANGED <<cancelled, treeVars, editVars, part>>)
    /\ WF_allVars(part = "folder" /\ JobStep /\ UNCHANGED <<vars, editVars, part>>)
    /\ WF_allVars(part = "edit" /\ WatcherStep /\ UNCHANGED <<vars, treeVars, part>>)

(* No chain of fallbacks of a file, and no folder, is worked on for ever,  *)
(* and a file in an editor is watched no longer than its session lasts.    *)
TransfersEnd ==
    /\ part = "file" => EveryJobEnds
    /\ part = "folder" => TreeEnds
    /\ part = "edit" => WatcherEnds
=============================================================================
