----------------------------- MODULE MCDesktop ------------------------------
(***************************************************************************)
(* The desktop application around the transfers: its sessions with their   *)
(* disks and continuous sync, the path of an agent's calls and what is     *)
(* decided of them, each in behaviours of its own (part says which).       *)
(***************************************************************************)
EXTENDS Sessions, McpBridge, McpApprovals, TLC

CONSTANTS t1, t2, a1, q1, q2, q3, w1, c1, l1

VARIABLE part
MCInit ==
    /\ part \in {"sessions", "bridge", "approvals"}
    /\ SessionsInit /\ BridgeInit /\ ApprovalsInit
    /\ part # "approvals" => access = "ask"
MCNext ==
    /\ UNCHANGED part
    /\ \/ part = "sessions" /\ SessionsNext /\ UNCHANGED <<mcpVars, approvalVars>>
       \/ part = "bridge" /\ BridgeNext /\ UNCHANGED <<sessionVars, approvalVars>>
       \/ part = "approvals" /\ ApprovalsNext /\ UNCHANGED <<sessionVars, mcpVars>>
MCSpec == MCInit /\ [][MCNext]_<<part, sessionVars, mcpVars, approvalVars>>

MCSymmetry == Permutations({t1, t2}) \cup Permutations({q1, q2, q3})
=============================================================================
