----------------------------- MODULE FileReplace -----------------------------
(***************************************************************************)
(* What a file transfer promises of one destination, whatever calls it is  *)
(* made of: the header of transfer_queue.rs and the comment on copy_file   *)
(* as an abstract specification.  An old file gives way only to a complete *)
(* copy, or to a spare one that is kept until the destination is complete; *)
(* a source disappears together with the arrival of its data or after it;  *)
(* and Completed is reported of a complete destination only.               *)
(***************************************************************************)
VARIABLES
    isMove,     \* whether the source is to be deleted, fixed from the start
    dest,       \* what is found under the destination's name
    spare,      \* a complete copy waits under another name
    source,     \* whether the source is still there
    report      \* the outcome shown to the user

vars == <<isMove, dest, spare, source, report>>

TypeOK ==
    /\ isMove \in BOOLEAN
    /\ dest \in {"none", "old", "partial", "new"}
    /\ spare \in BOOLEAN
    /\ source \in {"there", "gone"}
    /\ report \in {"running", "Completed", "Failed", "Cancelled"}

(* A source that is missing can only be reported.                          *)
Init ==
    /\ isMove \in BOOLEAN
    /\ dest \in {"none", "old"}
    /\ spare = FALSE
    /\ source \in {"there", "gone"}
    /\ report = "running"

(* The complete copy appears at once; a server-side move takes the source  *)
(* with it, and a command without an answer may do so after the report.    *)
Install ==
    /\ source = "there"
    /\ dest' = "new"
    /\ source' \in IF isMove THEN {"there", "gone"} ELSE {"there"}
    /\ spare' \in {spare, FALSE}
    /\ report' \in {report, "Completed"}
    /\ report' = "Completed" /\ isMove => source' = "gone"
    /\ UNCHANGED isMove

(* The complete copy gets ready, or is not needed any more.                *)
ChangeSpare ==
    /\ dest \in {"old", "new"}
    /\ spare' = ~ spare
    /\ report' \in {report, "Failed", "Cancelled"}
    /\ UNCHANGED <<isMove, dest, source>>

(* The server does not rename onto a file: it is removed first.            *)
Unlink ==
    /\ dest = "old" /\ spare
    /\ dest' = "none"
    /\ UNCHANGED <<isMove, spare, source, report>>

(* Bytes are written to a name that holds no old file, or removed again.   *)
Fill ==
    /\ dest # "old" /\ source = "there" /\ report = "running"
    /\ dest' \in {"none", "partial", "new"}
    /\ report' \in {"running", "Failed", "Cancelled"}
    /\ UNCHANGED <<isMove, spare, source>>

Report ==
    /\ report = "running"
    /\ \/ report' \in {"Failed", "Cancelled"} /\ source' = source
       \/ /\ report' = "Completed" /\ dest = "new"
          /\ source' = IF isMove THEN "gone" ELSE source
    /\ UNCHANGED <<isMove, dest, spare>>

Next == Install \/ ChangeSpare \/ Unlink \/ Fill \/ Report

Spec == Init /\ [][Next]_vars

=============================================================================
