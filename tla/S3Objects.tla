----------------------------- MODULE S3Objects -----------------------------
(***************************************************************************)
(* The S3 driver (s3.rs) where one operation takes many requests: an       *)
(* object stored part by part, with several parts on their way at once,    *)
(* and a folder moved by copying its objects and deleting the originals.   *)
(* Any request may fail, be carried out without its answer arriving, or be *)
(* answered with 200 and an error in the body.                             *)
(***************************************************************************)
EXTENDS Naturals, FiniteSets

CONSTANTS
    Parts,             \* number of parts of the object
    ParallelUploads,   \* PARALLEL_UPLOADS
    Key,               \* objects the folder may hold
    ParallelDeletes,   \* PARALLEL_DELETES
    MaxPuts            \* bound: versions other clients store

ASSUME S3Assumption ==
    /\ Parts \in Nat \ {0} /\ ParallelUploads \in Nat \ {0}
    /\ ParallelDeletes \in Nat \ {0} /\ MaxPuts \in Nat

VARIABLES
    upload,   \* where the upload is
    session,  \* the server keeps a multipart upload
    landed,   \* parts it holds
    flying,   \* parts on their way
    tagged,   \* parts whose ETag came back
    nextPart, \* part_number
    partErr,  \* first_err of upload_parts
    object,   \* what the object is: "old", "short" or "whole"
    abortLost,\* history: the abort failed, or the upload was cancelled

    move,     \* where the move of the folder is
    source,   \* versions of its objects, 0 for none
    target,   \* and of their copies
    listed,   \* the listing the move works from
    copied,   \* objects whose copy succeeded
    leaving,  \* deletes on their way
    delErr,   \* first_err of delete_keys
    removed,  \* history: objects the move deleted
    puts      \* versions other clients stored

uploadVars == <<upload, session, landed, flying, tagged, nextPart, partErr, object, abortLost>>
moveVars   == <<move, source, target, listed, copied, leaving, delErr, removed, puts>>

(* ------------------- multipart_upload, upload_parts --------------------- *)
CreateMultipart ==
    /\ upload = "new"
    /\ \/ upload' = "sending" /\ session' = TRUE
       \/ upload' = "failed" /\ UNCHANGED session
    /\ UNCHANGED <<landed, flying, tagged, nextPart, partErr, object, abortLost>>
SendPart ==
    /\ upload = "sending" /\ ~partErr /\ nextPart <= Parts
    /\ Cardinality(flying) < ParallelUploads
    /\ flying' = flying \cup {nextPart} /\ nextPart' = nextPart + 1
    /\ UNCHANGED <<upload, session, landed, tagged, partErr, object, abortLost>>
PartAnswered(p) ==
    /\ upload = "sending" /\ p \in flying /\ flying' = flying \ {p}
    /\ \/ tagged' = tagged \cup {p} /\ landed' = landed \cup {p} /\ UNCHANGED partErr
       \/ partErr' = TRUE /\ landed' \in {landed, landed \cup {p}} /\ UNCHANGED tagged
    /\ UNCHANGED <<upload, session, nextPart, object, abortLost>>
(* Every part that was sent is waited for.  Mutant: those on their way are *)
(* not, after an error.                                                    *)
PartsDoneEarly ==
    /\ upload = "sending" /\ (partErr \/ (flying = {} /\ nextPart > Parts))
    /\ upload' = IF partErr THEN "aborting" ELSE "completing"
    /\ UNCHANGED <<session, landed, flying, tagged, nextPart, partErr, object, abortLost>>
PartsDone ==
    /\ upload = "sending" /\ flying = {} /\ (partErr \/ nextPart > Parts)
    /\ upload' = IF partErr THEN "aborting" ELSE "completing"
    /\ UNCHANGED <<session, landed, flying, tagged, nextPart, partErr, object, abortLost>>
(* complete_multipart: the server makes the object of the parts it is told *)
(* of.  Mutant: 200 is taken for success, whatever the body says.          *)
Made == object' = (IF tagged = 1..Parts THEN "whole" ELSE "short") /\ session' = FALSE /\ landed' = {}
CompleteUnread ==
    /\ upload = "completing" /\ upload' = "ok" /\ (Made \/ UNCHANGED <<object, session, landed>>)
    /\ UNCHANGED <<flying, tagged, nextPart, partErr, abortLost>>
Complete ==
    /\ upload = "completing"
    /\ \/ Made /\ upload' \in {"ok", "aborting"}
       \/ upload' = "aborting" /\ UNCHANGED <<object, session, landed>>
    /\ UNCHANGED <<flying, tagged, nextPart, partErr, abortLost>>
Abort ==                   \* a failed abort is only logged
    /\ upload = "aborting" /\ upload' = "failed"
    /\ \/ session' = FALSE /\ landed' = {} /\ UNCHANGED abortLost
       \/ abortLost' = session /\ UNCHANGED <<session, landed>>
    /\ UNCHANGED <<flying, tagged, nextPart, partErr, object>>
(* The transfer is cancelled and the future dropped: nothing is aborted.   *)
Cancel ==
    /\ upload \in {"sending", "completing", "aborting"} /\ upload' = "failed"
    /\ abortLost' = TRUE
    /\ UNCHANGED <<session, landed, flying, tagged, nextPart, partErr, object>>
(* A request nobody waits for any more is carried out all the same.        *)
PartArrivesLate(p) ==
    /\ upload # "sending" /\ p \in flying /\ flying' = flying \ {p} /\ landed' = landed \cup {p}
    /\ UNCHANGED <<upload, session, tagged, nextPart, partErr, object, abortLost>>

(* ------------------------- rename, delete_keys -------------------------- *)
List ==
    /\ move = "new" /\ listed' = {k \in Key : source[k] # 0}
    /\ move' = IF listed' = {} THEN "failed" ELSE "copying"
    /\ UNCHANGED <<source, target, copied, leaving, delErr, removed, puts>>
(* copy_object.  Mutant: 200 is taken for success here, too.               *)
CopyUnread(k) ==
    /\ move = "copying" /\ k \in listed \ copied
    /\ copied' = copied \cup {k} /\ target' \in {target, [target EXCEPT ![k] = source[k]]}
    /\ UNCHANGED <<move, source, listed, leaving, delErr, removed, puts>>
Copy(k) ==
    /\ move = "copying" /\ k \in listed \ copied
    /\ \/ /\ source[k] # 0 /\ target' = [target EXCEPT ![k] = source[k]]
          /\ copied' = copied \cup {k} /\ UNCHANGED move
       \/ /\ move' = "failed" /\ UNCHANGED copied
          /\ target' \in {target} \cup {[target EXCEPT ![k] = v] : v \in {source[k]} \ {0}}
    /\ UNCHANGED <<source, listed, leaving, delErr, removed, puts>>
Delete(k) ==
    /\ move = "copying" /\ copied = listed /\ ~delErr /\ k \in listed \ (removed \cup leaving)
    /\ Cardinality(leaving) < ParallelDeletes /\ leaving' = leaving \cup {k}
    /\ UNCHANGED <<move, source, target, listed, copied, delErr, removed, puts>>
Deleted(k) ==              \* one that is gone already is fine
    /\ k \in leaving /\ leaving' = leaving \ {k}
    /\ \/ source' = [source EXCEPT ![k] = 0] /\ removed' = removed \cup {k} /\ delErr' \in {delErr, TRUE}
       \/ delErr' = TRUE /\ UNCHANGED <<source, removed>>
    /\ UNCHANGED <<move, target, listed, copied, puts>>
MoveEnds ==
    /\ move = "copying" /\ copied = listed /\ leaving = {} /\ (delErr \/ listed \subseteq removed)
    /\ move' = IF delErr THEN "failed" ELSE "ok"
    /\ UNCHANGED <<source, target, listed, copied, leaving, delErr, removed, puts>>
CancelMove ==
    /\ move = "copying" /\ move' = "failed"
    /\ UNCHANGED <<source, target, listed, copied, leaving, delErr, removed, puts>>
OtherClient(k) ==
    /\ puts < MaxPuts /\ puts' = puts + 1 /\ move \in {"new", "copying"} /\ k \notin removed
    /\ source' \in {[source EXCEPT ![k] = v] : v \in {0, puts + 2}}
    /\ UNCHANGED <<move, target, listed, copied, leaving, delErr, removed>>

S3Init ==
    /\ upload = "new" /\ session = FALSE /\ landed = {} /\ flying = {} /\ tagged = {}
    /\ nextPart = 1 /\ partErr = FALSE /\ object = "old" /\ abortLost = FALSE
    /\ move = "new" /\ source \in [Key -> {0, 1}] /\ target = [k \in Key |-> 0]
    /\ listed = {} /\ copied = {} /\ leaving = {} /\ delErr = FALSE /\ removed = {} /\ puts = 0
UploadStep ==
    \/ CreateMultipart \/ SendPart \/ PartsDone \/ Complete \/ Abort \/ Cancel
    \/ \E p \in 1..Parts : PartAnswered(p) \/ PartArrivesLate(p)
MoveStep ==
    \/ List \/ MoveEnds \/ CancelMove
    \/ \E k \in Key : Copy(k) \/ Delete(k) \/ Deleted(k) \/ OtherClient(k)
S3Next ==
    \/ UploadStep /\ UNCHANGED moveVars
    \/ MoveStep /\ UNCHANGED uploadVars
S3Spec == S3Init /\ [][S3Next]_<<uploadVars, moveVars>>

(* ------------------------------- Properties ----------------------------- *)
(* An object is as it was or whole, whole once the upload reports success, *)
(* whichever parts failed, arrived unanswered or finished out of order.    *)
UploadIsWhole == object # "short" /\ (upload = "ok" => object = "whole")

(* What an upload that ended stored in parts is not left on the server,    *)
(* unless the abort itself failed or the upload was cancelled.             *)
NoPartsLeft == upload \in {"ok", "failed"} /\ ~abortLost => ~session /\ landed = {} /\ flying = {}

(* An object the move of its folder deleted is at its new place, whatever  *)
(* request failed and whatever other clients did to the folder meanwhile.  *)
MovedIsThere == \A k \in removed : target[k] # 0

(* What takes many requests is done whole or can be told from it: the      *)
(* three above (multipart_upload, complete_multipart, rename).             *)
ManyRequestsAreOne == UploadIsWhole /\ NoPartsLeft /\ MovedIsThere
=============================================================================
