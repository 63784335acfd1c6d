---------------------------- MODULE ExternalEdit ----------------------------
(***************************************************************************)
(* A remote file opened in an editor of this computer: a private copy, the *)
(* editor that saves it in its own way, and the watcher that uploads what  *)
(* was saved, until the session ends or the time is up.                    *)
(***************************************************************************)
EXTENDS Naturals

CONSTANT MaxEdits     \* bound: versions the editor saves
ASSUME EditAssumption == MaxEdits \in Nat

VARIABLES
    connected,   \* the session still has the driver the file was opened with
    remote,      \* [ver, whole] of the file on the server
    copy,        \* [ver, whole] of the temporary copy; ver is raised by every change
    edits, saved,    \* versions begun; the last one completely saved
    watcher,     \* [at, alive, stamp, uploaded, pending, unsynced, edge]
    folder       \* of the copy: "none", "there", "removed"

editVars == <<connected, remote, copy, edits, saved, watcher, folder>>

Missing  == [ver |-> 0, whole |-> FALSE]
NoStamp  == Missing       \* local_file_stamp of a file that is not there
Turns(e) == watcher' = [watcher EXCEPT !.at = e]

(* open_in_external_editor: download, stamp, launch; what fails is undone. *)
Download ==
    /\ folder = "none" /\ watcher.at = "open"
    /\ \/ folder' = "there" /\ copy' = remote
          /\ watcher' = [watcher EXCEPT !.at = "launch", !.uploaded = remote]
       \/ Turns("over") /\ UNCHANGED <<folder, copy>>
    /\ UNCHANGED <<connected, remote, edits, saved>>
Launch ==
    /\ watcher.at = "launch"
    /\ \/ Turns("poll") /\ UNCHANGED folder
       \/ Turns("over") /\ folder' = "none"
    /\ UNCHANGED <<connected, remote, copy, edits, saved>>

(* The editor empties the file and fills it, or puts another in its place. *)
SaveBegins ==
    /\ watcher.at \notin {"open", "launch"} /\ folder = "there" /\ edits < MaxEdits /\ edits = saved
    /\ edits' = edits + 1
    /\ copy' \in {Missing, [ver |-> edits + 1, whole |-> FALSE]}
    /\ UNCHANGED <<connected, remote, saved, watcher, folder>>
SaveEnds ==
    /\ edits # saved /\ folder = "there"
    /\ copy' = [ver |-> edits, whole |-> TRUE] /\ saved' = edits
    /\ UNCHANGED <<connected, remote, edits, watcher, folder>>
Disconnects ==
    /\ connected /\ connected' = FALSE
    /\ UNCHANGED <<remote, copy, edits, saved, watcher, folder>>

(* One round of the watcher.                                               *)
(* Mutant: the session is asked for once.                                  *)
AliveAsBefore ==
    /\ watcher.at = "poll" /\ watcher' = [watcher EXCEPT !.at = "stamp", !.edge = FALSE]
    /\ UNCHANGED <<connected, remote, copy, edits, saved, folder>>
LookAlive ==
    /\ watcher.at = "poll" /\ watcher' = [watcher EXCEPT !.at = "stamp", !.alive = connected, !.edge = FALSE]
    /\ UNCHANGED <<connected, remote, copy, edits, saved, folder>>
LookStamp ==
    LET changed == copy # NoStamp /\ copy # watcher.uploaded
        stable  == watcher.alive /\ watcher.pending = copy
    IN
    /\ watcher.at = "stamp"
    /\ watcher' = [watcher EXCEPT
           !.stamp = copy, !.unsynced = @ \/ changed, !.edge = copy = NoStamp,
           !.at = IF changed /\ stable THEN "upload" ELSE "end",
           !.pending = IF changed /\ ~stable THEN copy ELSE @]
    /\ UNCHANGED <<connected, remote, copy, edits, saved, folder>>
(* The first write empties the remote file, unless it fails before.        *)
UploadStarts ==
    /\ watcher.at = "upload"
    /\ \/ remote' = [remote EXCEPT !.whole = FALSE] /\ Turns("uploading")
       \/ watcher' = [watcher EXCEPT !.at = "end", !.pending = NoStamp] /\ UNCHANGED remote
    /\ UNCHANGED <<connected, copy, edits, saved, folder>>
(* Mutant: what is there when the upload is over counts as uploaded.       *)
UploadedAsFound ==
    watcher' = [watcher EXCEPT !.at = "end", !.pending = NoStamp, !.uploaded = copy,
                               !.unsynced = FALSE, !.edge = watcher.stamp # copy]
Uploaded ==
    watcher' = [watcher EXCEPT !.at = "end", !.pending = NoStamp, !.uploaded = watcher.stamp,
                               !.unsynced = FALSE, !.edge = watcher.stamp # copy]
(* Mutant: an upload that fails is not tried again.                        *)
FailedOnce ==
    watcher' = [watcher EXCEPT !.at = "end", !.pending = NoStamp, !.uploaded = watcher.stamp,
                               !.unsynced = FALSE]
Failed == watcher' = [watcher EXCEPT !.at = "end", !.pending = NoStamp]
(* A copy that changed while it was read arrives as it is now, or mixed.   *)
UploadEnds ==
    /\ watcher.at = "uploading"
    /\ \/ /\ copy # Missing /\ Uploaded
          /\ \/ remote' = copy
             \/ copy # watcher.stamp /\ remote' = [copy EXCEPT !.whole = FALSE]
       \/ Failed /\ UNCHANGED remote
    /\ UNCHANGED <<connected, copy, edits, saved, folder>>
EndOfRound ==     \* the eight hours may be over in any round
    /\ watcher.at = "end"
    /\ \/ Turns("finish")
       \/ watcher.alive /\ Turns("poll")
    /\ UNCHANGED <<connected, remote, copy, edits, saved, folder>>
WatchEnds ==
    /\ watcher.at = "finish" /\ Turns("over")
    /\ folder' = IF watcher.unsynced THEN folder ELSE "removed"
    /\ UNCHANGED <<connected, remote, copy, edits, saved>>

EditInit ==
    /\ connected = TRUE /\ remote = [ver |-> 1, whole |-> TRUE] /\ copy = Missing
    /\ edits = 1 /\ saved = 1 /\ folder = "none"
    /\ watcher = [at |-> "open", alive |-> TRUE, stamp |-> NoStamp, uploaded |-> NoStamp,
                  pending |-> NoStamp, unsynced |-> FALSE, edge |-> FALSE]
WatcherStep ==
    Download \/ Launch \/ LookAlive \/ LookStamp \/ UploadStarts \/ UploadEnds \/ EndOfRound \/ WatchEnds
Over == watcher.at = "over" /\ UNCHANGED editVars
EditNext == WatcherStep \/ SaveBegins \/ SaveEnds \/ Disconnects \/ Over
EditSpec == EditInit /\ [][EditNext]_editVars

(* ------------------------------- Property ------------------------------- *)
(* The copy is removed only if the server has what it held when the        *)
(* watcher last looked, also after uploads that failed half-way.  Two      *)
(* exceptions of the last round: the file was being replaced (not there)   *)
(* at that look, or it changed while it was uploaded and time was over.    *)
EditsArrive == folder = "removed" /\ ~watcher.edge => remote = watcher.stamp
(* After the end of the session the watcher looks once more and ends,      *)
(* whatever the editor does meanwhile.                                     *)
WatcherEnds == ~connected ~> watcher.at = "over"
=============================================================================
