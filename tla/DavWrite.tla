------------------------------ MODULE DavWrite ------------------------------
(***************************************************************************)
(* The requests of a virtual disk that change the server: PUT, MOVE, COPY, *)
(* DELETE and MKCOL of crates/rustscp-core/src/webdav_server.rs.  Every    *)
(* connection is a task of its own; one action is one call of the driver.  *)
(* A call fails where the server of the behaviour can fail it.  Unmounting *)
(* drops the task of a connection wherever it waits.                       *)
(*                                                                         *)
(* Names hold content: <<"file", x>> is all of the data x, <<"part", x>>   *)
(* a beginning of it.  The data of a name at the start are called by the   *)
(* name, the body of an upload by its request.                             *)
(***************************************************************************)
EXTENDS Naturals, FiniteSets

CONSTANTS
    Request,    \* the requests a behaviour may see
    Path,       \* the names clients use
    Lower,      \* each name in lower case, itself a name
    Linked,     \* names that are links, or whose owner a new file would not get
    Servers,    \* what the server may be like
    Asks,       \* what clients may ask
    Starts      \* what the names may hold at first

(* Calls that may fail: metadata; listing the parent; writing a new name;  *)
(* writing a piece; storing a whole file; a rename; a rename that takes    *)
(* effect and reports an error; a removal; creating a folder.              *)
DavFaults == {"stat", "list", "create", "write", "store", "rename",
              "lostReply", "remove", "mkdir"}

Server == [positional : BOOLEAN,    \* supports_write_at
           overwrites : BOOLEAN,    \* rename replaces an existing file
           folds      : BOOLEAN,    \* names differing in case are one entry
           faults     : SUBSET DavFaults]

Absent   == <<"absent">>
Folder   == <<"folder">>
Whole(x) == <<"file", x>>
Part(x)  == <<"part", x>>
IsFile(c) == c # Absent /\ c # Folder

Temp(r)   == <<"upload", r>>        \* sibling_temp_path, one per request
Backup(r) == <<"replaced", r>>
Name      == Path \cup {Temp(r) : r \in Request} \cup {Backup(r) : r \in Request}
Content   == {Absent, Folder} \cup {Whole(x) : x \in Path \cup Request}
                              \cup {Part(x) : x \in Path \cup Request}

(* What a client asks: a body of so many pieces of STREAM_CHUNK, and       *)
(* whether it is as long as the client announced.                          *)
Ask == [op : {"PUT", "MOVE", "COPY", "DELETE", "MKCOL"}, path : Path, dest : Path,
        overwrite : BOOLEAN, pieces : 0..2, asAnnounced : BOOLEAN]

ASSUME DavAssumption ==
    /\ Lower \in [Path -> Path]
    /\ \A p \in Path : Lower[Lower[p]] = Lower[p]
    /\ Linked \subseteq Path
    /\ Servers \subseteq Server
    /\ Asks \subseteq Ask /\ Asks # {}
    /\ \A start \in Starts, p \in Path : start[p] \in {Absent, Folder, Whole(p)}
    /\ Path \cap Request = {}
    /\ \A r \in Request : Temp(r) \notin Path /\ Backup(r) \notin Path   \* a fresh UUID each

VARIABLES
    server,     \* the server of this behaviour
    files,      \* what each name holds
    ask,        \* the request
    at,         \* the call it makes next
    seen,       \* source and destination as the handler's metadata calls saw them
    count,      \* pieces written so far
    code        \* the answer

davVars == <<server, files, ask, at, seen, count, code>>

(* On a server that ignores case, names of one spelling are one slot.      *)
Slot(p) == IF server.folds THEN Lower[p] ELSE p
Held(p) == files[Slot(p)]
May(kind) == kind \in server.faults

(* -------------------------- Calls of the driver ------------------------ *)
Result(ok, f) == [ok |-> ok, files |-> f]
Failing(kind) == IF May(kind) THEN {Result(FALSE, files)} ELSE {}
Refused == {Result(FALSE, files)}

RenameCall(a, b) ==
    LET moved == [files EXCEPT ![b] = files[a], ![a] = Absent]
        works == /\ files[a] # Absent
                 /\ a # b => files[b] = Absent \/ (server.overwrites /\ IsFile(files[a]) /\ IsFile(files[b]))
    IN  IF a = b /\ works THEN {Result(TRUE, files)} \cup Failing("rename")
        ELSE IF works THEN {Result(TRUE, moved)} \cup Failing("rename")
                           \cup (IF May("lostReply") THEN {Result(FALSE, moved)} ELSE {})
        ELSE Refused

(* remove_file of a folder and remove_dir of a file are refused.           *)
RemoveCall(a, kind) ==
    IF files[a] = Absent \/ (files[a] = Folder) # (kind = Folder) THEN Refused
    ELSE {Result(TRUE, [files EXCEPT ![a] = Absent])} \cup Failing("remove")
RemoveFileCall(a) == RemoveCall(a, Whole(a))

(* create_dir of what exists: it is there already, or the call fails.      *)
CreateDirCall(a) ==
    IF IsFile(files[a]) THEN Refused
    ELSE {Result(TRUE, [files EXCEPT ![a] = Folder])} \cup Failing("mkdir")

(* write_at: a first piece truncates, and may have done so when it fails.  *)
WriteCall(a, first, data) ==
    IF files[a] = Folder THEN Refused
    ELSE {Result(TRUE, [files EXCEPT ![a] = data])} \cup Failing("write")
         \cup (IF May("write") /\ first /\ data # Absent
               THEN {Result(FALSE, [files EXCEPT ![a] = Part(data[2])])} ELSE {})

StoreCall(a, data) ==       \* write_file of drivers that store whole files
    IF files[a] = Folder THEN Refused
    ELSE {Result(TRUE, [files EXCEPT ![a] = data])} \cup Failing("store")
         \cup (IF May("store") THEN {Result(FALSE, [files EXCEPT ![a] = Part(data[2])])} ELSE {})

(* ------------------------------ Requests -------------------------------- *)
Put(r)    == ask[r].op = "PUT"
Target(r) == IF ask[r].op \in {"MOVE", "COPY"} THEN ask[r].dest ELSE ask[r].path
Source(r) == IF Put(r) THEN Temp(r) ELSE Slot(ask[r].path)
Goal(r)   == Slot(Target(r))
Writes(r) == IF ask[r].pieces = 0 THEN 1 ELSE ask[r].pieces  \* an empty body is one empty write
Known(r)  == seen[r].dst # Absent
SameEntry(r) == Lower[ask[r].path] = Lower[ask[r].dest]

(* The next thing the task of r does is the call named at.                 *)
Goto(r, phase) == at' = [at EXCEPT ![r] = phase]
Answer(r, c)   == Goto(r, "done") /\ code' = [code EXCEPT ![r] = c]
Still          == UNCHANGED <<server, files, ask, seen, count>>

(* A call is made: on success go to one phase, on failure to the other.    *)
Attempt(r, phase, call, good, bad) ==
    /\ at[r] = phase
    /\ \E o \in call :
          /\ files' = o.files
          /\ Goto(r, IF o.ok THEN good ELSE bad)
    /\ UNCHANGED <<server, ask, seen, count, code>>

Reply(r, phase, c) == at[r] = phase /\ Answer(r, c) /\ Still

Arrive(r) ==
    /\ at[r] = "idle"
    /\ \E q \in Asks : ask' = [ask EXCEPT ![r] = q] /\ Goto(r, "look")
    /\ UNCHANGED <<server, files, seen, count, code>>

(* metadata of the target, after that of the source for MOVE and COPY.     *)
Sees(p) == {Held(p)} \cup (IF May("stat") THEN {Absent} ELSE {})

LookPut(r) ==
    /\ at[r] = "look" /\ Put(r)
    /\ \E c \in Sees(ask[r].path) :
          IF c = Folder THEN Answer(r, "refused") /\ UNCHANGED seen
          ELSE /\ seen' = [seen EXCEPT ![r].dst = c]
               /\ Goto(r, "body") /\ UNCHANGED code
    /\ UNCHANGED <<server, files, ask, count>>

LookMoveCopy(r) ==
    /\ at[r] = "look" /\ ask[r].op \in {"MOVE", "COPY"}
    /\ \E s \in Sees(ask[r].path) :
       \E d \in IF SameEntry(r) THEN {Absent} ELSE Sees(ask[r].dest) :
          LET refused == \/ ask[r].path = ask[r].dest \/ s = Absent
                         \/ SameEntry(r) /\ ask[r].op = "COPY"
                         \/ d # Absent /\ ~ask[r].overwrite
              next == IF d = Absent THEN "transfer"
                      ELSE IF ask[r].op = "MOVE" /\ IsFile(s) /\ IsFile(d) THEN "replace"
                      ELSE "clear"
          IN  IF refused THEN Answer(r, "refused") /\ UNCHANGED seen
              ELSE /\ seen' = [seen EXCEPT ![r] = [src |-> s, dst |-> d]]
                   /\ Goto(r, next) /\ UNCHANGED code
    /\ UNCHANGED <<server, files, ask, count>>

LookDelete(r) ==
    /\ at[r] = "look" /\ ask[r].op = "DELETE"
    /\ \E c \in Sees(ask[r].path) :
          /\ seen' = [seen EXCEPT ![r].dst = c]
          /\ IF c = Absent THEN Answer(r, "refused") ELSE Goto(r, "delete") /\ UNCHANGED code
    /\ UNCHANGED <<server, files, ask, count>>

LookMkcol(r) ==
    /\ at[r] = "look" /\ ask[r].op = "MKCOL"
    /\ \E c \in Sees(ask[r].path) :
          IF c # Absent THEN Answer(r, "refused") ELSE Goto(r, "mkdir") /\ UNCHANGED code
    /\ Still

Delete(r) == Attempt(r, "delete", RemoveCall(Goal(r), seen[r].dst), "ok", "failed")
Mkdir(r)  == Attempt(r, "mkdir", CreateDirCall(Goal(r)), "ok", "failed")

(* ------------------------- Receiving a body ----------------------------- *)
(* upload_streaming writes a piece into the hidden name.  A first piece    *)
(* that is not permitted makes the task keep the body in memory.           *)
PutPiece(r) ==
    /\ at[r] = "body" /\ server.positional /\ count[r] < Writes(r)
    /\ \E o \in WriteCall(Temp(r), count[r] = 0,
                          IF count[r] + 1 = Writes(r) THEN Whole(r) ELSE Part(r)) :
          /\ files' = o.files
          /\ count' = [count EXCEPT ![r] = IF o.ok THEN @ + 1 ELSE @]
          /\ Goto(r, IF o.ok THEN "body" ELSE "undo")
    /\ UNCHANGED <<server, ask, seen, code>>

KeepInMemory(r) ==
    /\ at[r] = "body" /\ server.positional /\ count[r] = 0 /\ May("create")
    /\ Goto(r, "memory")
    /\ UNCHANGED <<server, files, ask, seen, count, code>>

(* The connection ends early, stalls, or breaks the framing.               *)
BodyFails(r) ==
    \/ /\ at[r] = "body" /\ count[r] > 0 /\ Goto(r, "undoBody")
       /\ UNCHANGED code /\ Still
    \/ /\ at[r] = "body" /\ count[r] = 0 /\ Answer(r, "body") /\ Still
    \/ Reply(r, "memory", "body")

(* Mutant: the length the client announced is not compared.                *)
BodyArrivesUnchecked(r) ==
    /\ \/ at[r] = "body" /\ (count[r] = Writes(r) \/ ~server.positional)
       \/ at[r] = "memory"
    /\ Goto(r, IF at[r] = "memory" \/ ~server.positional THEN "store" ELSE "how")
    /\ UNCHANGED code /\ Still

BodyArrives(r) ==
    LET inMemory == at[r] = "memory" \/ ~server.positional
    IN  /\ \/ at[r] = "body" /\ (count[r] = Writes(r) \/ ~server.positional)
           \/ at[r] = "memory"
        /\ IF ask[r].asAnnounced
           THEN Goto(r, IF inMemory THEN "store" ELSE "how") /\ UNCHANGED code
           ELSE IF inMemory THEN Answer(r, "body") ELSE Goto(r, "undoBody") /\ UNCHANGED code
        /\ Still

Undo(r) ==      \* the error that ended the request is answered in any case
    \/ Attempt(r, "undo", RemoveFileCall(Temp(r)), "failed", "failed")
    \/ Attempt(r, "undoBody", RemoveFileCall(Temp(r)), "bodyFailed", "bodyFailed")

Store(r) == Attempt(r, "store", StoreCall(Goal(r), Whole(r)), "ok", "failed")

(* is_symlink_entry and owner_differs; an error of theirs says no.         *)
ChooseHow(r) ==
    /\ at[r] = "how"
    /\ \E inPlace \in IF Known(r) /\ ask[r].path \in Linked
                      THEN {TRUE} \cup (IF May("list") THEN {FALSE} ELSE {}) ELSE {FALSE} :
          /\ Goto(r, IF inPlace THEN "transfer" ELSE "replace")
          /\ count' = [count EXCEPT ![r] = 0]
    /\ UNCHANGED <<server, files, ask, seen, code>>

(* --------------------- copy_file, copy_tree, rename --------------------- *)
(* The data of the source arrive piece by piece; a piece that does not     *)
(* continue what is there makes a mixture.                                 *)
Pieces(r) == IF Put(r) THEN Writes(r) ELSE 2
Copying(r) == at[r] = "transfer" /\ ask[r].op # "MOVE" /\ seen[r].src # Folder

CopyPiece(r) ==
    LET source == files[Source(r)]
        last   == count[r] + 1 = Pieces(r)
        mixed  == count[r] > 0 /\ files[Goal(r)] # Part(source[2])
    IN  /\ Copying(r) /\ IsFile(source)
        /\ IF server.positional
           THEN \E o \in WriteCall(Goal(r), count[r] = 0,
                                   IF last /\ ~mixed THEN source ELSE Part(source[2])) :
                   /\ files' = o.files
                   /\ count' = [count EXCEPT ![r] = IF o.ok THEN @ + 1 ELSE @]
                   /\ Goto(r, IF ~o.ok THEN (IF count[r] > 0 THEN "unmake" ELSE "notCopied")
                              ELSE IF last THEN "copied" ELSE "transfer")
           ELSE \E o \in StoreCall(Goal(r), source) :
                   /\ files' = o.files /\ UNCHANGED count
                   /\ Goto(r, IF o.ok THEN "copied" ELSE "notCopied")
        /\ UNCHANGED <<server, ask, seen, code>>

CopySourceGone(r) ==    \* another request took the source
    /\ Copying(r) /\ ~IsFile(files[Source(r)])
    /\ Goto(r, IF count[r] > 0 THEN "unmake" ELSE "notCopied")
    /\ UNCHANGED code /\ Still

(* A folder is made first; copying what is in it may then fail.            *)
CopyFolder(r) ==
    /\ seen[r].src = Folder /\ ask[r].op # "MOVE"
    /\ Attempt(r, "transfer",
               LET made == CreateDirCall(Goal(r))
               IN  {o \in made : o.ok => files[Source(r)] = Folder}
                   \cup {[o EXCEPT !.ok = FALSE] :
                         o \in IF May("list") \/ files[Source(r)] # Folder THEN made ELSE {}},
               "copied", "notCopied")

Unmake(r) == Attempt(r, "unmake", RemoveFileCall(Goal(r)), "notCopied", "notCopied")

(* Mutant: an upload in place that failed is answered as one that worked.  *)
AfterCopyOk(r) ==
    /\ at[r] \in {"copied", "notCopied"} /\ Goto(r, "ok")
    /\ UNCHANGED code /\ Still
AfterCopy(r) ==         \* an upload in place removes its temporary copy
    \/ Put(r) /\ Attempt(r, "copied", RemoveFileCall(Temp(r)), "ok", "ok")
    \/ Put(r) /\ Attempt(r, "notCopied", RemoveFileCall(Temp(r)), "failed", "failed")
    \/ ~Put(r) /\ Reply(r, "copied", "ok")
    \/ ~Put(r) /\ Reply(r, "notCopied", "failed")

Rename(r) ==
    ask[r].op = "MOVE" /\ Attempt(r, "transfer", RenameCall(Source(r), Goal(r)), "ok", "failed")

(* The destination of a COPY, or of a MOVE between a file and a folder.    *)
Clear(r) == Attempt(r, "clear", RemoveCall(Goal(r), seen[r].dst), "transfer", "failed")

(* ----------------------------- replace_file ----------------------------- *)
Replace(r) == Attempt(r, "replace", RenameCall(Source(r), Goal(r)), "ok", "exists")

(* Only where something is in the way is the old file put aside.           *)
CheckExists(r) ==
    /\ at[r] = "exists"
    /\ \E there \in IF Known(r) THEN {TRUE}
                    ELSE {Held(Target(r)) # Absent} \cup (IF May("stat") THEN {FALSE} ELSE {}) :
          Goto(r, IF there THEN "aside" ELSE "giveUp")
    /\ UNCHANGED code /\ Still

SetAside(r)   == Attempt(r, "aside", RenameCall(Goal(r), Backup(r)), "again", "giveUp")
RenameAgain(r) == Attempt(r, "again", RenameCall(Source(r), Goal(r)), "dropOld", "restore")
DropOld(r)    == Attempt(r, "dropOld", RemoveFileCall(Backup(r)), "ok", "ok")

(* Mutant: the old file is deleted when the new one could not be put in    *)
(* its place.                                                              *)
RestoreNothing(r) == Attempt(r, "restore", RemoveFileCall(Backup(r)), "giveUp", "giveUp")
Restore(r)    == Attempt(r, "restore", RenameCall(Backup(r), Goal(r)), "giveUp", "giveUp")

(* Mutant: the hidden copy of a failed upload is left.                     *)
GiveUpOnly(r) == Reply(r, "giveUp", "failed")
GiveUp(r) ==
    \/ Put(r) /\ Attempt(r, "giveUp", RemoveFileCall(Temp(r)), "failed", "failed")
    \/ ~Put(r) /\ Reply(r, "giveUp", "failed")

(* The caches are told (Shared::invalidate) and the answer is sent.        *)
Respond(r) ==
    \/ Reply(r, "ok", "ok")
    \/ Reply(r, "failed", "failed")
    \/ Reply(r, "bodyFailed", "body")

(* Unmounting, or the end of the server, ends the task where it waits.     *)
Dropped(r) ==
    /\ at[r] \notin {"idle", "done", "gone"}
    /\ Goto(r, "gone")
    /\ UNCHANGED code /\ Still

DavInit ==
    /\ server \in Servers
    /\ \E start \in Starts :
          /\ \A p \in Path : server.folds /\ Lower[p] # p => start[p] = Absent
          /\ files = [n \in Name |-> IF n \in Path THEN start[n] ELSE Absent]
    /\ ask = [r \in Request |-> CHOOSE q \in Asks : TRUE]
    /\ at = [r \in Request |-> "idle"]
    /\ seen = [r \in Request |-> [src |-> Absent, dst |-> Absent]]
    /\ count = [r \in Request |-> 0]
    /\ code = [r \in Request |-> "none"]

DavStep(r) ==
    \/ Arrive(r) \/ LookPut(r) \/ LookMoveCopy(r) \/ LookDelete(r) \/ LookMkcol(r)
    \/ Delete(r) \/ Mkdir(r)
    \/ PutPiece(r) \/ KeepInMemory(r) \/ BodyFails(r) \/ BodyArrives(r) \/ Undo(r) \/ Store(r)
    \/ ChooseHow(r) \/ CopyPiece(r) \/ CopySourceGone(r) \/ CopyFolder(r) \/ Unmake(r)
    \/ AfterCopy(r) \/ Rename(r) \/ Clear(r)
    \/ Replace(r) \/ CheckExists(r) \/ SetAside(r) \/ RenameAgain(r) \/ DropOld(r)
    \/ Restore(r) \/ GiveUp(r) \/ Respond(r) \/ Dropped(r)

DavNext == \E r \in Request : DavStep(r)
DavSpec == DavInit /\ [][DavNext]_davVars

(* ------------------------------ Properties ------------------------------ *)
(* An upload that has not arrived whole, or arrived with another length    *)
(* than the client announced, has left nothing of itself under a name a    *)
(* client uses ("incomplete body; remote file untouched").                 *)
IncompleteLeavesNothing ==
    \A r \in Request :
        Put(r) /\ at[r] # "idle" /\ (~ask[r].asAnnounced \/ code[r] = "body" \/ at[r] \in {"body", "undoBody"})
            => \A p \in Path : files[p] \notin {Whole(r), Part(r)}

(* What a client can see of a file is all of it, unless a request that     *)
(* writes in place is under way or was not answered with success, or       *)
(* worked on a name of another request: a COPY reads its source range by   *)
(* range, and mixes what is there before and after another file is moved   *)
(* onto it.                                                                *)
InPlace(r) == ask[r].op = "COPY" \/ Put(r)
NamesOf(r) == {Slot(ask[r].path), Goal(r)}
Conflict(r, s) == r # s /\ at[s] # "idle" /\ Goal(r) \in NamesOf(s)
Meet(r, s) == r # s /\ at[s] # "idle" /\ NamesOf(r) \cap NamesOf(s) # {}
PartialIsNotSuccess ==
    \A p \in Path : (\E x \in Path \cup Request : files[p] = Part(x))
        => \E r \in Request : /\ InPlace(r) /\ at[r] # "idle"
                             /\ \/ code[r] # "ok"
                                \/ \E s \in Request : Meet(r, s)

(* The data of a file disappear from the server only when a client deletes *)
(* it or replaces it: in place, by a COPY over it, or with the other data  *)
(* whole in its place.  No failure of the dance of replace_file loses both *)
(* the old and the new.                                                    *)
Somewhere(f, x) == \E n \in Name : f[n] = Whole(x)
Replaces(r) ==
    \/ at[r] \in {"delete", "clear", "store"}
    \/ at[r] = "transfer" /\ InPlace(r)
    \/ at[r] = "copied"
    \/ files'[Goal(r)] = files[Source(r)] /\ IsFile(files[Source(r)])
    \/ at[r] = "dropOld" /\ at'[r] = "ok"
    \/ at[r] = "unmake" /\ \E s \in Request : Conflict(r, s)   \* what s put there goes too
    \/ /\ at[r] = "restore" /\ server.overwrites   \* the old file goes over what is there:
       /\ \/ \E s \in Request : Conflict(r, s)    \* what s put there,
          \/ May("lostReply")                     \* or the new file, if it was moved after all
LostOnlyToReplacement ==
    [][\A p \in Path : Somewhere(files, p) /\ ~Somewhere(files', p)
          => \E r \in Request : <<at[r], count[r]>>' # <<at[r], count[r]>> /\ Replaces(r)]_davVars

(* A request that was answered has left no hidden file, unless the server  *)
(* refused to remove it.                                                   *)
NoHiddenFileLeft ==
    \A r \in Request : at[r] = "done" /\ files[Temp(r)] # Absent => May("remove")

(* What an upload shows to others is what was asked for: nothing when it   *)
(* did not arrive, all of it when it was answered with success             *)
(* (upload_streaming, upload_buffered, handle_put, move_copy).             *)
UploadIsHonest == IncompleteLeavesNothing /\ PartialIsNotSuccess

(* An upload is there as a whole or not at all, and nothing else of it.    *)
UploadsAreClean == UploadIsHonest /\ NoHiddenFileLeft
=============================================================================
