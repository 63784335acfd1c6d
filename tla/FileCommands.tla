---------------------------- MODULE FileCommands ----------------------------
(***************************************************************************)
(* The commands of the desktop that change files of one server: move,      *)
(* delete, trash, duplicate, copy, compress and extract, as sequences of   *)
(* driver calls and shell scripts.  Two of them run at a time, and another *)
(* program may put a file anywhere.                                        *)
(***************************************************************************)
EXTENDS Naturals, Sequences, FiniteSets

CONSTANTS
    FileTask,        \* commands under way
    Asked,      \* what they may be asked: [do, items, over] (items: sequence of names)
    FileName,   \* names of files
    Folded,     \* FileName -> FileName: the name a server that folds case sees
    Copies,     \* FileName -> Seq(FileName): the names tried for a copy of it
    Archive,    \* the name of the archive
    Servers,    \* [replaces, store, shell, apart, folds]
    Contents    \* the files at the start: functions of Spot

VARIABLES
    machine, place,   \* the machine and what is at each spot
    trash,           \* sequence of [file, path, info, by]
    fileTask, other,      \* the commands; whether the other program has put its file
    owed             \* history: contents that were once complete and nobody has given up

fileVars == <<machine, place, trash, fileTask, other, owed>>

Spot    == {"home", "dest"} \X FileName
Content(of, by) == [of |-> of, by |-> by, whole |-> TRUE]
NoFile == [of |-> {}, by |-> "none", whole |-> FALSE]
Torn(r) == [of |-> {}, by |-> r, whole |-> FALSE]
Home(n) == <<"home", n>>
Command == {"move", "delete", "trash", "restore", "empty", "duplicate", "copy", "compress", "extract"}
ASSUME FileAssumption ==
    /\ {"none", "start", "other"} \cap FileTask = {}
    /\ Asked \subseteq [do : Command, items : Seq(FileName), over : BOOLEAN]
    /\ \A a \in Asked : a.do \in {"restore", "empty"} \/ a.items # <<>>
    /\ Archive \in FileName /\ Folded \in [FileName -> FileName] /\ Copies \in [FileName -> Seq(FileName)]
    /\ \A a \in Asked : a.do = "duplicate" => \A i \in DOMAIN a.items : Copies[a.items[i]] # <<>>
    /\ \E n \in FileName : Copies[n] # <<>>
    /\ \A p \in Contents : p \in [Spot -> {NoFile} \cup {Content(p[s].of, p[s].by) : s \in Spot}]
Dest(n) == <<"dest", IF machine.folds THEN Folded[n] ELSE n>>
Names(r) == {fileTask[r].items[i] : i \in 1..Len(fileTask[r].items)}
Item(r)  == fileTask[r].items[fileTask[r].i]
Taken(s) == place[s] # NoFile
Does(r, do, at) == fileTask[r].do = do /\ fileTask[r].at = at

With(e, t) == [x \in DOMAIN t |-> IF x \in DOMAIN e THEN e[x] ELSE t[x]]
Step(r, e) == fileTask' = [fileTask EXCEPT ![r] = With(e, @)]
NoTask ==
    [do |-> "none", items |-> <<>>, over |-> FALSE, at |-> "start", i |-> 1, k |-> 1, id |-> 0,
     left |-> {}, saw |-> {}, told |-> {}, ids |-> {}, infos |-> {},
     new |-> Home(Archive), partial |-> NoFile, cut |-> FALSE, answer |-> "none"]
Ended(r, a) ==
    [NoTask EXCEPT !.do = fileTask[r].do, !.at = "done", !.told = fileTask[r].told, !.cut = fileTask[r].cut,
                   !.partial = fileTask[r].partial, !.answer = IF fileTask[r].cut THEN "failed" ELSE a]
AnswerWith(r, a) == fileTask' = [fileTask EXCEPT ![r] = Ended(r, a)]
NextItem(r, at) ==      \* the loops stop at the first error
    IF fileTask[r].i = Len(fileTask[r].items) THEN AnswerWith(r, "ok")
    ELSE Step(r, [at |-> at, i |-> fileTask[r].i + 1, saw |-> {}])
Clear(s) == place' = [place EXCEPT ![s] = NoFile]
(* What command r replaces at s is given up if it came after r had seen s  *)
(* free, or when a person has agreed.                                      *)
GivenUp(r, s, agreed) == IF Taken(s) /\ (agreed \/ s \in fileTask[r].saw) THEN {place[s]} ELSE {}
fileParts == <<place, trash, other, owed>>

Ask(r) ==
    /\ fileTask[r].do = "none"
    /\ \E a \in Asked :
           /\ a.do \in {"trash", "restore", "empty", "compress", "extract"} => machine.shell
           /\ a.do = "compress" => Archive \notin {a.items[i] : i \in 1..Len(a.items)}
           /\ a.do = "restore" => trash # <<>>
           /\ Step(r, [do |-> a.do, items |-> a.items, over |-> a.over, at |-> "start",
                     told |-> IF a.do # "delete" THEN {}
                             ELSE {<<Home(n), place[Home(n)]>> : n \in {a.items[i] : i \in 1..Len(a.items)}}])
    /\ UNCHANGED <<machine, fileParts>>
Fails(r) ==     \* a call that fails before it has changed anything
    /\ fileTask[r].do # "none"
    /\ fileTask[r].at \in {"start", "recheck", "rename", "trash", "back", "write", "unpack"}
    /\ AnswerWith(r, "failed") /\ UNCHANGED <<machine, fileParts>>

(* ------------------------------ move_items ------------------------------ *)
CheckAll(r) ==
    /\ Does(r, "move", "start")
    /\ IF \E n \in Names(r) : Taken(Dest(n)) THEN AnswerWith(r, "conflict")
       ELSE Step(r, [at |-> "recheck", saw |-> {Dest(n) : n \in Names(r)}])
    /\ UNCHANGED <<machine, fileParts>>
(* Mutant: the names are looked at once, at the start.                     *)
RecheckNot(r) ==
    /\ Does(r, "move", "recheck") /\ Step(r, [at |-> "rename"])
    /\ UNCHANGED <<machine, fileParts>>
Recheck(r) ==
    /\ Does(r, "move", "recheck")
    /\ IF Taken(Dest(Item(r))) THEN AnswerWith(r, "conflict")
       ELSE Step(r, [at |-> "rename", saw |-> {Dest(Item(r))}])
    /\ UNCHANGED <<machine, fileParts>>
Rename(r) ==
    LET s == Home(Item(r))
        t == Dest(Item(r))
    IN
    /\ Does(r, "move", "rename") /\ Taken(s) /\ (Taken(t) => machine.replaces)
    /\ owed' = owed \ GivenUp(r, t, FALSE)
    /\ \/ place' = [place EXCEPT ![s] = NoFile, ![t] = place[s]] /\ NextItem(r, "recheck")
       \/ /\ machine.store /\ place' = [place EXCEPT ![t] = place[s]]  \* copied, then not deleted
          /\ AnswerWith(r, "failed")
    /\ UNCHANGED <<machine, trash, other>>

(* ------------------------------ delete_items ---------------------------- *)
Probe(r) ==
    /\ Does(r, "delete", "start")
    /\ Step(r, [at |-> IF machine.shell THEN "quick" ELSE "slow", left |-> Names(r)])
    /\ UNCHANGED <<machine, fileParts>>
Deleted(s) ==      \* the path was asked for
    Clear(s) /\ owed' = owed \ {place[s]}
(* rm -rf: exit 0 (also if the shell sees other files), an error or no     *)
(* answer; the last two end the quick way.                                 *)
Quick(r) ==
    /\ Does(r, "delete", "quick")
    /\ \/ /\ ~machine.apart /\ Deleted(Home(Item(r)))
       \/ UNCHANGED <<place, owed>>
    /\ \/ /\ machine.apart \/ ~Taken(Home(Item(r))) \/ place'[Home(Item(r))] = NoFile
          /\ Step(r, IF fileTask[r].i < Len(fileTask[r].items) THEN [i |-> fileTask[r].i + 1] ELSE [at |-> "look"])
       \/ Step(r, [at |-> "look"])
       \/ Step(r, [at |-> IF fileTask[r].i = 1 THEN "slow" ELSE "look"])
    /\ UNCHANGED <<machine, trash, other>>
(* Mutant: what rm says is believed.                                       *)
LookNot(r) ==
    /\ Does(r, "delete", "look") /\ Step(r, [at |-> "slow", left |-> {}])
    /\ UNCHANGED <<machine, fileParts>>
LookLeft(r) ==
    /\ Does(r, "delete", "look")
    /\ \E left \in SUBSET Names(r) :
           /\ \A n \in Names(r) : Taken(Home(n)) => n \in left
           /\ Step(r, [at |-> "slow", left |-> left])
    /\ UNCHANGED <<machine, fileParts>>
Slow(r) ==
    /\ Does(r, "delete", "slow")
    /\ IF fileTask[r].left = {} THEN AnswerWith(r, "ok") /\ UNCHANGED <<place, owed>>
       ELSE LET n == CHOOSE m \in fileTask[r].left : TRUE IN
            \/ Deleted(Home(n)) /\ Step(r, [left |-> fileTask[r].left \ {n}])
            \/ Taken(Home(n)) /\ AnswerWith(r, "failed") /\ UNCHANGED <<place, owed>>
    /\ UNCHANGED <<machine, trash, other>>

(* --------------------------- manage_remote_trash ------------------------ *)
(* mv, then the .trashinfo; the connection may end after either.           *)
TrashFile(r) ==
    LET s == Home(Item(r)) IN
    /\ fileTask[r].do = "trash" /\ fileTask[r].at \in {"start", "trash"}
    /\ Taken(s) /\ ~machine.apart
    /\ Clear(s)
    /\ trash' = Append(trash, [file |-> place[s], path |-> s, info |-> FALSE, by |-> r])
    /\ \/ Step(r, [at |-> "info", id |-> Len(trash) + 1])
       \/ AnswerWith(r, "failed")
    /\ UNCHANGED <<machine, other, owed>>
(* Mutant: a .trashinfo that cannot be written is no error.                *)
TrashInfoTried(r) ==
    /\ Does(r, "trash", "info")
    /\ trash' \in {trash, [trash EXCEPT ![fileTask[r].id].info = TRUE]}
    /\ NextItem(r, "trash") \/ AnswerWith(r, "failed")
    /\ UNCHANGED <<machine, place, other, owed>>
TrashInfo(r) ==
    /\ Does(r, "trash", "info")
    /\ \/ trash' = [trash EXCEPT ![fileTask[r].id].info = TRUE] /\ (NextItem(r, "trash") \/ AnswerWith(r, "failed"))
       \/ UNCHANGED trash /\ AnswerWith(r, "failed")
    /\ UNCHANGED <<machine, place, other, owed>>
FirstFree(seq) ==
    LET free == {i \in 1..Len(seq) : ~Taken(seq[i])}
    IN IF free = {} THEN {} ELSE {seq[CHOOSE i \in free : \A j \in free : i <= j]}
(* Mutant: what was deleted goes back to its place, whatever is there now. *)
Original(path) == {path}
RestoredAs(path) == FirstFree(<<path>> \o [i \in 1..Len(Copies[path[2]]) |-> <<path[1], Copies[path[2]][i]>>])
FindInTrash(r) ==
    /\ Does(r, "restore", "start")
    /\ \E id \in 1..Len(trash) :
           /\ trash[id].info /\ trash[id].file # NoFile
           /\ \E s \in RestoredAs(trash[id].path) :
                  Step(r, [at |-> "back", id |-> id, new |-> s, saw |-> IF Taken(s) THEN {} ELSE {s}])
    /\ UNCHANGED <<machine, fileParts>>
PutBack(r) ==
    LET s == fileTask[r].new IN
    /\ Does(r, "restore", "back") /\ trash[fileTask[r].id].file # NoFile
    /\ owed' = owed \ GivenUp(r, s, FALSE)
    /\ place' = [place EXCEPT ![s] = trash[fileTask[r].id].file]
    /\ trash' = [trash EXCEPT ![fileTask[r].id].file = NoFile]
    /\ Step(r, [at |-> "forget"]) \/ AnswerWith(r, "failed")
    /\ UNCHANGED <<machine, other>>
ForgetInfo(r) ==
    /\ Does(r, "restore", "forget") /\ trash' = [trash EXCEPT ![fileTask[r].id].info = FALSE]
    /\ AnswerWith(r, "ok") /\ UNCHANGED <<machine, place, other, owed>>
EmptyTrash(r) ==    \* the patterns are expanded before anything is removed
    /\ Does(r, "empty", "start")
    /\ Step(r, [at |-> "rm", ids |-> {id \in 1..Len(trash) : trash[id].file # NoFile},
              infos |-> {id \in 1..Len(trash) : trash[id].info}])
    /\ UNCHANGED <<machine, fileParts>>
RemoveTrash(r) ==
    /\ Does(r, "empty", "rm")
    /\ owed' = owed \ {trash[id].file : id \in fileTask[r].ids}
    /\ trash' = [id \in 1..Len(trash) |-> [trash[id] EXCEPT
           !.file = IF id \in fileTask[r].ids THEN NoFile ELSE @, !.info = @ /\ id \notin fileTask[r].infos]]
    /\ AnswerWith(r, "ok") /\ UNCHANGED <<machine, place, other>>

(* ---------------------- duplicate_item, transfer_file ------------------- *)
Candidate(r) == Home(Copies[Item(r)][fileTask[r].k])
(* A name that cannot be looked at is taken to be free: a copy that is     *)
(* there is then replaced.                                                 *)
TryName(r) ==
    /\ Does(r, "duplicate", "start")
    /\ \/ /\ Taken(Candidate(r))
          /\ IF fileTask[r].k = Len(Copies[Item(r)]) THEN AnswerWith(r, "failed")
             ELSE Step(r, [k |-> fileTask[r].k + 1])
       \/ Step(r, [at |-> "write", new |-> Candidate(r), saw |-> {Candidate(r)}])
    /\ UNCHANGED <<machine, fileParts>>
CopyTo(r) ==     \* same_tree_transfer_rejection has seen that source and target differ
    /\ Does(r, "copy", "start") /\ Step(r, [at |-> "write", new |-> Dest(Item(r))])
    /\ UNCHANGED <<machine, fileParts>>
(* The first write creates or empties the target.                          *)
StartsCopy(r) ==
    /\ fileTask[r].at = "write" /\ Taken(Home(Item(r)))
    /\ owed' = owed \ GivenUp(r, fileTask[r].new, fileTask[r].do = "copy")
    /\ place' = [place EXCEPT ![fileTask[r].new] = Torn(r)]
    /\ Step(r, [at |-> "fill"]) /\ UNCHANGED <<machine, trash, other>>
Copied(r) ==      \* end_write_stream
    /\ fileTask[r].at = "fill"
    /\ LET c == Content(place[Home(Item(r))].of, r) IN
       \/ /\ Taken(Home(Item(r))) /\ place[Home(Item(r))].whole
          /\ place' = [s \in Spot |-> IF place[s] = Torn(r) THEN c ELSE place[s]]
          /\ owed' = IF \E s \in Spot : place[s] = Torn(r) THEN owed \cup {c} ELSE owed
          /\ AnswerWith(r, "ok")
       \/ UNCHANGED <<place, owed>> /\ AnswerWith(r, "failed")
    /\ UNCHANGED <<machine, trash, other>>

(* ----------------------- compress_items, extract_archive ---------------- *)
CheckArchive(r) ==    \* metadata, which may fail, then the check of the script
    /\ fileTask[r].do = "compress" /\ fileTask[r].at \in {"start", "check"}
    /\ IF Taken(Home(Archive)) /\ ~fileTask[r].over THEN AnswerWith(r, "conflict")
       ELSE Step(r, IF fileTask[r].at = "start" THEN [at |-> "check"]
                  ELSE [at |-> "pack", saw |-> {Home(Archive)} \ {s \in Spot : Taken(s)}])
    /\ UNCHANGED <<machine, fileParts>>
EndWithout(r, a) ==     \* the partial archive is gone
    fileTask' = [fileTask EXCEPT ![r] = [Ended(r, a) EXCEPT !.partial = NoFile]]
Packs(r) ==
    /\ Does(r, "compress", "pack")
    /\ Step(r, [at |-> "packing", partial |-> Torn(r)]) /\ UNCHANGED <<machine, fileParts>>
(* Mutant: only the compressor at the end of the pipe is asked.            *)
PackedIfCompressed(r) ==
    /\ Does(r, "compress", "packing")
    /\ Step(r, [at |-> "swap", partial |-> IF fileTask[r].partial = NoFile THEN NoFile
           ELSE [Content(UNION {place[Home(n)].of : n \in Names(r)}, r)
                 EXCEPT !.whole = \A n \in Names(r) : Taken(Home(n))]])
    /\ UNCHANGED <<machine, fileParts>>
Packed(r) ==
    /\ Does(r, "compress", "packing")
    /\ \/ /\ \A n \in Names(r) : Taken(Home(n))
          /\ Step(r, [at |-> "swap", partial |-> IF fileTask[r].partial = NoFile THEN NoFile
                 ELSE Content(UNION {place[Home(n)].of : n \in Names(r)}, r)])
       \/ EndWithout(r, "failed")
    /\ UNCHANGED <<machine, fileParts>>
Swap(r) ==      \* mv -f partial output
    /\ Does(r, "compress", "swap")
    /\ IF fileTask[r].partial = NoFile THEN AnswerWith(r, "failed") /\ UNCHANGED <<place, owed>>
       ELSE /\ owed' = (owed \ GivenUp(r, Home(Archive), fileTask[r].over)) \cup {fileTask[r].partial}
            /\ place' = [place EXCEPT ![Home(Archive)] = fileTask[r].partial]
            /\ EndWithout(r, "ok")
    /\ UNCHANGED <<machine, trash, other>>
(* No answer in time, or no connection: the partial archive is removed if  *)
(* it can be; the script may go on.                                        *)
Cut(r) ==
    /\ fileTask[r].do = "compress" /\ fileTask[r].at \in {"pack", "packing", "swap"} /\ ~fileTask[r].cut
    /\ \E p \in {fileTask[r].partial, NoFile} :
           LET now == [fileTask[r] EXCEPT !.cut = TRUE, !.answer = "failed", !.partial = p] IN
           fileTask' \in {[fileTask EXCEPT ![r] = now],
                         [fileTask EXCEPT ![r] = [Ended(r, "failed") EXCEPT !.cut = TRUE, !.partial = p]]}
    /\ UNCHANGED <<machine, fileParts>>
(* Files that exist are kept, unless they are to be replaced.              *)
(* Mutant: everything in the archive is put in place.                      *)
Unpacks(r) ==
    /\ fileTask[r].do = "extract" /\ fileTask[r].at \in {"start", "next"}
    /\ Step(r, [at |-> "unpack"]) /\ UNCHANGED <<machine, fileParts>>
Peek(r) ==
    /\ fileTask[r].do = "extract" /\ fileTask[r].at \in {"start", "next"}
    /\ IF Taken(Home(Item(r))) /\ ~fileTask[r].over THEN NextItem(r, "next")
       ELSE Step(r, [at |-> "unpack", saw |-> {Home(Item(r))}])
    /\ UNCHANGED <<machine, fileParts>>
Unpack(r) ==
    /\ Does(r, "extract", "unpack")
    /\ LET c == Content({"archived"}, r) IN
       /\ owed' = (owed \ GivenUp(r, Home(Item(r)), fileTask[r].over)) \cup {c}
       /\ place' = [place EXCEPT ![Home(Item(r))] = c]
    /\ NextItem(r, "next") /\ UNCHANGED <<machine, trash, other>>

(* Another program puts a file where none is.                              *)
OtherPuts ==
    /\ ~other /\ other' = TRUE
    /\ \E s \in Spot : ~Taken(s) /\ place' = [place EXCEPT ![s] = Content({"o"}, "other")]
    /\ owed' = owed \cup {Content({"o"}, "other")} /\ UNCHANGED <<machine, trash, fileTask>>

FileInit ==
    /\ machine \in Servers /\ place \in Contents
    /\ trash \in {<<>>, <<[file |-> Content({"t"}, "start"), path |-> Home(CHOOSE n \in FileName : Copies[n] # <<>>),
                           info |-> TRUE, by |-> "start"]>>}
    /\ other = FALSE
    /\ owed = ({place[s] : s \in Spot} \cup {trash[i].file : i \in 1..Len(trash)}) \ {NoFile}
    /\ fileTask = [r \in FileTask |-> NoTask]
FileNext ==
    \/ OtherPuts
    \/ \E r \in FileTask :
           \/ Ask(r) \/ Fails(r) \/ CheckAll(r) \/ Recheck(r) \/ Rename(r)
           \/ Probe(r) \/ Quick(r) \/ LookLeft(r) \/ Slow(r)
           \/ TrashFile(r) \/ TrashInfo(r) \/ FindInTrash(r) \/ PutBack(r) \/ ForgetInfo(r)
           \/ EmptyTrash(r) \/ RemoveTrash(r)
           \/ TryName(r) \/ CopyTo(r) \/ StartsCopy(r) \/ Copied(r)
           \/ CheckArchive(r) \/ Packs(r) \/ Packed(r) \/ Swap(r) \/ Cut(r) \/ Peek(r) \/ Unpack(r)
FileSpec == FileInit /\ [][FileNext]_fileVars

(* ------------------------------- Properties ----------------------------- *)
Lost(c) ==
    /\ \A s \in Spot : place[s] # c
    /\ \A i \in 1..Len(trash) : trash[i].file # c
(* Whatever two commands and another program do to the same names: a file  *)
(* that was complete is somewhere, unless it was deleted, replaced with    *)
(* consent, or put at a name just after a command had seen it free.        *)
NothingIsLost == \A c \in owed : ~Lost(c)
(* A deletion that succeeds has deleted, also where the shell sees other   *)
(* files than the file API (of two commands: a third one may have put back *)
(* what the second had moved to the trash).                                *)
DeletedIsGone ==
    \A r \in FileTask : fileTask[r].do = "delete" /\ fileTask[r].answer = "ok" =>
        \A t \in fileTask[r].told : t[2] # NoFile => place[t[1]] # t[2]
(* An archive in place is complete; a failed run leaves none half-written, *)
(* unless its answer was lost.                                             *)
ArchivesAreWhole ==
    \A r \in FileTask : fileTask[r].do = "compress" =>
        /\ \A s \in Spot : place[s].by = r => place[s].whole
        /\ fileTask[r].at = "done" /\ fileTask[r].partial # NoFile => fileTask[r].cut
(* What was moved to the trash with success can be found there.            *)
TrashIsListed ==
    \A i \in 1..Len(trash) :
        trash[i].file # NoFile /\ trash[i].by \in FileTask /\ fileTask[trash[i].by].answer = "ok" => trash[i].info

(* Commands on files of one server lose no file and leave whole archives   *)
(* and a trash that shows its files: the three of these that hold for any  *)
(* number of commands (move_items, delete_items, manage_remote_trash,      *)
(* duplicate_item, compress_items, extract_archive).                       *)
FilesAreKept == NothingIsLost /\ ArchivesAreWhole /\ TrashIsListed
=============================================================================
