----------------------------- MODULE TransferJob -----------------------------
(***************************************************************************)
(* One file transfer as Job::run carries it out                            *)
(* (crates/rustscp-core/src/transfer_queue.rs): the rename or mv/cp on the *)
(* server, the streamed copy into a temporary sibling that replaces the    *)
(* destination, the whole-file copy for S3 and FTP, and the deletion of a  *)
(* moved source.  Every await on a driver or on the task list is a step,   *)
(* and each kind of driver call may fail that the job's plan allows to.    *)
(*                                                                         *)
(* Several jobs may work on the same files.  A file is a sequence of       *)
(* blocks, a block the name of the file its data first came from.  What    *)
(* Job::is_cancelled would answer is the variable "cancelled", so that     *)
(* another module can put the task list in its place.                      *)
(***************************************************************************)
EXTENDS Naturals, Sequences, FiniteSets

CONSTANTS
    Jobs,       \* the jobs
    File,       \* names of files, a session and a path each
    Absent,     \* the content of a name that is not there
    InitialFS,  \* the file systems a behaviour may start from
    Plans       \* what the jobs may be asked to do, one function of Jobs each

(* The kinds of driver calls that may fail, and how.                       *)
FaultKinds == {"stat", "exists", "read", "write", "create", "rename", "remove",
               "finish", "shell",
               "truncate",      \* a write fails after the file was created or emptied
               "silentShell",   \* a command exits 0 and ran nothing
               "readOnly",      \* the existing destination is a folder or read-only
               "marker",        \* the marker file of a whole-file destination
               "lostReply",     \* a rename takes effect and still reports an error
               "shortStore",    \* a closed file lacks its last block
               "noTimes"}       \* a server that reports no modification times

(* src = dst: the destination is the same directory entry as the source,   *)
(* under another path or through another session.                          *)
Plan == [src : File, dst : File, tmp : File,
         isMove      : BOOLEAN,
         sameSession : BOOLEAN,   \* source and destination on one session
         positional  : BOOLEAN,   \* dst.supports_write_at()
         shell       : BOOLEAN,   \* src.supports_shell()
         faults      : SUBSET FaultKinds]

ASSUME JobAssumption ==
    /\ \A p \in Plans : p \in [Jobs -> Plan]
    /\ InitialFS \subseteq [File -> Seq(File) \cup {Absent}]

VARIABLES
    fs,         \* content of every file
    plan,       \* what each job does
    job,        \* the progress of each job
    cancelled   \* what is_cancelled answers each job

vars == <<fs, plan, job, cancelled>>

(* How the bytes reach the destination.  "direct": no file was there.      *)
(* "temp": into the temporary sibling.  "inPlace": over the existing file. *)
(* "rewrite": the old file is gone and the temporary one would not take    *)
(* its place.  "whole": collected in memory, one write.                    *)
(* The steps of a job, and the stage of its copy; "remote" says that a     *)
(* server-side command may still be running, "buf" is what a whole-file    *)
(* copy has read.                                                          *)
NewJob == [at |-> "stat", stage |-> "none", off |-> 0, size |-> 0, buf |-> <<>>,
           result |-> "none", remote |-> FALSE]

Init ==
    /\ fs \in InitialFS
    /\ plan \in Plans
    /\ job = [j \in Jobs |-> NewJob]
    /\ cancelled = [j \in Jobs |-> FALSE]

-----------------------------------------------------------------------------
Exists(f) == fs[f] # Absent
May(j, kind) == kind \in plan[j].faults

Src(j) == plan[j].src
Dst(j) == plan[j].dst
Tmp(j) == plan[j].tmp

Owned(j)  == job[j].stage = "temp"
(* Mutant: the rewrite goes through the temporary file.                    *)
TargetTemp(j) == IF job[j].stage \in {"temp", "rewrite"} THEN Tmp(j) ELSE Dst(j)

Target(j) == IF Owned(j) THEN Tmp(j) ELSE Dst(j)
Alias(j)  == Src(j) = Dst(j)

(* metadata(f) succeeds and gives size n.                                  *)
SizeIs(f, n) == Exists(f) /\ Len(fs[f]) = n

Set(f, content) == fs' = [fs EXCEPT ![f] = content]

(* from takes the place of whatever to names.                              *)
Replace(from, to) == fs' = [fs EXCEPT ![to] = fs[from], ![from] = Absent]

(* A write of blocks at position off; at the start it creates or           *)
(* truncates, further on the file must be there.                           *)
Written(f, off, blocks) ==
    IF off = 0 THEN blocks
    ELSE LET old == fs[f]
             end == off + Len(blocks)
         IN  [i \in 1..(IF Len(old) > end THEN Len(old) ELSE end) |->
                IF i > off /\ i <= end THEN blocks[i - off]
                ELSE IF i <= Len(old) THEN old[i] ELSE "hole"]

At(j, step) == job[j].at = step
Go(j, step) == job' = [job EXCEPT ![j].at = step]
Begin(j, step, stage) ==
    job' = [job EXCEPT ![j].at = step, ![j].stage = stage, ![j].off = 0]

(* Give up or finish with result r; first remove what was written.         *)
Stop(j, r) == job' = [job EXCEPT ![j].at = "end", ![j].result = r]
StopAndDiscard(j, r) == job' = [job EXCEPT ![j].at = "discard", ![j].result = r]
(* Mutant (of the next): what was written in place is left there.          *)
StopTempOnly(j, r) == IF Owned(j) THEN StopAndDiscard(j, r) ELSE Stop(j, r)

StopOwned(j, r) ==
    IF Owned(j) \/ job[j].off > 0 THEN StopAndDiscard(j, r) ELSE Stop(j, r)

-----------------------------------------------------------------------------
(* run and server_side_transfer.                                           *)

AfterStat(j) ==
    IF ~ plan[j].sameSession THEN "destStat"
    ELSE IF plan[j].isMove THEN "rename" ELSE "shell"

Stat(j) ==
    /\ At(j, "stat")
    /\ \/ /\ Exists(Src(j))
          /\ job' = [job EXCEPT ![j].at = AfterStat(j), ![j].size = Len(fs[Src(j)])]
       \/ /\ ~ Exists(Src(j)) \/ May(j, "stat") \/ Alias(j)  \* two local sessions
          /\ Stop(j, "Failed")
    /\ UNCHANGED <<fs, plan>>

ServerRename(j) ==
    /\ At(j, "rename")
    /\ \/ /\ Exists(Src(j))
          /\ Replace(Src(j), Dst(j))
          /\ \/ Stop(j, "Completed")
             \/ May(j, "lostReply") /\ Go(j, "shell")
       \/ /\ ~ Exists(Src(j)) \/ May(j, "rename")
          /\ Go(j, "shell")
          /\ UNCHANGED fs
    /\ UNCHANGED plan

(* What mv or cp does when it gets to run.                                 *)
CommandEffect(j) ==
    IF ~ Exists(Src(j)) THEN UNCHANGED fs
    ELSE IF plan[j].isMove THEN Replace(Src(j), Dst(j))
    ELSE Set(Dst(j), fs[Src(j)])

NoShell(j) ==
    /\ At(j, "shell")
    /\ \/ ~ plan[j].shell
       \/ May(j, "shell")          \* a Protocol error: the command never ran
       \/ May(j, "readOnly")       \* the destination is a folder
    /\ Go(j, "destStat")
    /\ UNCHANGED <<fs, plan>>

ServerCommand(j) ==
    /\ At(j, "shell")
    /\ plan[j].shell
    /\ \/ CommandEffect(j) /\ Go(j, "shellCheck")
       \/ May(j, "silentShell") /\ Go(j, "shellCheck") /\ UNCHANGED fs
       \/ /\ ~ Exists(Src(j)) \/ May(j, "shell")                   \* it failed
          /\ IF plan[j].isMove THEN Stop(j, "Failed") ELSE Go(j, "destStat")
          /\ UNCHANGED fs
       \/ /\ May(j, "shell")                                       \* no answer
          /\ job' = [job EXCEPT ![j].at = "end", ![j].result = "Failed", ![j].remote = TRUE]
          /\ UNCHANGED fs
    /\ UNCHANGED plan

(* Exit code 0 alone is not proof.                                         *)
ShellCheck(j) ==
    /\ At(j, "shellCheck")
    /\ LET done == SizeIs(Dst(j), job[j].size) /\ (plan[j].isMove => ~ Exists(Src(j)))
       IN  \/ done /\ Stop(j, "Completed")
           \/ (~ done \/ May(j, "stat") \/ May(j, "exists")) /\ Go(j, "destStat")
    /\ UNCHANGED <<fs, plan>>

(* A command whose answer was lost may still do its work, much later.      *)
CommandRunsOn(j) ==
    /\ job[j].remote
    /\ CommandEffect(j)
    /\ job' = [job EXCEPT ![j].remote = FALSE]
    /\ UNCHANGED plan

-----------------------------------------------------------------------------
(* copy_file.                                                              *)

CopyWhole(j) ==
    /\ At(j, "destStat")
    /\ ~ plan[j].positional
    /\ Begin(j, IF plan[j].isMove THEN "wholeProbe" ELSE "loop", "whole")
    /\ UNCHANGED <<fs, plan>>

(* Any error of metadata(dest) is read as "not there".                     *)
DestMissing(j) ==
    /\ At(j, "destStat")
    /\ plan[j].positional
    /\ ~ Exists(Dst(j)) \/ May(j, "stat")
    /\ Begin(j, "loop", "direct")
    /\ UNCHANGED <<fs, plan>>

(* A temporary file that cannot be created is discarded, should it exist.  *)
CreateTemp(j) ==
    /\ At(j, "destStat")
    /\ plan[j].positional
    /\ Exists(Dst(j))
    /\ \/ Set(Tmp(j), <<>>) /\ Begin(j, "probe", "temp")
       \/ May(j, "create") /\ Begin(j, "guard", "inPlace") /\ UNCHANGED fs
       \/ May(j, "readOnly") /\ Stop(j, "Failed") /\ UNCHANGED fs
    /\ UNCHANGED plan

(* guard_in_place_same_file compares size and time only: it may refuse     *)
(* another file, and lets the source pass when it cannot tell.             *)
GuardInPlace(j) ==
    /\ At(j, "guard")
    /\ \/ /\ Exists(Src(j)) /\ Exists(Dst(j)) /\ Len(fs[Src(j)]) = Len(fs[Dst(j)])
          /\ Stop(j, "Failed")
       \/ /\ Alias(j) => May(j, "stat") \/ May(j, "noTimes")
          /\ Go(j, "loop")
    /\ UNCHANGED <<fs, plan>>

(* Mutant: the answer of the probe is not used.                            *)
ProbeUnused(j) == At(j, "probe") /\ Go(j, "loop") /\ UNCHANGED <<fs, plan>>

(* check_not_same_file: look the new temporary file up from the source.    *)
Probe(j) ==
    /\ At(j, "probe")
    /\ \/ Alias(j) /\ StopAndDiscard(j, "Failed")
       \/ (Alias(j) => May(j, "exists")) /\ Go(j, "loop")
    /\ UNCHANGED <<fs, plan>>

(* Mutant: a cancelled transfer leaves its temporary file.                 *)
PreCommitKeepingTemp(j) ==
    /\ At(j, "preCommit")
    /\ IF cancelled[j] THEN Stop(j, "Cancelled") ELSE Go(j, "commit")
    /\ UNCHANGED <<fs, plan>>

PreCommit(j) ==
    /\ At(j, "preCommit")
    /\ IF cancelled[j] THEN StopAndDiscard(j, "Cancelled") ELSE Go(j, "commit")
    /\ UNCHANGED <<fs, plan>>

RenameTemp(j, step, otherwise) ==
    /\ At(j, step)
    /\ \/ /\ Exists(Tmp(j))
          /\ Replace(Tmp(j), Dst(j))
          /\ \/ Go(j, "copied")
             \/ May(j, "lostReply") /\ otherwise
       \/ /\ ~ Exists(Tmp(j)) \/ May(j, "rename")
          /\ otherwise
          /\ UNCHANGED fs
    /\ UNCHANGED plan

(* Mutants: the rename is tried for ever; the temporary file is dropped    *)
(* before the destination is rewritten.                                    *)
CommitForEver(j) == RenameTemp(j, "commitAgain", Go(j, "commitAgain"))
CommitOrDrop(j)  == RenameTemp(j, "commitAgain", Begin(j, "dropTemp", "inPlace"))

Commit(j)      == RenameTemp(j, "commit", Go(j, "replace"))
CommitAgain(j) == RenameTemp(j, "commitAgain", Begin(j, "loop", "rewrite"))

(* The rename was refused: is there an old file to replace explicitly?     *)
LookForOld(j) ==
    /\ At(j, "replace")
    /\ \/ Exists(Dst(j)) /\ Go(j, "unlinkOld")
       \/ (~ Exists(Dst(j)) \/ May(j, "exists")) /\ Begin(j, "dropTemp", "inPlace")
    /\ UNCHANGED <<fs, plan>>

UnlinkOld(j) ==
    /\ At(j, "unlinkOld")
    /\ \/ Exists(Dst(j)) /\ Set(Dst(j), Absent) /\ Go(j, "commitAgain")
       \/ /\ ~ Exists(Dst(j)) \/ May(j, "remove")
          /\ Begin(j, "dropTemp", "inPlace")
          /\ UNCHANGED fs
    /\ UNCHANGED plan

(* Best effort, then overwrite in place, or be done with the rewrite.      *)
DropTemp(j) ==
    /\ At(j, "dropTemp")
    /\ Go(j, IF job[j].stage = "rewrite" THEN "copied" ELSE "loop")
    /\ \/ Set(Tmp(j), Absent)
       \/ May(j, "remove") /\ UNCHANGED fs
    /\ UNCHANGED plan

-----------------------------------------------------------------------------
(* stream_verified and stream_chunks.                                      *)

(* is_cancelled is asked before every chunk; what was written is removed.  *)
Loop(j) ==
    /\ At(j, "loop")
    /\ job[j].stage # "whole"
    /\ \/ /\ job[j].off < job[j].size
          /\ IF cancelled[j] THEN StopOwned(j, "Cancelled") ELSE Go(j, "block")
          /\ UNCHANGED fs
       \/ /\ job[j].off = job[j].size
          /\ IF job[j].size = 0 THEN Set(Target(j), <<>>) ELSE UNCHANGED fs
          /\ Go(j, "finish")
       \/ /\ job[j].size = 0 /\ May(j, "write")
          /\ StopOwned(j, "Failed")
          /\ UNCHANGED fs
    /\ UNCHANGED plan

(* The blocks a read at the current offset may return: one, or, when the   *)
(* first ranged read fails and read_file works, all of them.               *)
ReadBlocks(j) ==
    LET content == fs[Src(j)]
        off     == job[j].off
    IN  IF ~ Exists(Src(j)) \/ off >= Len(content) THEN {}
        ELSE {<<content[off + 1]>>} \cup
             (IF off = 0 /\ May(j, "read") /\ Len(content) = job[j].size
              THEN {content} ELSE {})

Advance(j, n) ==
    job' = [job EXCEPT ![j].at = "loop", ![j].off = job[j].off + n]

(* Mutant: a failed read is taken for a cancelled transfer.                *)
ReadFailsAsCancelled(j) ==
    /\ At(j, "block")
    /\ job[j].stage # "whole"
    /\ ReadBlocks(j) = {} \/ May(j, "read")
    /\ StopOwned(j, "Cancelled")
    /\ UNCHANGED <<fs, plan>>

ReadFails(j) ==
    /\ At(j, "block")
    /\ job[j].stage # "whole"
    /\ ReadBlocks(j) = {} \/ May(j, "read")
    /\ StopOwned(j, "Failed")
    /\ UNCHANGED <<fs, plan>>

(* A write may fail before or after the file was opened and emptied.       *)
CopyBlock(j) ==
    /\ At(j, "block")
    /\ job[j].stage # "whole"
    /\ \E blocks \in ReadBlocks(j) :
          LET off == job[j].off
              f   == Target(j)
          IN  \/ /\ off > 0 => Exists(f)
                 /\ Set(f, Written(f, off, blocks))
                 /\ Advance(j, Len(blocks))
              \/ /\ May(j, "write") \/ (off > 0 /\ ~ Exists(f))
                 /\ StopOwned(j, "Failed")
                 /\ UNCHANGED fs
              \/ /\ May(j, "truncate") /\ off = 0
                 /\ StopOwned(j, "Failed")
                 /\ Set(f, <<>>)
    /\ UNCHANGED plan

(* Some servers only store a written file once it is closed.               *)
Finish(j) ==
    /\ At(j, "finish")
    /\ \/ Go(j, "verify") /\ UNCHANGED fs
       \/ /\ May(j, "shortStore") /\ Exists(Target(j)) /\ fs[Target(j)] # <<>>
          /\ Set(Target(j), SubSeq(fs[Target(j)], 1, Len(fs[Target(j)]) - 1))
          /\ Go(j, "verify")
       \/ May(j, "finish") /\ StopAndDiscard(j, "Failed") /\ UNCHANGED fs
    /\ UNCHANGED plan

(* Mutant: the complete temporary file is not put in place.                *)
AfterVerifyDone(j) == IF job[j].stage = "rewrite" THEN "dropTemp" ELSE "copied"

AfterVerify(j) ==
    CASE job[j].stage = "temp"    -> "preCommit"
      [] job[j].stage = "rewrite" -> "dropTemp"
      [] OTHER                    -> "copied"

(* Mutant: any file will do.                                               *)
VerifyPresence(j) ==
    /\ At(j, "verify")
    /\ IF Exists(Target(j)) THEN Go(j, AfterVerify(j)) ELSE Stop(j, "Failed")
    /\ UNCHANGED <<fs, plan>>

(* Only a size that was seen to be wrong, or an owned file, is removed.    *)
Verify(j) ==
    /\ At(j, "verify")
    /\ \/ Exists(Target(j)) /\
             IF Len(fs[Target(j)]) = job[j].size
             THEN Go(j, AfterVerify(j))
             ELSE StopAndDiscard(j, "Failed")
       \/ (~ Exists(Target(j)) \/ May(j, "stat")) /\
             IF Owned(j) THEN StopAndDiscard(j, "Failed") ELSE Stop(j, "Failed")
    /\ UNCHANGED <<fs, plan>>

-----------------------------------------------------------------------------
(* copy_file_whole, and read_chunks, which collects the source in memory.  *)

WholeLoop(j) ==
    /\ At(j, "loop")
    /\ job[j].stage = "whole"
    /\ IF job[j].off = job[j].size THEN Go(j, "wholeWrite")
       ELSE IF cancelled[j] THEN Stop(j, "Cancelled") ELSE Go(j, "block")
    /\ UNCHANGED <<fs, plan>>

CollectBlock(j) ==
    /\ At(j, "block")
    /\ job[j].stage = "whole"
    /\ \E blocks \in ReadBlocks(j) :
          job' = [job EXCEPT ![j].at = "loop", ![j].off = @ + Len(blocks), ![j].buf = @ \o blocks]
    /\ UNCHANGED <<fs, plan>>

CollectFails(j) ==
    /\ At(j, "block")
    /\ job[j].stage = "whole"
    /\ ReadBlocks(j) = {} \/ May(j, "read")
    /\ Stop(j, "Failed")
    /\ UNCHANGED <<fs, plan>>

(* A marker of its own, created, looked up from the source and removed.    *)
WholeProbe(j) ==
    /\ At(j, "wholeProbe")
    /\ \/ Alias(j) /\ Stop(j, "Failed")
       \/ (Alias(j) => May(j, "marker") \/ May(j, "exists")) /\ Go(j, "loop")
    /\ UNCHANGED <<fs, plan>>

WholeCancelled(j) ==
    /\ At(j, "wholeWrite")
    /\ IF cancelled[j] THEN Stop(j, "Cancelled") ELSE Go(j, "wholePut")
    /\ UNCHANGED <<fs, plan>>

(* A store that fails part way may leave an incomplete file, and nothing   *)
(* is removed then.                                                        *)
WholePut(j) ==
    /\ At(j, "wholePut")
    /\ LET data == job[j].buf
       IN  \/ Set(Dst(j), data) /\ Go(j, "verify")
           \/ May(j, "write") /\ Stop(j, "Failed") /\ UNCHANGED fs
           \/ May(j, "truncate") /\ Stop(j, "Failed") /\ Set(Dst(j), <<>>)
           \/ /\ May(j, "shortStore") /\ data # <<>>
              /\ Set(Dst(j), Tail(data)) /\ Go(j, "verify")
    /\ UNCHANGED plan

-----------------------------------------------------------------------------
(* The end of transfer_file.                                               *)

Copied(j) ==
    /\ At(j, "copied")
    /\ IF ~ plan[j].isMove THEN Stop(j, "Completed")
       ELSE IF cancelled[j] THEN Stop(j, "Cancelled")
       ELSE Go(j, "moveStat")
    /\ UNCHANGED <<fs, plan>>

(* Check again right before deleting.                                      *)
MoveStat(j) ==
    /\ At(j, "moveStat")
    /\ \/ SizeIs(Dst(j), job[j].size) /\ Go(j, "unlinkSource")
       \/ (~ SizeIs(Dst(j), job[j].size) \/ May(j, "stat")) /\ Stop(j, "Failed")
    /\ UNCHANGED <<fs, plan>>

(* Mutant: the last look at the task list comes after the deletion.        *)
UnlinkThenAsk(j) ==
    /\ At(j, "unlinkSource")
    /\ \/ /\ Exists(Src(j)) /\ Set(Src(j), Absent)
          /\ Stop(j, IF cancelled[j] THEN "Cancelled" ELSE "Completed")
       \/ (~ Exists(Src(j)) \/ May(j, "remove")) /\ Stop(j, "Failed") /\ UNCHANGED fs
    /\ UNCHANGED plan

UnlinkSource(j) ==
    /\ At(j, "unlinkSource")
    /\ \/ Exists(Src(j)) /\ Set(Src(j), Absent) /\ Stop(j, "Completed")
       \/ (~ Exists(Src(j)) \/ May(j, "remove")) /\ Stop(j, "Failed") /\ UNCHANGED fs
    /\ UNCHANGED plan

(* discard_partial, best effort.                                           *)
Discard(j) ==
    /\ At(j, "discard")
    /\ Go(j, "end")
    /\ \/ Set(Target(j), Absent)
       \/ May(j, "remove") /\ UNCHANGED fs
    /\ UNCHANGED plan

-----------------------------------------------------------------------------
DriverStep(j) ==
    \/ Stat(j) \/ ServerRename(j) \/ NoShell(j) \/ ServerCommand(j) \/ ShellCheck(j)
    \/ CopyWhole(j) \/ DestMissing(j) \/ CreateTemp(j) \/ GuardInPlace(j) \/ Probe(j)
    \/ Loop(j) \/ ReadFails(j) \/ CopyBlock(j) \/ Finish(j) \/ Verify(j)
    \/ PreCommit(j) \/ Commit(j) \/ LookForOld(j) \/ UnlinkOld(j) \/ CommitAgain(j)
    \/ DropTemp(j) \/ WholeProbe(j) \/ WholeLoop(j) \/ CollectBlock(j) \/ CollectFails(j)
    \/ WholeCancelled(j) \/ WholePut(j)
    \/ Copied(j) \/ MoveStat(j) \/ UnlinkSource(j) \/ Discard(j)

(* The user cancels; the entry of a cancelled task may be cleared from the *)
(* list while its job still runs, and then is_cancelled answers no again.  *)
Cancel(j) ==
    /\ cancelled' = [cancelled EXCEPT ![j] = TRUE]
    /\ UNCHANGED <<fs, plan, job>>

EntryCleared(j) ==
    /\ cancelled[j]
    /\ cancelled' = [cancelled EXCEPT ![j] = FALSE]
    /\ UNCHANGED <<fs, plan, job>>

Next ==
    \E j \in Jobs :
        \/ DriverStep(j) /\ UNCHANGED cancelled
        \/ CommandRunsOn(j) /\ UNCHANGED cancelled
        \/ Cancel(j)
        \/ EntryCleared(j)

Spec == Init /\ [][Next]_vars

(* Every driver call returns.                                              *)
FairSpec == Spec /\ \A j \in Jobs : WF_vars(DriverStep(j) /\ UNCHANGED cancelled)

-----------------------------------------------------------------------------
(* Properties.                                                             *)

Ended(j) == At(j, "end")

(* f holds a complete copy of what j transfers: every block from its source *)
CopyIn(j, f) ==
    /\ SizeIs(f, job[j].size)
    /\ \A i \in 1..job[j].size : fs[f][i] = Src(j)

(* The destination is still the file that was there before.                *)
OldInPlace(j) ==
    Exists(Dst(j)) /\ fs[Dst(j)] # <<>> /\ \A i \in 1..Len(fs[Dst(j)]) : fs[Dst(j)][i] = Dst(j)

(* The kinds in question cannot fail for j.                                *)
Safe(j, kinds) == plan[j].faults \cap kinds = {}

(* "A task is Completed only after the destination size was checked": and  *)
(* what is there is the whole source, whatever call failed on the way -    *)
(* but for a command that exits 0 and does nothing over an old file of the *)
(* same size, which no check of sizes can tell.                            *)
CompletedIsCopied ==
    \A j \in Jobs : Ended(j) /\ job[j].result = "Completed" =>
        \/ CopyIn(j, Dst(j))
        \/ ~ Safe(j, {"silentShell"}) /\ OldInPlace(j) /\ SizeIs(Dst(j), job[j].size)

SourceIntact(j) == Exists(Src(j)) /\ (job[j].size > 0 => CopyIn(j, Src(j)))

(* "a move deletes its source only after that check": at no moment are the *)
(* data of the source in neither place, and a copy never touches them.     *)
(* (An empty file has no data; see the README on what may happen to it.)   *)
SourceOutlivesCopying ==
    \A j \in Jobs :
        job[j].size > 0 => CopyIn(j, Src(j)) \/ (plan[j].isMove /\ CopyIn(j, Dst(j)))

(* A cancelled transfer, a move too, leaves its source where it was, or    *)
(* else the server has moved it and the program could not see that it had. *)
CancelledKeepsSource ==
    \A j \in Jobs :
        /\ job[j].result = "Cancelled"
        /\ plan[j].sameSession => Safe(j, {"lostReply", "stat", "exists"})
        => SourceIntact(j)

(* Where a removal that is tried succeeds, a transfer leaves no temporary  *)
(* file behind unless it is the only complete copy on the destination, or  *)
(* the only one whose size could be looked at.                             *)
TempLeftOnlyAsRescue ==
    \A j \in Jobs :
        Ended(j) /\ Exists(Tmp(j)) /\ Safe(j, {"remove"})
        => CopyIn(j, Tmp(j)) /\ (CopyIn(j, Dst(j)) => May(j, "stat"))

(* A transfer that failed or was cancelled in the middle leaves no partial *)
(* file of its own under the name of the destination, where removals and   *)
(* the calls that look at it work and a failed write creates nothing.      *)
NoPartialLeft ==
    \A j \in Jobs :
        Ended(j) /\ plan[j].positional /\ Exists(Dst(j))
        /\ Safe(j, {"remove", "stat", "truncate"})
        => OldInPlace(j) \/ CopyIn(j, Dst(j))

(* "keeping the complete temporary copy until that worked": while the old  *)
(* file is gone and the destination is rewritten, a complete copy exists,  *)
(* unless a rename took effect and its reply was lost.                     *)
RescueKept ==
    \A j \in Jobs :
        job[j].stage = "rewrite" /\ Safe(j, {"lostReply"})
        => CopyIn(j, Tmp(j)) \/ CopyIn(j, Dst(j))

(* "a destination that is the source file itself under another path ... is *)
(* detected with a marker file and refused": its data survive wherever the *)
(* lookups answer.                                                         *)
AliasSurvives ==
    \A j \in Jobs :
        Alias(j) /\ Safe(j, {"marker", "exists", "stat", "noTimes"})
        => SourceIntact(j) \/ CopyIn(j, Tmp(j))

(* The data of the source survive, whatever fails, is cancelled or turns   *)
(* out to be the same file: the three about them.                          *)
SourceSurvives == SourceOutlivesCopying /\ CancelledKeepsSource /\ AliasSurvives

(* What a transfer leaves behind is complete, or was there before.         *)
LeftoversAreRescues == TempLeftOnlyAsRescue /\ NoPartialLeft /\ RescueKept

(* Every fallback leads on, and none leads back: a transfer whose calls    *)
(* return comes to an end.                                                 *)
EveryJobEnds == \A j \in Jobs : <>Ended(j)

-----------------------------------------------------------------------------
(* The refinement of FileReplace, by each job for itself.                  *)

(* To a positional destination where temporary files can be created and    *)
(* the calls that look at and remove files answer.                         *)
PromiseFaults == {"read", "write", "rename", "finish", "shell", "readOnly", "shortStore"}
Promised(j)   == plan[j].positional /\ plan[j].faults \subseteq PromiseFaults

(* An empty file that is its own destination counts as the old one.        *)
DestOf(j) ==
    IF ~ Exists(Dst(j)) THEN "none"
    ELSE IF OldInPlace(j) \/ (Alias(j) /\ job[j].size = 0) THEN "old"
    ELSE IF CopyIn(j, Dst(j)) THEN "new" ELSE "partial"

Promise(j) ==
    INSTANCE FileReplace WITH
        isMove <- plan[j].isMove,
        dest   <- DestOf(j),
        spare  <- CopyIn(j, Tmp(j)),
        source <- IF Exists(Src(j)) THEN "there" ELSE "gone",
        report <- IF Ended(j) THEN job[j].result ELSE "running"

(* A transfer to a positional destination keeps the promise of FileReplace *)
(* where temporary files can be created and the calls that look at and     *)
(* remove files answer: copy_file, commit_temp and transfer_file.          *)
KeepsPromise ==
    /\ \A j \in Jobs : Promised(j) => Promise(j)!Init
    /\ [][\A j \in Jobs : Promised(j) => [Promise(j)!Next]_(Promise(j)!vars)]_vars

-----------------------------------------------------------------------------
(* What the theorems about these properties take of the jobs: Hypotheses,  *)
(* and for what is left behind TempsNew too.                               *)

(* The files job j of the plans p writes to: a copy only reads its source. *)
WrittenBy(p, j) == {p[j].dst, p[j].tmp} \cup (IF p[j].isMove THEN {p[j].src} ELSE {})
FilesOf(p, j)   == {p[j].src, p[j].dst, p[j].tmp}

(* No job writes to a file of another one: two jobs may read one source.   *)
FilesApart ==
    /\ Absent \notin Seq(File)
    /\ \A p \in Plans : \A j \in Jobs :
          /\ p[j].tmp \notin {p[j].src, p[j].dst}
          /\ \A i \in Jobs \ {j} : WrittenBy(p, i) \cap FilesOf(p, j) = {}

(* What the files hold at first is their own data.                         *)
OwnData ==
    \A c \in InitialFS : \A f \in File : c[f] # Absent => \A i \in 1..Len(c[f]) : c[f][i] = f

(* A file that is its own destination is there, and the calls that tell    *)
(* it from another one answer (a whole-file copy onto itself is not looked *)
(* for by the code: only a move is).                                       *)
AliasesShow ==
    \A p \in Plans : \A j \in Jobs : p[j].src = p[j].dst =>
        /\ ~ p[j].sameSession /\ (p[j].positional \/ p[j].isMove)
        /\ p[j].faults \cap {"marker", "exists", "stat", "noTimes"} = {}
        /\ \A c \in InitialFS : c[p[j].src] # Absent

Hypotheses == FilesApart /\ OwnData /\ AliasesShow

(* No temporary file is there yet, and no destination is an empty file.    *)
TempsNew ==
    \A p \in Plans : \A j \in Jobs : \A c \in InitialFS :
        /\ c[p[j].tmp] = Absent
        /\ p[j].src # p[j].dst => c[p[j].dst] # <<>>

=============================================================================
