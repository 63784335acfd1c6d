------------------------- MODULE TransferJobProofs -------------------------
(***************************************************************************)
(* Theorems about TransferJob, for any number of jobs, files of any size   *)
(* and any combination of failing calls, under the hypotheses stated at    *)
(* the end of that module; and that every job implements FileReplace: each *)
(* of its steps is a step of the abstract specification, or changes        *)
(* nothing that it shows.                                                  *)
(***************************************************************************)
EXTENDS TransferJob, TLAPS

-----------------------------------------------------------------------------
(* The parts of the invariant.                                             *)

Step == {"stat", "rename", "shell", "shellCheck", "destStat", "guard", "probe", "loop", "block",
         "finish", "verify", "preCommit", "commit", "replace", "unlinkOld", "commitAgain", "dropTemp",
         "wholeProbe", "wholeWrite", "wholePut", "copied", "moveStat", "unlinkSource", "discard", "end"}
Stage  == {"none", "direct", "temp", "inPlace", "rewrite", "whole"}
Result == {"none", "Completed", "Failed", "Cancelled"}
JobState == [at : Step, stage : Stage, off : Nat, size : Nat, buf : Seq(File), result : Result,
             remote : BOOLEAN]

TypeOK ==
    /\ fs \in [File -> Seq(File) \cup {Absent}]
    /\ plan \in Plans
    /\ job \in [Jobs -> JobState]
    /\ cancelled \in [Jobs -> BOOLEAN]

(* All of f that is there is data of s.                                    *)
DataOf(f, s) == Exists(f) => \A i \in 1..Len(fs[f]) : fs[f][i] = s

(* How far a job is, and by which way it got there.                        *)
Control(j) ==
    LET r == job[j]
    IN  /\ r.at \in {"stat", "rename", "shell", "shellCheck", "destStat"} => r.stage = "none" /\ r.off = 0
        /\ r.at = "stat" => r.size = 0
        /\ r.at \in {"rename", "shell", "shellCheck"} => plan[j].sameSession
        /\ r.at \in {"rename", "wholeProbe", "moveStat", "unlinkSource"} => plan[j].isMove
        /\ r.at = "guard" => r.stage = "inPlace" /\ r.off = 0
        /\ r.at = "probe" => r.stage = "temp" /\ r.off = 0
        /\ r.at \in {"preCommit", "commit", "replace", "unlinkOld", "commitAgain"} => r.stage = "temp"
        /\ r.at = "dropTemp" => r.stage = "rewrite" \/ (r.stage = "inPlace" /\ r.off = 0)
        /\ r.at \in {"wholeWrite", "wholePut"} => r.stage = "whole" /\ r.off = r.size
        /\ r.at = "wholeProbe" => r.stage = "whole" /\ r.off = 0
        /\ r.at \in {"loop", "block"} => r.stage # "none" /\ r.off <= r.size
        /\ r.at = "block" => r.off < r.size
        /\ r.at = "finish" => r.stage \notin {"none", "whole"}
        /\ r.at \in {"verify", "discard", "copied", "moveStat", "unlinkSource"} => r.stage # "none"
        /\ r.stage # "none" => (r.stage = "whole" <=> ~ plan[j].positional)
        /\ r.result = "none" <=> r.at \notin {"discard", "end"}
        /\ r.result = "Completed" => r.at = "end"
        /\ r.remote => /\ r.at = "end" /\ r.result = "Failed" /\ r.stage = "none"
                       /\ plan[j].sameSession

(* The buffer of a whole-file copy is what was read of the source.         *)
Buffered(j) ==
    job[j].stage = "whole" =>
        /\ Len(job[j].buf) = job[j].off
        /\ \A i \in 1..job[j].off : job[j].buf[i] = Src(j)
EmptyBuffer(j) == job[j].stage # "whole" => job[j].buf = <<>>

(* The source is what its first look at it saw, or it is gone: and then    *)
(* the destination is complete, and the job cannot get to write to it.     *)
Looked(j) == job[j].at \notin {"stat", "end"} \/ job[j].remote \/ job[j].size > 0
             \/ job[j].result \in {"Completed", "Cancelled"}
SourceSound(j) ==
    /\ DataOf(Src(j), Src(j))
    /\ Looked(j) /\ Exists(Src(j)) => Len(fs[Src(j)]) = job[j].size
    /\ job[j].size > 0 /\ ~ Exists(Src(j)) =>
          /\ plan[j].isMove /\ CopyIn(j, Dst(j))
          /\ \/ job[j].at = "end"
             \/ job[j].at = "discard" /\ job[j].stage = "temp"
             \/ /\ job[j].at \in {"shell", "shellCheck", "destStat", "probe", "guard", "loop", "block", "wholeProbe"}
                /\ job[j].off = 0
    /\ job[j].at = "rename" => Exists(Src(j))
    /\ job[j].at \in {"shell", "shellCheck"} /\ ~ Exists(Src(j)) => plan[j].isMove /\ CopyIn(j, Dst(j))
    /\ job[j].at \notin {"stat", "shellCheck", "end"} \/ job[j].result = "Cancelled" =>
          Exists(Src(j)) \/ (plan[j].sameSession /\ ~ Safe(j, {"lostReply", "stat", "exists"}))

(* What the destination holds before anything is written to it.            *)
OldOrNew(j) == DataOf(Dst(j), Dst(j)) \/ CopyIn(j, Dst(j))

(* What has been copied is data of the source, from its start on and       *)
(* without a gap, wherever the copy is.                                    *)
CopySound(j) ==
    LET r == job[j]
    IN  /\ r.at \in {"stat", "rename"} => DataOf(Dst(j), Dst(j))
        /\ r.at = "shell" => OldOrNew(j)
        /\ r.at = "shellCheck" => CopyIn(j, Dst(j)) \/ (May(j, "silentShell") /\ DataOf(Dst(j), Dst(j)))
        /\ r.at \in {"loop", "block"} /\ r.stage # "whole" /\ r.off > 0 =>
              Exists(Target(j)) /\ Len(fs[Target(j)]) = r.off /\ DataOf(Target(j), Src(j))
        /\ r.at = "finish" => CopyIn(j, Target(j))
        /\ r.at = "verify" => DataOf(Target(j), Src(j))
        /\ r.at \in {"preCommit", "commit"} => CopyIn(j, Tmp(j))
        /\ r.at \in {"replace", "unlinkOld", "commitAgain"} =>
              IF Exists(Tmp(j)) THEN CopyIn(j, Tmp(j)) ELSE May(j, "lostReply")
        /\ r.at \in {"copied", "moveStat", "unlinkSource"} \/ (r.at = "dropTemp" /\ r.stage = "rewrite")
              => CopyIn(j, Dst(j))
        /\ r.result = "Completed" =>
              \/ CopyIn(j, Dst(j))
              \/ May(j, "silentShell") /\ OldInPlace(j) /\ SizeIs(Dst(j), r.size)

(* A job whose destination is its source stops before it writes to it.     *)
AliasSound(j) ==
    /\ job[j].at \in {"stat", "destStat", "wholeProbe", "probe", "guard", "discard", "end"}
    /\ job[j].at = "discard" => job[j].stage = "temp"
    /\ job[j].stage # "rewrite"
    /\ job[j].result \in {"none", "Failed"} /\ ~ job[j].remote
    /\ Exists(Src(j)) /\ DataOf(Src(j), Src(j))
    /\ job[j].at \notin {"stat", "end"} \/ job[j].size > 0 => Len(fs[Src(j)]) = job[j].size

JobIsSound(j) ==
    /\ Control(j) /\ Buffered(j) /\ EmptyBuffer(j)
    /\ IF Alias(j) THEN AliasSound(j) ELSE SourceSound(j) /\ CopySound(j)

IInv == Hypotheses /\ TypeOK /\ \A j \in Jobs : JobIsSound(j)

-----------------------------------------------------------------------------
(* What is left behind, for jobs that begin without temporary files.       *)

(* Where removals work, a temporary file is there while it is written and  *)
(* put in place, and after the old file had to give way.                   *)
TempSound(j) ==
    LET r == job[j]
    IN  Safe(j, {"remove"}) /\ Exists(Tmp(j)) =>
            \/ /\ r.stage = "temp"
               /\ r.at \in {"probe", "loop", "block", "finish", "verify", "preCommit", "commit", "replace",
                            "unlinkOld", "commitAgain", "discard"}
            \/ r.stage = "inPlace" /\ r.at = "dropTemp"
            \/ /\ r.stage = "rewrite"
               /\ r.at \in {"loop", "block", "finish", "verify", "dropTemp", "discard", "end"}
               /\ CopyIn(j, Tmp(j))
               /\ r.at \in {"loop", "block"} /\ r.off = 0 => ~ Exists(Dst(j))
               /\ r.at = "end" /\ CopyIn(j, Dst(j)) => May(j, "stat")

(* The complete temporary file outlasts the rewrite of the destination.    *)
RewriteSound(j) ==
    LET r == job[j]
    IN  /\ r.at = "commitAgain" => ~ Exists(Dst(j))
        /\ r.stage = "rewrite" /\ Safe(j, {"lostReply"}) =>
              \/ /\ r.at \in {"loop", "block", "finish", "verify", "dropTemp", "discard", "end"}
                 /\ CopyIn(j, Tmp(j))
              \/ r.at \in {"copied", "moveStat", "unlinkSource", "end"} /\ CopyIn(j, Dst(j))

(* A part of a copy under the destination's name is one that is written    *)
(* in place, not yet checked, or about to be removed.                      *)
Whole(j) == ~ Exists(Dst(j)) \/ OldInPlace(j) \/ CopyIn(j, Dst(j))
DestSound(j) ==
    plan[j].positional /\ Safe(j, {"remove", "stat", "truncate"}) =>
        /\ job[j].at \in {"stat"} => ~ Exists(Dst(j)) \/ OldInPlace(j)
        /\ \/ Whole(j)
           \/ /\ job[j].stage \in {"direct", "inPlace", "rewrite"}
              /\ \/ job[j].at \in {"loop", "block"} /\ job[j].off > 0
                 \/ job[j].at \in {"verify", "discard"}

LeftSound(j) ==
    /\ TempSound(j)
    /\ ~ Alias(j) => RewriteSound(j) /\ DestSound(j)

LInv == IInv /\ TempsNew /\ \A j \in Jobs : LeftSound(j)

-----------------------------------------------------------------------------
(* Facts every step of a job is looked at with.                            *)
PlanSound(j) ==
    /\ plan[j] \in Plan
    /\ Tmp(j) # Src(j) /\ Tmp(j) # Dst(j)
    /\ Alias(j) => /\ ~ plan[j].sameSession /\ (plan[j].positional \/ plan[j].isMove)
                   /\ Safe(j, {"marker", "exists", "stat", "noTimes"})
Ready(j) == TypeOK /\ Absent \notin Seq(File) /\ PlanSound(j) /\ JobIsSound(j)

LEMMA ReadyForIt == ASSUME IInv, NEW j \in Jobs PROVE Ready(j)
  BY JobAssumption DEF JobAssumption, IInv, Hypotheses, FilesApart, AliasesShow, TypeOK, Ready, PlanSound,
     Src, Dst, Tmp, Alias, Safe

(* The next state of a job and what it does to the rest.                   *)
Becomes(j, r) ==
    /\ job' \in [Jobs -> JobState]
    /\ job'[j] = r
    /\ \A i \in Jobs \ {j} : job'[i] = job[i]

LEMMA UpdateBecomes ==
    ASSUME TypeOK, NEW j \in Jobs, NEW r \in JobState, job' = [job EXCEPT ![j] = r]
    PROVE  Becomes(j, r)
  BY DEF TypeOK, Becomes

LEMMA GoBecomes ==
    ASSUME TypeOK, NEW j \in Jobs, NEW step \in Step, Go(j, step)
    PROVE  Becomes(j, [job[j] EXCEPT !.at = step])
  BY DEF TypeOK, JobState, Go, Becomes

LEMMA BeginBecomes ==
    ASSUME TypeOK, NEW j \in Jobs, NEW step \in Step, NEW stage \in Stage, Begin(j, step, stage)
    PROVE  Becomes(j, [job[j] EXCEPT !.at = step, !.stage = stage, !.off = 0])
  <1>1. [job[j] EXCEPT !.at = step, !.stage = stage, !.off = 0] \in JobState
    BY DEF TypeOK, JobState
  <1>2. job' = [job EXCEPT ![j] = [job[j] EXCEPT !.at = step, !.stage = stage, !.off = 0]]
    BY DEF TypeOK, JobState, Begin
  <1> QED
    BY <1>1, <1>2, UpdateBecomes

LEMMA StopBecomes ==
    ASSUME TypeOK, NEW j \in Jobs, NEW r \in Result
    PROVE  /\ Stop(j, r) => Becomes(j, [job[j] EXCEPT !.at = "end", !.result = r])
           /\ StopAndDiscard(j, r) => Becomes(j, [job[j] EXCEPT !.at = "discard", !.result = r])
  <1>1. "end" \in Step /\ "discard" \in Step
    BY DEF Step
  <1>2. ASSUME Stop(j, r) PROVE Becomes(j, [job[j] EXCEPT !.at = "end", !.result = r])
    BY <1>1, <1>2 DEF TypeOK, JobState, Stop, Becomes
  <1>3. ASSUME StopAndDiscard(j, r) PROVE Becomes(j, [job[j] EXCEPT !.at = "discard", !.result = r])
    BY <1>1, <1>3 DEF TypeOK, JobState, StopAndDiscard, Becomes
  <1> QED
    BY <1>2, <1>3

LEMMA AdvanceBecomes ==
    ASSUME TypeOK, NEW j \in Jobs, NEW n \in Nat, Advance(j, n)
    PROVE  Becomes(j, [job[j] EXCEPT !.at = "loop", !.off = job[j].off + n])
  <1>1. "loop" \in Step
    BY DEF Step
  <1>2. job[j].off + n \in Nat
    BY DEF TypeOK, JobState
  <1> QED
    BY <1>1, <1>2 DEF TypeOK, JobState, Advance, Becomes

(* The next content of the files.                                          *)
LEMMA SetFiles ==
    ASSUME TypeOK, NEW f \in File, NEW c \in Seq(File) \cup {Absent}, Set(f, c)
    PROVE  /\ fs' \in [File -> Seq(File) \cup {Absent}]
           /\ fs'[f] = c
           /\ \A g \in File \ {f} : fs'[g] = fs[g]
  BY DEF TypeOK, Set

LEMMA ReplaceFiles ==
    ASSUME TypeOK, NEW from \in File, NEW to \in File, from # to, Replace(from, to)
    PROVE  /\ fs' \in [File -> Seq(File) \cup {Absent}]
           /\ fs'[to] = fs[from] /\ fs'[from] = Absent
           /\ \A g \in File \ {from, to} : fs'[g] = fs[g]
  BY DEF TypeOK, Replace

(* What a step keeps to: its own job and its own files.                    *)
KeepsTo(j) ==
    /\ TypeOK' /\ plan' = plan
    /\ \A i \in Jobs \ {j} : job'[i] = job[i]
    /\ \A f \in File \ WrittenBy(plan, j) : fs'[f] = fs[f]

Kept(j) == KeepsTo(j) /\ JobIsSound(j)' /\ (LeftSound(j) => LeftSound(j)')

LEMMA Parts ==
    ASSUME NEW j \in Jobs, KeepsTo(j), Control(j)', Buffered(j)', EmptyBuffer(j)',
           Alias(j) => AliasSound(j)',
           ~ Alias(j) => SourceSound(j)' /\ CopySound(j)',
           LeftSound(j) => TempSound(j)',
           LeftSound(j) /\ ~ Alias(j) => RewriteSound(j)' /\ DestSound(j)'
    PROVE  Kept(j)
  <1>1. Alias(j)' <=> Alias(j)
    BY DEF KeepsTo, Alias, Src, Dst
  <1>2. JobIsSound(j)'
    BY <1>1 DEF JobIsSound
  <1>3. ASSUME LeftSound(j) PROVE LeftSound(j)'
    BY <1>1, <1>3 DEF LeftSound
  <1> QED
    BY <1>2, <1>3 DEF Kept

(* A transfer that gives up without removing anything.                     *)
LEMMA StopStep ==
    ASSUME NEW j \in Jobs, Ready(j), NEW r \in {"Failed", "Cancelled"}, Stop(j, r), UNCHANGED <<fs, plan, cancelled>>,
           job[j].at \notin {"probe", "finish", "preCommit", "commit", "replace", "unlinkOld", "commitAgain",
                             "dropTemp", "discard", "end"},
           r = "Cancelled" => job[j].at \notin {"stat", "destStat", "shellCheck", "guard", "wholeProbe"},
           job[j].stage = "temp" => job[j].at \in {"copied", "moveStat", "unlinkSource"},
           job[j].at \in {"loop", "block"} => job[j].off = 0 \/ job[j].stage = "whole",
           job[j].at = "verify" => ~ Exists(Target(j)) \/ May(j, "stat")
    PROVE  Kept(j)
  <1>1. Becomes(j, [job[j] EXCEPT !.at = "end", !.result = r])
    BY StopBecomes DEF Result, Ready
  <1> USE DEF Ready, PlanSound, Src, Dst, Tmp, Alias, Safe, Plan, May, Becomes, TypeOK, JobState, Exists
  <1>2. KeepsTo(j)
    BY <1>1 DEF KeepsTo, WrittenBy, Target, Owned, Step
  <1>3. Control(j)' /\ Buffered(j)' /\ EmptyBuffer(j)'
    BY <1>1 DEF JobIsSound, Control, Buffered, EmptyBuffer, Target, Owned, Step
  <1>4. Alias(j) => AliasSound(j)'
    BY <1>1 DEF JobIsSound, AliasSound, Control, DataOf, Target, Owned, Step
  <1>5. ~ Alias(j) => SourceSound(j)'
    BY <1>1 DEF JobIsSound, SourceSound, Control, CopySound, DataOf, Looked, CopyIn, SizeIs, Target, Owned, Step
  <1>6. ~ Alias(j) => CopySound(j)'
    BY <1>1 DEF JobIsSound, CopySound, Control, DataOf, CopyIn, SizeIs, OldOrNew, OldInPlace, Target, Owned, Step
  <1>7. LeftSound(j) => TempSound(j)'
    BY <1>1 DEF LeftSound, TempSound, JobIsSound, AliasSound, Control, CopyIn, SizeIs, Target, Owned, Step
  <1>8. LeftSound(j) /\ ~ Alias(j) => RewriteSound(j)'
    BY <1>1 DEF LeftSound, RewriteSound, JobIsSound, Control, CopySound, CopyIn, SizeIs, Target, Owned, Step
  <1>9. LeftSound(j) /\ ~ Alias(j) => DestSound(j)'
    BY <1>1
    DEF LeftSound, DestSound, Whole, OldInPlace, JobIsSound, Control, CopySound, CopyIn, SizeIs, Target, Owned, Step
  <1> QED
    BY <1>2, <1>3, <1>4, <1>5, <1>6, <1>7, <1>8, <1>9, Parts

(* A transfer that gives up what it has written.                           *)
LEMMA DiscardingStep ==
    ASSUME NEW j \in Jobs, Ready(j), NEW r \in {"Failed", "Cancelled"}, StopAndDiscard(j, r),
           UNCHANGED <<fs, plan, cancelled>>,
           job[j].at \in {"probe", "loop", "block", "finish", "verify", "preCommit"},
           job[j].at = "probe" => r = "Failed",
           job[j].at \in {"loop", "block"} => job[j].stage = "temp" \/ job[j].off > 0
    PROVE  Kept(j)
  <1>1. Becomes(j, [job[j] EXCEPT !.at = "discard", !.result = r])
    BY StopBecomes DEF Result, Ready
  <1> USE DEF Ready, PlanSound, Src, Dst, Tmp, Alias, Safe, Plan, May, Becomes, TypeOK, JobState, Exists
  <1>2. KeepsTo(j)
    BY <1>1 DEF KeepsTo, WrittenBy
  <1>3. Control(j)' /\ Buffered(j)' /\ EmptyBuffer(j)'
    BY <1>1 DEF JobIsSound, Control, Buffered, EmptyBuffer
  <1>4. Alias(j) => AliasSound(j)'
    BY <1>1 DEF JobIsSound, AliasSound, Control, DataOf
  <1>5. ~ Alias(j) => SourceSound(j)'
    BY <1>1 DEF JobIsSound, SourceSound, Control, CopySound, DataOf, Looked, CopyIn, SizeIs
  <1>6. ~ Alias(j) => CopySound(j)'
    BY <1>1 DEF JobIsSound, CopySound, Control, DataOf, CopyIn, SizeIs, OldOrNew, OldInPlace, Target, Owned
  <1>7. LeftSound(j) => TempSound(j)'
    BY <1>1 DEF LeftSound, TempSound, JobIsSound, AliasSound, Control, CopyIn, SizeIs
  <1>8. LeftSound(j) /\ ~ Alias(j) => RewriteSound(j)'
    BY <1>1 DEF LeftSound, RewriteSound, JobIsSound, Control, CopySound, CopyIn, SizeIs
  <1>9. LeftSound(j) /\ ~ Alias(j) => DestSound(j)'
    BY <1>1 DEF LeftSound, DestSound, Whole, OldInPlace, JobIsSound, Control, CopySound, CopyIn, SizeIs
  <1> QED
    BY <1>2, <1>3, <1>4, <1>5, <1>6, <1>7, <1>8, <1>9, Parts

(* While the source is there it is what the job copies.                    *)
LEMMA NoAnswer ==
    ASSUME TypeOK, NEW j \in Jobs, job' = [job EXCEPT ![j].at = "end", ![j].result = "Failed", ![j].remote = TRUE]
    PROVE  Becomes(j, [job[j] EXCEPT !.at = "end", !.result = "Failed", !.remote = TRUE])
  <1>1. "end" \in Step /\ "Failed" \in Result
    BY DEF Step, Result
  <1>2. [job[j] EXCEPT !.at = "end", !.result = "Failed", !.remote = TRUE] \in JobState
    BY <1>1 DEF TypeOK, JobState
  <1>3. job' = [job EXCEPT ![j] = [job[j] EXCEPT !.at = "end", !.result = "Failed", !.remote = TRUE]]
    BY DEF TypeOK, JobState
  <1> QED
    BY <1>2, <1>3, UpdateBecomes

LEMMA EmptyFile == <<>> \in Seq(File) /\ Len(<<>>) = 0
  OBVIOUS

LEMMA SourceIsCopy ==
    ASSUME NEW j \in Jobs, Ready(j), ~ Alias(j), Looked(j), Exists(Src(j))
    PROVE  CopyIn(j, Src(j))
  BY DEF Ready, JobIsSound, SourceSound, DataOf, CopyIn, SizeIs, Exists, TypeOK, JobState

(* The first look at the source.                                           *)
LEMMA StatStep ==
    ASSUME NEW j \in Jobs, Ready(j), Stat(j), UNCHANGED cancelled
    PROVE  Kept(j)
  <1> USE DEF Ready, PlanSound, Src, Dst, Tmp, Alias, Safe, Plan, May, Becomes, TypeOK, JobState, Exists
  <1>1. CASE Exists(Src(j)) /\ job' = [job EXCEPT ![j].at = AfterStat(j), ![j].size = Len(fs[Src(j)])]
    <2>1. Len(fs[Src(j)]) \in Nat
      BY <1>1 DEF Exists, TypeOK
    <2>2. Becomes(j, [job[j] EXCEPT !.at = AfterStat(j), !.size = Len(fs[Src(j)])])
      <3>1. AfterStat(j) \in Step
        BY DEF AfterStat, Step
      <3>2. [job[j] EXCEPT !.at = AfterStat(j), !.size = Len(fs[Src(j)])] \in JobState
        BY <2>1, <3>1
      <3>3. job' = [job EXCEPT ![j] = [job[j] EXCEPT !.at = AfterStat(j), !.size = Len(fs[Src(j)])]]
        BY <1>1
      <3> QED
        BY <3>2, <3>3, UpdateBecomes
    <2>3. /\ AfterStat(j) \in {"rename", "shell", "destStat"}
          /\ AfterStat(j) # "destStat" => plan[j].sameSession
          /\ AfterStat(j) = "rename" => plan[j].isMove
          /\ job[j].at = "stat" /\ UNCHANGED <<fs, plan>>
      BY DEF AfterStat, Stat, At
    <2>4. KeepsTo(j)
      BY <1>1, <2>1, <2>2, <2>3 DEF KeepsTo, WrittenBy, OldInPlace, OldOrNew
    <2>5. Control(j)' /\ Buffered(j)' /\ EmptyBuffer(j)'
      BY <1>1, <2>1, <2>2, <2>3 DEF JobIsSound, Control, Buffered, EmptyBuffer, OldInPlace, OldOrNew
    <2>6. Alias(j) => AliasSound(j)'
      BY <1>1, <2>1, <2>2, <2>3 DEF JobIsSound, AliasSound, Control, DataOf, OldInPlace, OldOrNew
    <2>7. ~ Alias(j) => SourceSound(j)'
      BY <1>1, <2>1, <2>2, <2>3
      DEF JobIsSound, SourceSound, Control, CopySound, DataOf, Looked, CopyIn, SizeIs, OldInPlace, OldOrNew
    <2>8. ~ Alias(j) => CopySound(j)'
      <3> SUFFICES ASSUME ~ Alias(j) PROVE CopySound(j)'
        OBVIOUS
      <3>1. job'[j].at \in {"rename", "shell", "destStat"} /\ job'[j].result = "none"
        BY <2>2, <2>3 DEF JobIsSound, Control
      <3>2. DataOf(Dst(j), Dst(j))'
        BY <2>3 DEF JobIsSound, CopySound, DataOf
      <3> QED
        BY <3>1, <3>2 DEF CopySound, OldOrNew
    <2>9. LeftSound(j) => TempSound(j)'
      BY <1>1, <2>1, <2>2, <2>3
      DEF LeftSound, TempSound, JobIsSound, AliasSound, Control, CopyIn, SizeIs, OldInPlace, OldOrNew
    <2>10. LeftSound(j) /\ ~ Alias(j) => RewriteSound(j)'
      BY <1>1, <2>1, <2>2, <2>3
      DEF LeftSound, RewriteSound, JobIsSound, Control, CopySound, CopyIn, SizeIs, OldInPlace, OldOrNew
    <2>11. LeftSound(j) /\ ~ Alias(j) => DestSound(j)'
      BY <1>1, <2>1, <2>2, <2>3
      DEF LeftSound, DestSound, Whole, OldInPlace, JobIsSound, Control, CopySound, CopyIn, SizeIs, OldOrNew
    <2> QED
      BY <2>4, <2>5, <2>6, <2>7, <2>8, <2>9, <2>10, <2>11, Parts
  <1>2. CASE Stop(j, "Failed")
    BY <1>2, StopStep DEF Stat, At, JobIsSound, Control
  <1> QED
    BY <1>1, <1>2 DEF Stat

(* A rename on the server; an alias has two sessions.                      *)
LEMMA RenameStep ==
    ASSUME NEW j \in Jobs, Ready(j), ServerRename(j), UNCHANGED cancelled
    PROVE  Kept(j)
  <1> USE DEF Ready, PlanSound, Src, Dst, Tmp, Alias, Safe, Plan, May, Becomes, TypeOK, JobState, Exists
  <1>1. ~ Alias(j) /\ At(j, "rename") /\ plan[j].isMove /\ plan' = plan
    BY DEF ServerRename, At, JobIsSound, AliasSound, Control
  <1>2. CopyIn(j, Src(j))
    BY <1>1, SourceIsCopy DEF Looked, At, JobIsSound, SourceSound
  <1>3. CASE Exists(Src(j)) /\ Replace(Src(j), Dst(j)) /\ Stop(j, "Completed")
    <2>1. Becomes(j, [job[j] EXCEPT !.at = "end", !.result = "Completed"])
      BY <1>3, StopBecomes DEF Result
    <2>2. /\ fs' \in [File -> Seq(File) \cup {Absent}]
          /\ fs'[Dst(j)] = fs[Src(j)] /\ fs'[Src(j)] = Absent
          /\ \A g \in File \ {Src(j), Dst(j)} : fs'[g] = fs[g]
      BY <1>3, <1>1, <1>2, ReplaceFiles
    <2>3. CopyIn(j, Dst(j))'
      BY <1>3, <2>1, <2>2, <1>1, <1>2 DEF Becomes, CopyIn, SizeIs, Exists
    <2>4. KeepsTo(j)
      BY <1>3, <2>1, <2>2, <2>3, <1>1, <1>2 DEF KeepsTo, WrittenBy, At
    <2>5. Control(j)' /\ Buffered(j)' /\ EmptyBuffer(j)'
      BY <1>3, <2>1, <2>2, <2>3, <1>1, <1>2 DEF JobIsSound, Control, Buffered, EmptyBuffer, At
    <2>6. Alias(j) => AliasSound(j)'
      BY <1>3, <2>1, <2>2, <2>3, <1>1, <1>2 DEF JobIsSound, AliasSound, Control, DataOf, At
    <2>7. ~ Alias(j) => SourceSound(j)'
      BY <1>3, <2>1, <2>2, <2>3, <1>1, <1>2
      DEF JobIsSound, SourceSound, Control, CopySound, DataOf, Looked, CopyIn, SizeIs, At
    <2>8. ~ Alias(j) => CopySound(j)'
      BY <1>3, <2>1, <2>2, <2>3, <1>1, <1>2
      DEF JobIsSound, CopySound, Control, DataOf, CopyIn, SizeIs, OldOrNew, OldInPlace, Target, Owned, At
    <2>9. LeftSound(j) => TempSound(j)'
      BY <1>3, <2>1, <2>2, <2>3, <1>1, <1>2
      DEF LeftSound, TempSound, JobIsSound, AliasSound, Control, CopyIn, SizeIs, At
    <2>10. LeftSound(j) /\ ~ Alias(j) => RewriteSound(j)'
      BY <1>3, <2>1, <2>2, <2>3, <1>1, <1>2
      DEF LeftSound, RewriteSound, JobIsSound, Control, CopySound, CopyIn, SizeIs, At
    <2>11. LeftSound(j) /\ ~ Alias(j) => DestSound(j)'
      BY <1>3, <2>1, <2>2, <2>3, <1>1, <1>2
      DEF LeftSound, DestSound, Whole, OldInPlace, JobIsSound, Control, CopySound, CopyIn, SizeIs, At
    <2> QED
      BY <2>4, <2>5, <2>6, <2>7, <2>8, <2>9, <2>10, <2>11, Parts
  <1>4. CASE Exists(Src(j)) /\ Replace(Src(j), Dst(j)) /\ May(j, "lostReply") /\ Go(j, "shell")
    <2>1. Becomes(j, [job[j] EXCEPT !.at = "shell"])
      BY <1>4, GoBecomes DEF Step
    <2>2. /\ fs' \in [File -> Seq(File) \cup {Absent}]
          /\ fs'[Dst(j)] = fs[Src(j)] /\ fs'[Src(j)] = Absent
          /\ \A g \in File \ {Src(j), Dst(j)} : fs'[g] = fs[g]
      BY <1>4, <1>1, <1>2, ReplaceFiles
    <2>3. CopyIn(j, Dst(j))'
      BY <1>4, <2>1, <2>2, <1>1, <1>2 DEF Becomes, CopyIn, SizeIs, Exists
    <2>4. KeepsTo(j)
      BY <1>4, <2>1, <2>2, <2>3, <1>1, <1>2 DEF KeepsTo, WrittenBy, At
    <2>5. Control(j)' /\ Buffered(j)' /\ EmptyBuffer(j)'
      BY <1>4, <2>1, <2>2, <2>3, <1>1, <1>2 DEF JobIsSound, Control, Buffered, EmptyBuffer, At
    <2>6. Alias(j) => AliasSound(j)'
      BY <1>4, <2>1, <2>2, <2>3, <1>1, <1>2 DEF JobIsSound, AliasSound, Control, DataOf, At
    <2>7. ~ Alias(j) => SourceSound(j)'
      BY <1>4, <2>1, <2>2, <2>3, <1>1, <1>2
      DEF JobIsSound, SourceSound, Control, CopySound, DataOf, Looked, CopyIn, SizeIs, At
    <2>8. ~ Alias(j) => CopySound(j)'
      BY <1>4, <2>1, <2>2, <2>3, <1>1, <1>2
      DEF JobIsSound, CopySound, Control, DataOf, CopyIn, SizeIs, OldOrNew, OldInPlace, Target, Owned, At
    <2>9. LeftSound(j) => TempSound(j)'
      BY <1>4, <2>1, <2>2, <2>3, <1>1, <1>2
      DEF LeftSound, TempSound, JobIsSound, AliasSound, Control, CopyIn, SizeIs, At
    <2>10. LeftSound(j) /\ ~ Alias(j) => RewriteSound(j)'
      BY <1>4, <2>1, <2>2, <2>3, <1>1, <1>2
      DEF LeftSound, RewriteSound, JobIsSound, Control, CopySound, CopyIn, SizeIs, At
    <2>11. LeftSound(j) /\ ~ Alias(j) => DestSound(j)'
      BY <1>4, <2>1, <2>2, <2>3, <1>1, <1>2
      DEF LeftSound, DestSound, Whole, OldInPlace, JobIsSound, Control, CopySound, CopyIn, SizeIs, At
    <2> QED
      BY <2>4, <2>5, <2>6, <2>7, <2>8, <2>9, <2>10, <2>11, Parts
  <1>5. CASE Go(j, "shell") /\ UNCHANGED fs
    <2>1. Becomes(j, [job[j] EXCEPT !.at = "shell"])
      BY <1>5, GoBecomes DEF Step
    <2>2. KeepsTo(j)
      BY <1>5, <2>1, <1>1, <1>2 DEF KeepsTo, WrittenBy, At, OldOrNew, DataOf
    <2>3. Control(j)' /\ Buffered(j)' /\ EmptyBuffer(j)'
      BY <1>5, <2>1, <1>1, <1>2 DEF JobIsSound, Control, Buffered, EmptyBuffer, At, OldOrNew, DataOf
    <2>4. Alias(j) => AliasSound(j)'
      BY <1>5, <2>1, <1>1, <1>2 DEF JobIsSound, AliasSound, Control, DataOf, At, OldOrNew
    <2>5. ~ Alias(j) => SourceSound(j)'
      BY <1>5, <2>1, <1>1, <1>2
      DEF JobIsSound, SourceSound, Control, CopySound, DataOf, Looked, CopyIn, SizeIs, At, OldOrNew
    <2>6. ~ Alias(j) => CopySound(j)'
      BY <1>5, <2>1, <1>1, <1>2
      DEF JobIsSound, CopySound, Control, DataOf, CopyIn, SizeIs, OldOrNew, OldInPlace, Target, Owned, At
    <2>7. LeftSound(j) => TempSound(j)'
      BY <1>5, <2>1, <1>1, <1>2
      DEF LeftSound, TempSound, JobIsSound, AliasSound, Control, CopyIn, SizeIs, At, OldOrNew, DataOf
    <2>8. LeftSound(j) /\ ~ Alias(j) => RewriteSound(j)'
      BY <1>5, <2>1, <1>1, <1>2
      DEF LeftSound, RewriteSound, JobIsSound, Control, CopySound, CopyIn, SizeIs, At, OldOrNew, DataOf
    <2>9. LeftSound(j) /\ ~ Alias(j) => DestSound(j)'
      BY <1>5, <2>1, <1>1, <1>2
      DEF LeftSound, DestSound, Whole, OldInPlace, JobIsSound, Control, CopySound, CopyIn, SizeIs, At, OldOrNew,
          DataOf
    <2> QED
      BY <2>2, <2>3, <2>4, <2>5, <2>6, <2>7, <2>8, <2>9, Parts
  <1> QED
    BY <1>3, <1>4, <1>5 DEF ServerRename

(* Without a command the file is streamed.                                 *)
LEMMA NoShellStep ==
    ASSUME NEW j \in Jobs, Ready(j), NoShell(j), UNCHANGED cancelled
    PROVE  Kept(j)
  <1> USE DEF Ready, PlanSound, Src, Dst, Tmp, Alias, Safe, Plan, May, Becomes, TypeOK, JobState, Exists
  <1>1. ~ Alias(j) /\ At(j, "shell") /\ Go(j, "destStat") /\ UNCHANGED <<fs, plan>>
    BY DEF NoShell, At, JobIsSound, AliasSound
  <1>2. Becomes(j, [job[j] EXCEPT !.at = "destStat"])
    BY <1>1, GoBecomes DEF Step
  <1>3. KeepsTo(j)
    BY <1>1, <1>2 DEF KeepsTo, WrittenBy, At, OldOrNew, DataOf
  <1>4. Control(j)' /\ Buffered(j)' /\ EmptyBuffer(j)'
    BY <1>1, <1>2 DEF JobIsSound, Control, Buffered, EmptyBuffer, At, OldOrNew, DataOf
  <1>5. Alias(j) => AliasSound(j)'
    BY <1>1, <1>2 DEF JobIsSound, AliasSound, Control, DataOf, At, OldOrNew
  <1>6. ~ Alias(j) => SourceSound(j)'
    BY <1>1, <1>2 DEF JobIsSound, SourceSound, Control, CopySound, DataOf, Looked, CopyIn, SizeIs, At, OldOrNew
  <1>7. ~ Alias(j) => CopySound(j)'
    BY <1>1, <1>2
    DEF JobIsSound, CopySound, Control, DataOf, CopyIn, SizeIs, OldOrNew, OldInPlace, Target, Owned, At
  <1>8. LeftSound(j) => TempSound(j)'
    BY <1>1, <1>2 DEF LeftSound, TempSound, JobIsSound, AliasSound, Control, CopyIn, SizeIs, At, OldOrNew, DataOf
  <1>9. LeftSound(j) /\ ~ Alias(j) => RewriteSound(j)'
    BY <1>1, <1>2 DEF LeftSound, RewriteSound, JobIsSound, Control, CopySound, CopyIn, SizeIs, At, OldOrNew, DataOf
  <1>10. LeftSound(j) /\ ~ Alias(j) => DestSound(j)'
    BY <1>1, <1>2
    DEF LeftSound, DestSound, Whole, OldInPlace, JobIsSound, Control, CopySound, CopyIn, SizeIs, At, OldOrNew,
        DataOf
  <1> QED
    BY <1>3, <1>4, <1>5, <1>6, <1>7, <1>8, <1>9, <1>10, Parts

(* What mv and cp do to the files.                                         *)
LEMMA CommandFiles ==
    ASSUME NEW j \in Jobs, Ready(j), ~ Alias(j), CommandEffect(j)
    PROVE  /\ fs' \in [File -> Seq(File) \cup {Absent}]
           /\ \A g \in File \ {Src(j), Dst(j)} : fs'[g] = fs[g]
           /\ Exists(Src(j)) => fs'[Dst(j)] = fs[Src(j)]
           /\ Exists(Src(j)) => fs'[Src(j)] = (IF plan[j].isMove THEN Absent ELSE fs[Src(j)])
           /\ ~ Exists(Src(j)) => fs' = fs
  <1> USE DEF Ready, PlanSound, Src, Dst, Tmp, Alias, Safe, Plan, May, Becomes, TypeOK, JobState, Exists
  <1>1. CASE ~ Exists(Src(j))
    BY <1>1 DEF CommandEffect, TypeOK
  <1>2. CASE Exists(Src(j)) /\ plan[j].isMove
    BY <1>2, ReplaceFiles DEF CommandEffect
  <1>3. CASE Exists(Src(j)) /\ ~ plan[j].isMove
    BY <1>3, SetFiles DEF CommandEffect, TypeOK
  <1> QED
    BY <1>1, <1>2, <1>3

(* A command on the server runs, does nothing, fails or gets no answer.     *)
LEMMA CommandStep ==
    ASSUME NEW j \in Jobs, Ready(j), ServerCommand(j), UNCHANGED cancelled
    PROVE  Kept(j)
  <1> USE DEF Ready, PlanSound, Src, Dst, Tmp, Alias, Safe, Plan, May, Becomes, TypeOK, JobState, Exists
  <1>1. ~ Alias(j) /\ At(j, "shell") /\ plan' = plan
    BY DEF ServerCommand, At, JobIsSound, AliasSound
  <1>2. Exists(Src(j)) => CopyIn(j, Src(j))
    BY <1>1, SourceIsCopy DEF Looked, At
  <1>3. CASE CommandEffect(j) /\ Go(j, "shellCheck")
    <2>1. Becomes(j, [job[j] EXCEPT !.at = "shellCheck"])
      BY <1>3, GoBecomes DEF Step
    <2>2. /\ fs' \in [File -> Seq(File) \cup {Absent}]
          /\ \A g \in File \ {Src(j), Dst(j)} : fs'[g] = fs[g]
          /\ Exists(Src(j)) => fs'[Dst(j)] = fs[Src(j)]
          /\ Exists(Src(j)) => fs'[Src(j)] = (IF plan[j].isMove THEN Absent ELSE fs[Src(j)])
          /\ ~ Exists(Src(j)) => fs' = fs
      BY <1>3, <1>1, CommandFiles
    <2>3. Exists(Src(j)) => CopyIn(j, Dst(j))'
      BY <1>3, <2>1, <2>2, <1>1, <1>2 DEF Becomes, CopyIn, SizeIs, Exists
    <2>4. KeepsTo(j)
      BY <1>3, <2>1, <2>2, <2>3, <1>1, <1>2 DEF KeepsTo, WrittenBy, At, OldOrNew, DataOf, SourceSound
    <2>5. Control(j)' /\ Buffered(j)' /\ EmptyBuffer(j)'
      BY <1>3, <2>1, <2>2, <2>3, <1>1, <1>2
      DEF JobIsSound, Control, Buffered, EmptyBuffer, At, OldOrNew, DataOf, SourceSound
    <2>6. Alias(j) => AliasSound(j)'
      BY <1>3, <2>1, <2>2, <2>3, <1>1, <1>2 DEF JobIsSound, AliasSound, Control, DataOf, At, OldOrNew, SourceSound
    <2>7. ~ Alias(j) => SourceSound(j)'
      BY <1>3, <2>1, <2>2, <2>3, <1>1, <1>2
      DEF JobIsSound, SourceSound, Control, CopySound, DataOf, Looked, CopyIn, SizeIs, At, OldOrNew
    <2>8. ~ Alias(j) => CopySound(j)'
      BY <1>3, <2>1, <2>2, <2>3, <1>1, <1>2
      DEF JobIsSound, CopySound, Control, DataOf, CopyIn, SizeIs, OldOrNew, OldInPlace, Target, Owned, At,
          SourceSound
    <2>9. LeftSound(j) => TempSound(j)'
      BY <1>3, <2>1, <2>2, <2>3, <1>1, <1>2
      DEF LeftSound, TempSound, JobIsSound, AliasSound, Control, CopyIn, SizeIs, At, OldOrNew, DataOf, SourceSound
    <2>10. LeftSound(j) /\ ~ Alias(j) => RewriteSound(j)'
      BY <1>3, <2>1, <2>2, <2>3, <1>1, <1>2
      DEF LeftSound, RewriteSound, JobIsSound, Control, CopySound, CopyIn, SizeIs, At, OldOrNew, DataOf, SourceSound
    <2>11. LeftSound(j) /\ ~ Alias(j) => DestSound(j)'
      BY <1>3, <2>1, <2>2, <2>3, <1>1, <1>2
      DEF LeftSound, DestSound, Whole, OldInPlace, JobIsSound, Control, CopySound, CopyIn, SizeIs, At, OldOrNew,
          DataOf, SourceSound
    <2> QED
      BY <2>4, <2>5, <2>6, <2>7, <2>8, <2>9, <2>10, <2>11, Parts
  <1>4. CASE May(j, "silentShell") /\ Go(j, "shellCheck") /\ UNCHANGED fs
    <2>1. Becomes(j, [job[j] EXCEPT !.at = "shellCheck"])
      BY <1>4, GoBecomes DEF Step
    <2>2. KeepsTo(j)
      BY <1>4, <2>1, <1>1 DEF KeepsTo, WrittenBy, At, OldOrNew, DataOf
    <2>3. Control(j)' /\ Buffered(j)' /\ EmptyBuffer(j)'
      BY <1>4, <2>1, <1>1 DEF JobIsSound, Control, Buffered, EmptyBuffer, At, OldOrNew, DataOf
    <2>4. Alias(j) => AliasSound(j)'
      BY <1>4, <2>1, <1>1 DEF JobIsSound, AliasSound, Control, DataOf, At, OldOrNew
    <2>5. ~ Alias(j) => SourceSound(j)'
      BY <1>4, <2>1, <1>1
      DEF JobIsSound, SourceSound, Control, CopySound, DataOf, Looked, CopyIn, SizeIs, At, OldOrNew
    <2>6. ~ Alias(j) => CopySound(j)'
      BY <1>4, <2>1, <1>1
      DEF JobIsSound, CopySound, Control, DataOf, CopyIn, SizeIs, OldOrNew, OldInPlace, Target, Owned, At
    <2>7. LeftSound(j) => TempSound(j)'
      BY <1>4, <2>1, <1>1
      DEF LeftSound, TempSound, JobIsSound, AliasSound, Control, CopyIn, SizeIs, At, OldOrNew, DataOf
    <2>8. LeftSound(j) /\ ~ Alias(j) => RewriteSound(j)'
      BY <1>4, <2>1, <1>1
      DEF LeftSound, RewriteSound, JobIsSound, Control, CopySound, CopyIn, SizeIs, At, OldOrNew, DataOf
    <2>9. LeftSound(j) /\ ~ Alias(j) => DestSound(j)'
      BY <1>4, <2>1, <1>1
      DEF LeftSound, DestSound, Whole, OldInPlace, JobIsSound, Control, CopySound, CopyIn, SizeIs, At, OldOrNew,
          DataOf
    <2> QED
      BY <2>2, <2>3, <2>4, <2>5, <2>6, <2>7, <2>8, <2>9, Parts
  <1>5. CASE Stop(j, "Failed") /\ UNCHANGED fs
    BY <1>5, <1>1, StopStep DEF At, JobIsSound, Control
  <1>6. CASE (~ Exists(Src(j)) \/ May(j, "shell")) /\ ~ plan[j].isMove /\ Go(j, "destStat") /\ UNCHANGED fs
    <2>1. Becomes(j, [job[j] EXCEPT !.at = "destStat"])
      BY <1>6, GoBecomes DEF Step
    <2>2. KeepsTo(j)
      BY <1>6, <2>1, <1>1 DEF KeepsTo, WrittenBy, At, OldOrNew, DataOf
    <2>3. Control(j)' /\ Buffered(j)' /\ EmptyBuffer(j)'
      BY <1>6, <2>1, <1>1 DEF JobIsSound, Control, Buffered, EmptyBuffer, At, OldOrNew, DataOf
    <2>4. Alias(j) => AliasSound(j)'
      BY <1>6, <2>1, <1>1 DEF JobIsSound, AliasSound, Control, DataOf, At, OldOrNew
    <2>5. ~ Alias(j) => SourceSound(j)'
      BY <1>6, <2>1, <1>1
      DEF JobIsSound, SourceSound, Control, CopySound, DataOf, Looked, CopyIn, SizeIs, At, OldOrNew
    <2>6. ~ Alias(j) => CopySound(j)'
      BY <1>6, <2>1, <1>1
      DEF JobIsSound, CopySound, Control, DataOf, CopyIn, SizeIs, OldOrNew, OldInPlace, Target, Owned, At
    <2>7. LeftSound(j) => TempSound(j)'
      BY <1>6, <2>1, <1>1
      DEF LeftSound, TempSound, JobIsSound, AliasSound, Control, CopyIn, SizeIs, At, OldOrNew, DataOf
    <2>8. LeftSound(j) /\ ~ Alias(j) => RewriteSound(j)'
      BY <1>6, <2>1, <1>1
      DEF LeftSound, RewriteSound, JobIsSound, Control, CopySound, CopyIn, SizeIs, At, OldOrNew, DataOf
    <2>9. LeftSound(j) /\ ~ Alias(j) => DestSound(j)'
      BY <1>6, <2>1, <1>1
      DEF LeftSound, DestSound, Whole, OldInPlace, JobIsSound, Control, CopySound, CopyIn, SizeIs, At, OldOrNew,
          DataOf
    <2> QED
      BY <2>2, <2>3, <2>4, <2>5, <2>6, <2>7, <2>8, <2>9, Parts
  <1>7. CASE job' = [job EXCEPT ![j].at = "end", ![j].result = "Failed", ![j].remote = TRUE] /\ UNCHANGED fs
    <2>1. Becomes(j, [job[j] EXCEPT !.at = "end", !.result = "Failed", !.remote = TRUE])
      BY <1>7, NoAnswer
    <2>2. KeepsTo(j)
      BY <1>7, <2>1, <1>1 DEF KeepsTo, WrittenBy, At, OldOrNew, DataOf
    <2>3. Control(j)' /\ Buffered(j)' /\ EmptyBuffer(j)'
      BY <1>7, <2>1, <1>1 DEF JobIsSound, Control, Buffered, EmptyBuffer, At, OldOrNew, DataOf
    <2>4. Alias(j) => AliasSound(j)'
      BY <1>7, <2>1, <1>1 DEF JobIsSound, AliasSound, Control, DataOf, At, OldOrNew
    <2>5. ~ Alias(j) => SourceSound(j)'
      BY <1>7, <2>1, <1>1
      DEF JobIsSound, SourceSound, Control, CopySound, DataOf, Looked, CopyIn, SizeIs, At, OldOrNew
    <2>6. ~ Alias(j) => CopySound(j)'
      BY <1>7, <2>1, <1>1
      DEF JobIsSound, CopySound, Control, DataOf, CopyIn, SizeIs, OldOrNew, OldInPlace, Target, Owned, At
    <2>7. LeftSound(j) => TempSound(j)'
      BY <1>7, <2>1, <1>1
      DEF LeftSound, TempSound, JobIsSound, AliasSound, Control, CopyIn, SizeIs, At, OldOrNew, DataOf
    <2>8. LeftSound(j) /\ ~ Alias(j) => RewriteSound(j)'
      BY <1>7, <2>1, <1>1
      DEF LeftSound, RewriteSound, JobIsSound, Control, CopySound, CopyIn, SizeIs, At, OldOrNew, DataOf
    <2>9. LeftSound(j) /\ ~ Alias(j) => DestSound(j)'
      BY <1>7, <2>1, <1>1
      DEF LeftSound, DestSound, Whole, OldInPlace, JobIsSound, Control, CopySound, CopyIn, SizeIs, At, OldOrNew,
          DataOf
    <2> QED
      BY <2>2, <2>3, <2>4, <2>5, <2>6, <2>7, <2>8, <2>9, Parts
  <1> QED
    BY <1>3, <1>4, <1>5, <1>6, <1>7 DEF ServerCommand

(* Exit code 0 alone is not proof.                                         *)
LEMMA ShellCheckStep ==
    ASSUME NEW j \in Jobs, Ready(j), ShellCheck(j), UNCHANGED cancelled
    PROVE  Kept(j)
  <1> USE DEF Ready, PlanSound, Src, Dst, Tmp, Alias, Safe, Plan, May, Becomes, TypeOK, JobState, Exists
  <1>1. ~ Alias(j) /\ At(j, "shellCheck") /\ UNCHANGED <<fs, plan>>
    BY DEF ShellCheck, At, JobIsSound, AliasSound
  <1>2. CASE SizeIs(Dst(j), job[j].size) /\ (plan[j].isMove => ~ Exists(Src(j))) /\ Stop(j, "Completed")
    <2>1. Becomes(j, [job[j] EXCEPT !.at = "end", !.result = "Completed"])
      BY <1>2, StopBecomes DEF Result
    <2>2. KeepsTo(j)
      BY <1>2, <2>1, <1>1 DEF KeepsTo, WrittenBy, At, DataOf, OldInPlace
    <2>3. Control(j)' /\ Buffered(j)' /\ EmptyBuffer(j)'
      BY <1>2, <2>1, <1>1 DEF JobIsSound, Control, Buffered, EmptyBuffer, At, DataOf, OldInPlace
    <2>4. Alias(j) => AliasSound(j)'
      BY <1>2, <2>1, <1>1 DEF JobIsSound, AliasSound, Control, DataOf, At, OldInPlace
    <2>5. ~ Alias(j) => SourceSound(j)'
      BY <1>2, <2>1, <1>1
      DEF JobIsSound, SourceSound, Control, CopySound, DataOf, Looked, CopyIn, SizeIs, At, OldInPlace
    <2>6. ~ Alias(j) => CopySound(j)'
      BY <1>2, <2>1, <1>1
      DEF JobIsSound, CopySound, Control, DataOf, CopyIn, SizeIs, OldOrNew, OldInPlace, Target, Owned, At
    <2>7. LeftSound(j) => TempSound(j)'
      BY <1>2, <2>1, <1>1
      DEF LeftSound, TempSound, JobIsSound, AliasSound, Control, CopyIn, SizeIs, At, DataOf, OldInPlace
    <2>8. LeftSound(j) /\ ~ Alias(j) => RewriteSound(j)'
      BY <1>2, <2>1, <1>1
      DEF LeftSound, RewriteSound, JobIsSound, Control, CopySound, CopyIn, SizeIs, At, DataOf, OldInPlace
    <2>9. LeftSound(j) /\ ~ Alias(j) => DestSound(j)'
      BY <1>2, <2>1, <1>1
      DEF LeftSound, DestSound, Whole, OldInPlace, JobIsSound, Control, CopySound, CopyIn, SizeIs, At, DataOf
    <2> QED
      BY <2>2, <2>3, <2>4, <2>5, <2>6, <2>7, <2>8, <2>9, Parts
  <1>3. CASE (~ (SizeIs(Dst(j), job[j].size) /\ (plan[j].isMove => ~ Exists(Src(j)))) \/ May(j, "stat")
              \/ May(j, "exists")) /\ Go(j, "destStat")
    <2>1. Becomes(j, [job[j] EXCEPT !.at = "destStat"])
      BY <1>3, GoBecomes DEF Step
    <2>2. KeepsTo(j)
      BY <1>3, <2>1, <1>1 DEF KeepsTo, WrittenBy, At, DataOf
    <2>3. Control(j)' /\ Buffered(j)' /\ EmptyBuffer(j)'
      BY <1>3, <2>1, <1>1 DEF JobIsSound, Control, Buffered, EmptyBuffer, At, DataOf
    <2>4. Alias(j) => AliasSound(j)'
      BY <1>3, <2>1, <1>1 DEF JobIsSound, AliasSound, Control, DataOf, At
    <2>5. ~ Alias(j) => SourceSound(j)'
      BY <1>3, <2>1, <1>1 DEF JobIsSound, SourceSound, Control, CopySound, DataOf, Looked, CopyIn, SizeIs, At
    <2>6. ~ Alias(j) => CopySound(j)'
      BY <1>3, <2>1, <1>1
      DEF JobIsSound, CopySound, Control, DataOf, CopyIn, SizeIs, OldOrNew, OldInPlace, Target, Owned, At
    <2>7. LeftSound(j) => TempSound(j)'
      BY <1>3, <2>1, <1>1 DEF LeftSound, TempSound, JobIsSound, AliasSound, Control, CopyIn, SizeIs, At, DataOf
    <2>8. LeftSound(j) /\ ~ Alias(j) => RewriteSound(j)'
      BY <1>3, <2>1, <1>1 DEF LeftSound, RewriteSound, JobIsSound, Control, CopySound, CopyIn, SizeIs, At, DataOf
    <2>9. LeftSound(j) /\ ~ Alias(j) => DestSound(j)'
      BY <1>3, <2>1, <1>1
      DEF LeftSound, DestSound, Whole, OldInPlace, JobIsSound, Control, CopySound, CopyIn, SizeIs, At, DataOf
    <2> QED
      BY <2>2, <2>3, <2>4, <2>5, <2>6, <2>7, <2>8, <2>9, Parts
  <1> QED
    BY <1>2, <1>3 DEF ShellCheck

(* A command whose answer was lost does its work after the end.            *)
LEMMA RunsOnStep ==
    ASSUME NEW j \in Jobs, Ready(j), CommandRunsOn(j), UNCHANGED cancelled
    PROVE  Kept(j)
  <1>0. ~ Alias(j) /\ Exists(Src(j)) => CopyIn(j, Src(j))
    BY SourceIsCopy DEF CommandRunsOn, Looked
  <1> USE DEF Ready, PlanSound, Src, Dst, Tmp, Alias, Safe, Plan, May, Becomes, TypeOK, JobState, Exists
  <1>1. ~ Alias(j) /\ job[j].remote /\ plan' = plan /\ CommandEffect(j)
    BY DEF CommandRunsOn, JobIsSound, AliasSound
  <1>2. Becomes(j, [job[j] EXCEPT !.remote = FALSE])
    BY DEF CommandRunsOn
  <1>3. /\ fs' \in [File -> Seq(File) \cup {Absent}]
        /\ \A g \in File \ {Src(j), Dst(j)} : fs'[g] = fs[g]
        /\ Exists(Src(j)) => fs'[Dst(j)] = fs[Src(j)]
        /\ Exists(Src(j)) => fs'[Src(j)] = (IF plan[j].isMove THEN Absent ELSE fs[Src(j)])
        /\ ~ Exists(Src(j)) => fs' = fs
    BY <1>1, CommandFiles
  <1>4. Exists(Src(j)) => CopyIn(j, Dst(j))'
    BY <1>0, <1>1, <1>2, <1>3 DEF CopyIn, SizeIs
  <1>5. KeepsTo(j)
    BY <1>1, <1>2, <1>3, <1>4 DEF KeepsTo, WrittenBy, OldInPlace, DataOf
  <1>6. Control(j)' /\ Buffered(j)' /\ EmptyBuffer(j)'
    BY <1>1, <1>2, <1>3, <1>4 DEF JobIsSound, Control, Buffered, EmptyBuffer, OldInPlace, DataOf
  <1>7. Alias(j) => AliasSound(j)'
    BY <1>1, <1>2, <1>3, <1>4 DEF JobIsSound, AliasSound, Control, DataOf, OldInPlace
  <1>8. ~ Alias(j) => SourceSound(j)'
    BY <1>1, <1>2, <1>3, <1>4
    DEF JobIsSound, SourceSound, Control, CopySound, DataOf, Looked, CopyIn, SizeIs, OldInPlace
  <1>9. ~ Alias(j) => CopySound(j)'
    BY <1>1, <1>2, <1>3, <1>4
    DEF JobIsSound, CopySound, Control, DataOf, CopyIn, SizeIs, OldOrNew, OldInPlace, Target, Owned
  <1>10. LeftSound(j) => TempSound(j)'
    BY <1>1, <1>2, <1>3, <1>4
    DEF LeftSound, TempSound, JobIsSound, AliasSound, Control, CopyIn, SizeIs, OldInPlace, DataOf
  <1>11. LeftSound(j) /\ ~ Alias(j) => RewriteSound(j)'
    BY <1>1, <1>2, <1>3, <1>4
    DEF LeftSound, RewriteSound, JobIsSound, Control, CopySound, CopyIn, SizeIs, OldInPlace, DataOf
  <1>12. LeftSound(j) /\ ~ Alias(j) => DestSound(j)'
    BY <1>1, <1>2, <1>3, <1>4
    DEF LeftSound, DestSound, Whole, OldInPlace, JobIsSound, Control, CopySound, CopyIn, SizeIs, DataOf
  <1> QED
    BY <1>5, <1>6, <1>7, <1>8, <1>9, <1>10, <1>11, <1>12, Parts

(* How the bytes will reach the destination.                               *)
LEMMA ChooseStep ==
    ASSUME NEW j \in Jobs, Ready(j), CopyWhole(j) \/ DestMissing(j) \/ CreateTemp(j), UNCHANGED cancelled
    PROVE  Kept(j)
  <1>0. CopyWhole(j) =>
          Becomes(j, [job[j] EXCEPT !.at = IF plan[j].isMove THEN "wholeProbe" ELSE "loop",
                                    !.stage = "whole", !.off = 0])
    <2>1. (IF plan[j].isMove THEN "wholeProbe" ELSE "loop") \in Step
      BY DEF Step
    <2> QED
      BY <2>1, BeginBecomes DEF CopyWhole, Stage, Ready
  <1> USE DEF Ready, PlanSound, Src, Dst, Tmp, Alias, Safe, Plan, May, Becomes, TypeOK, JobState, Exists
  <1>1. At(j, "destStat") /\ plan' = plan /\ (plan[j].positional \/ CopyWhole(j))
    BY DEF CopyWhole, DestMissing, CreateTemp
  <1>2. CASE CopyWhole(j)
    <2>1. Becomes(j, [job[j] EXCEPT !.at = IF plan[j].isMove THEN "wholeProbe" ELSE "loop",
                                    !.stage = "whole", !.off = 0])
      BY <1>0, <1>2
    <2>3. KeepsTo(j)
      BY <1>2, <1>1, <2>1 DEF KeepsTo, WrittenBy, At, CopyWhole
    <2>4. Control(j)' /\ Buffered(j)' /\ EmptyBuffer(j)'
      BY <1>2, <1>1, <2>1 DEF JobIsSound, Control, Buffered, EmptyBuffer, At, CopyWhole
    <2>5. Alias(j) => AliasSound(j)'
      BY <1>2, <1>1, <2>1 DEF JobIsSound, AliasSound, Control, DataOf, At, CopyWhole
    <2>6. ~ Alias(j) => SourceSound(j)'
      BY <1>2, <1>1, <2>1
      DEF JobIsSound, SourceSound, Control, CopySound, DataOf, Looked, CopyIn, SizeIs, At, CopyWhole
    <2>7. ~ Alias(j) => CopySound(j)'
      BY <1>2, <1>1, <2>1
      DEF JobIsSound, CopySound, Control, DataOf, CopyIn, SizeIs, OldOrNew, OldInPlace, Target, Owned, At, CopyWhole
    <2>8. LeftSound(j) => TempSound(j)'
      BY <1>2, <1>1, <2>1 DEF LeftSound, TempSound, JobIsSound, AliasSound, Control, CopyIn, SizeIs, At, CopyWhole
    <2>9. LeftSound(j) /\ ~ Alias(j) => RewriteSound(j)'
      BY <1>2, <1>1, <2>1 DEF LeftSound, RewriteSound, JobIsSound, Control, CopySound, CopyIn, SizeIs, At, CopyWhole
    <2>10. LeftSound(j) /\ ~ Alias(j) => DestSound(j)'
      BY <1>2, <1>1, <2>1
      DEF LeftSound, DestSound, Whole, OldInPlace, JobIsSound, Control, CopySound, CopyIn, SizeIs, At, CopyWhole
    <2> QED
      BY <2>3, <2>4, <2>5, <2>6, <2>7, <2>8, <2>9, <2>10, Parts
  <1>3. CASE DestMissing(j)
    <2>1. Becomes(j, [job[j] EXCEPT !.at = "loop", !.stage = "direct", !.off = 0])
      BY <1>3, BeginBecomes DEF DestMissing, Step, Stage
    <2>2. KeepsTo(j)
      BY <1>3, <2>1, <1>1 DEF KeepsTo, WrittenBy, At, DestMissing
    <2>3. Control(j)' /\ Buffered(j)' /\ EmptyBuffer(j)'
      BY <1>3, <2>1, <1>1 DEF JobIsSound, Control, Buffered, EmptyBuffer, At, DestMissing
    <2>4. Alias(j) => AliasSound(j)'
      BY <1>3, <2>1, <1>1 DEF JobIsSound, AliasSound, Control, DataOf, At, DestMissing
    <2>5. ~ Alias(j) => SourceSound(j)'
      BY <1>3, <2>1, <1>1
      DEF JobIsSound, SourceSound, Control, CopySound, DataOf, Looked, CopyIn, SizeIs, At, DestMissing
    <2>6. ~ Alias(j) => CopySound(j)'
      BY <1>3, <2>1, <1>1
      DEF JobIsSound, CopySound, Control, DataOf, CopyIn, SizeIs, OldOrNew, OldInPlace, Target, Owned, At,
          DestMissing
    <2>7. LeftSound(j) => TempSound(j)'
      BY <1>3, <2>1, <1>1 DEF LeftSound, TempSound, JobIsSound, AliasSound, Control, CopyIn, SizeIs, At, DestMissing
    <2>8. LeftSound(j) /\ ~ Alias(j) => RewriteSound(j)'
      BY <1>3, <2>1, <1>1
      DEF LeftSound, RewriteSound, JobIsSound, Control, CopySound, CopyIn, SizeIs, At, DestMissing
    <2>9. LeftSound(j) /\ ~ Alias(j) => DestSound(j)'
      BY <1>3, <2>1, <1>1
      DEF LeftSound, DestSound, Whole, OldInPlace, JobIsSound, Control, CopySound, CopyIn, SizeIs, At, DestMissing
    <2> QED
      BY <2>2, <2>3, <2>4, <2>5, <2>6, <2>7, <2>8, <2>9, Parts
  <1>4. CASE plan[j].positional /\ Exists(Dst(j)) /\ Set(Tmp(j), <<>>) /\ Begin(j, "probe", "temp")
    <2>1. Becomes(j, [job[j] EXCEPT !.at = "probe", !.stage = "temp", !.off = 0])
      BY <1>4, BeginBecomes DEF Step, Stage
    <2>2. /\ fs' \in [File -> Seq(File) \cup {Absent}]
          /\ fs'[Tmp(j)] = <<>> /\ \A g \in File \ {Tmp(j)} : fs'[g] = fs[g]
      BY <1>4, <1>1, SetFiles, EmptyFile
    <2>3. KeepsTo(j)
      BY <1>4, <2>1, <2>2, <1>1 DEF KeepsTo, WrittenBy, At, DataOf
    <2>4. Control(j)' /\ Buffered(j)' /\ EmptyBuffer(j)'
      BY <1>4, <2>1, <2>2, <1>1 DEF JobIsSound, Control, Buffered, EmptyBuffer, At, DataOf
    <2>5. Alias(j) => AliasSound(j)'
      BY <1>4, <2>1, <2>2, <1>1 DEF JobIsSound, AliasSound, Control, DataOf, At
    <2>6. ~ Alias(j) => SourceSound(j)'
      BY <1>4, <2>1, <2>2, <1>1 DEF JobIsSound, SourceSound, Control, CopySound, DataOf, Looked, CopyIn, SizeIs, At
    <2>7. ~ Alias(j) => CopySound(j)'
      BY <1>4, <2>1, <2>2, <1>1
      DEF JobIsSound, CopySound, Control, DataOf, CopyIn, SizeIs, OldOrNew, OldInPlace, Target, Owned, At
    <2>8. LeftSound(j) => TempSound(j)'
      BY <1>4, <2>1, <2>2, <1>1
      DEF LeftSound, TempSound, JobIsSound, AliasSound, Control, CopyIn, SizeIs, At, DataOf
    <2>9. LeftSound(j) /\ ~ Alias(j) => RewriteSound(j)'
      BY <1>4, <2>1, <2>2, <1>1
      DEF LeftSound, RewriteSound, JobIsSound, Control, CopySound, CopyIn, SizeIs, At, DataOf
    <2>10. LeftSound(j) /\ ~ Alias(j) => DestSound(j)'
      BY <1>4, <2>1, <2>2, <1>1
      DEF LeftSound, DestSound, Whole, OldInPlace, JobIsSound, Control, CopySound, CopyIn, SizeIs, At, DataOf
    <2> QED
      BY <2>3, <2>4, <2>5, <2>6, <2>7, <2>8, <2>9, <2>10, Parts
  <1>5. CASE plan[j].positional /\ Exists(Dst(j)) /\ May(j, "create") /\ Begin(j, "guard", "inPlace") /\ UNCHANGED fs
    <2>1. Becomes(j, [job[j] EXCEPT !.at = "guard", !.stage = "inPlace", !.off = 0])
      BY <1>5, BeginBecomes DEF Step, Stage
    <2>2. KeepsTo(j)
      BY <1>5, <2>1, <1>1 DEF KeepsTo, WrittenBy, At, DataOf
    <2>3. Control(j)' /\ Buffered(j)' /\ EmptyBuffer(j)'
      BY <1>5, <2>1, <1>1 DEF JobIsSound, Control, Buffered, EmptyBuffer, At, DataOf
    <2>4. Alias(j) => AliasSound(j)'
      BY <1>5, <2>1, <1>1 DEF JobIsSound, AliasSound, Control, DataOf, At
    <2>5. ~ Alias(j) => SourceSound(j)'
      BY <1>5, <2>1, <1>1 DEF JobIsSound, SourceSound, Control, CopySound, DataOf, Looked, CopyIn, SizeIs, At
    <2>6. ~ Alias(j) => CopySound(j)'
      BY <1>5, <2>1, <1>1
      DEF JobIsSound, CopySound, Control, DataOf, CopyIn, SizeIs, OldOrNew, OldInPlace, Target, Owned, At
    <2>7. LeftSound(j) => TempSound(j)'
      BY <1>5, <2>1, <1>1 DEF LeftSound, TempSound, JobIsSound, AliasSound, Control, CopyIn, SizeIs, At, DataOf
    <2>8. LeftSound(j) /\ ~ Alias(j) => RewriteSound(j)'
      BY <1>5, <2>1, <1>1 DEF LeftSound, RewriteSound, JobIsSound, Control, CopySound, CopyIn, SizeIs, At, DataOf
    <2>9. LeftSound(j) /\ ~ Alias(j) => DestSound(j)'
      BY <1>5, <2>1, <1>1
      DEF LeftSound, DestSound, Whole, OldInPlace, JobIsSound, Control, CopySound, CopyIn, SizeIs, At, DataOf
    <2> QED
      BY <2>2, <2>3, <2>4, <2>5, <2>6, <2>7, <2>8, <2>9, Parts
  <1>6. CASE Stop(j, "Failed") /\ UNCHANGED fs
    BY <1>6, <1>1, StopStep DEF At, JobIsSound, Control
  <1> QED
    BY <1>2, <1>3, <1>4, <1>5, <1>6 DEF CreateTemp

(* The guard of a file overwritten in place, and the look for the probe.     *)
LEMMA GuardStep ==
    ASSUME NEW j \in Jobs, Ready(j), GuardInPlace(j) \/ Probe(j), UNCHANGED cancelled
    PROVE  Kept(j)
  <1> USE DEF Ready, PlanSound, Src, Dst, Tmp, Alias, Safe, Plan, May, Becomes, TypeOK, JobState, Exists
  <1>1. CASE GuardInPlace(j) /\ Stop(j, "Failed")
    BY <1>1, StopStep DEF GuardInPlace, At, JobIsSound, Control
  <1>2. CASE At(j, "guard") /\ ~ Alias(j) /\ Go(j, "loop") /\ UNCHANGED <<fs, plan>>
    <2>1. Becomes(j, [job[j] EXCEPT !.at = "loop"])
      BY <1>2, GoBecomes DEF Step
    <2>2. KeepsTo(j)
      BY <1>2, <2>1 DEF KeepsTo, WrittenBy, At
    <2>3. Control(j)' /\ Buffered(j)' /\ EmptyBuffer(j)'
      BY <1>2, <2>1 DEF JobIsSound, Control, Buffered, EmptyBuffer, At
    <2>4. Alias(j) => AliasSound(j)'
      BY <1>2, <2>1 DEF JobIsSound, AliasSound, Control, DataOf, At
    <2>5. ~ Alias(j) => SourceSound(j)'
      BY <1>2, <2>1 DEF JobIsSound, SourceSound, Control, CopySound, DataOf, Looked, CopyIn, SizeIs, At
    <2>6. ~ Alias(j) => CopySound(j)'
      BY <1>2, <2>1
      DEF JobIsSound, CopySound, Control, DataOf, CopyIn, SizeIs, OldOrNew, OldInPlace, Target, Owned, At
    <2>7. LeftSound(j) => TempSound(j)'
      BY <1>2, <2>1 DEF LeftSound, TempSound, JobIsSound, AliasSound, Control, CopyIn, SizeIs, At
    <2>8. LeftSound(j) /\ ~ Alias(j) => RewriteSound(j)'
      BY <1>2, <2>1 DEF LeftSound, RewriteSound, JobIsSound, Control, CopySound, CopyIn, SizeIs, At
    <2>9. LeftSound(j) /\ ~ Alias(j) => DestSound(j)'
      BY <1>2, <2>1 DEF LeftSound, DestSound, Whole, OldInPlace, JobIsSound, Control, CopySound, CopyIn, SizeIs, At
    <2> QED
      BY <2>2, <2>3, <2>4, <2>5, <2>6, <2>7, <2>8, <2>9, Parts
  <1>3. CASE Probe(j) /\ StopAndDiscard(j, "Failed")
    BY <1>3, DiscardingStep DEF Probe, At
  <1>4. CASE At(j, "probe") /\ ~ Alias(j) /\ Go(j, "loop") /\ UNCHANGED <<fs, plan>>
    <2>1. Becomes(j, [job[j] EXCEPT !.at = "loop"])
      BY <1>4, GoBecomes DEF Step
    <2>2. KeepsTo(j)
      BY <1>4, <2>1 DEF KeepsTo, WrittenBy, At, DataOf
    <2>3. Control(j)' /\ Buffered(j)' /\ EmptyBuffer(j)'
      BY <1>4, <2>1 DEF JobIsSound, Control, Buffered, EmptyBuffer, At, DataOf
    <2>4. Alias(j) => AliasSound(j)'
      BY <1>4, <2>1 DEF JobIsSound, AliasSound, Control, DataOf, At
    <2>5. ~ Alias(j) => SourceSound(j)'
      BY <1>4, <2>1 DEF JobIsSound, SourceSound, Control, CopySound, DataOf, Looked, CopyIn, SizeIs, At
    <2>6. ~ Alias(j) => CopySound(j)'
      BY <1>4, <2>1
      DEF JobIsSound, CopySound, Control, DataOf, CopyIn, SizeIs, OldOrNew, OldInPlace, Target, Owned, At
    <2>7. LeftSound(j) => TempSound(j)'
      BY <1>4, <2>1 DEF LeftSound, TempSound, JobIsSound, AliasSound, Control, CopyIn, SizeIs, At, DataOf
    <2>8. LeftSound(j) /\ ~ Alias(j) => RewriteSound(j)'
      BY <1>4, <2>1 DEF LeftSound, RewriteSound, JobIsSound, Control, CopySound, CopyIn, SizeIs, At, DataOf
    <2>9. LeftSound(j) /\ ~ Alias(j) => DestSound(j)'
      BY <1>4, <2>1
      DEF LeftSound, DestSound, Whole, OldInPlace, JobIsSound, Control, CopySound, CopyIn, SizeIs, At, DataOf
    <2> QED
      BY <2>2, <2>3, <2>4, <2>5, <2>6, <2>7, <2>8, <2>9, Parts
  <1> QED
    BY <1>1, <1>2, <1>3, <1>4 DEF GuardInPlace, Probe

(* A transfer that gives up removes what it has written, if it has.        *)
LEMMA StopOwnedStep ==
    ASSUME NEW j \in Jobs, Ready(j), NEW r \in {"Failed", "Cancelled"}, StopOwned(j, r),
           UNCHANGED <<fs, plan, cancelled>>,
           job[j].at \in {"loop", "block"}, job[j].stage # "whole"
    PROVE  Kept(j)
  <1>1. job[j].off \in Nat
    BY DEF Ready, TypeOK, JobState
  <1>2. CASE StopAndDiscard(j, r) /\ (Owned(j) \/ job[j].off > 0)
    BY <1>2, DiscardingStep DEF Owned
  <1>3. CASE Stop(j, r) /\ ~ Owned(j) /\ job[j].off = 0
    BY <1>3, StopStep DEF Owned
  <1> QED
    BY <1>1, <1>2, <1>3 DEF StopOwned

(* Before every block, and after the last one.                             *)
LEMMA LoopStep ==
    ASSUME NEW j \in Jobs, Ready(j), Loop(j), UNCHANGED cancelled
    PROVE  Kept(j)
  <1> USE DEF Ready, PlanSound, Src, Dst, Tmp, Alias, Safe, Plan, May, Becomes, TypeOK, JobState, Exists
  <1>1. At(j, "loop") /\ job[j].stage # "whole" /\ plan' = plan /\ Target(j) \in File
    BY DEF Loop, Target
  <1>2. CASE StopOwned(j, "Cancelled") /\ UNCHANGED fs
    BY <1>2, <1>1, StopOwnedStep DEF At
  <1>3. CASE StopOwned(j, "Failed") /\ UNCHANGED fs
    BY <1>3, <1>1, StopOwnedStep DEF At
  <1>4. CASE job[j].off < job[j].size /\ Go(j, "block") /\ UNCHANGED fs
    <2>1. Becomes(j, [job[j] EXCEPT !.at = "block"])
      BY <1>4, GoBecomes DEF Step
    <2>2. KeepsTo(j)
      BY <1>4, <2>1, <1>1 DEF KeepsTo, WrittenBy, At, DataOf
    <2>3. Control(j)' /\ Buffered(j)' /\ EmptyBuffer(j)'
      BY <1>4, <2>1, <1>1 DEF JobIsSound, Control, Buffered, EmptyBuffer, At, DataOf
    <2>4. Alias(j) => AliasSound(j)'
      BY <1>4, <2>1, <1>1 DEF JobIsSound, AliasSound, Control, DataOf, At
    <2>5. ~ Alias(j) => SourceSound(j)'
      BY <1>4, <2>1, <1>1 DEF JobIsSound, SourceSound, Control, CopySound, DataOf, Looked, CopyIn, SizeIs, At
    <2>6. ~ Alias(j) => CopySound(j)'
      BY <1>4, <2>1, <1>1
      DEF JobIsSound, CopySound, Control, DataOf, CopyIn, SizeIs, OldOrNew, OldInPlace, Target, Owned, At
    <2>7. LeftSound(j) => TempSound(j)'
      BY <1>4, <2>1, <1>1 DEF LeftSound, TempSound, JobIsSound, AliasSound, Control, CopyIn, SizeIs, At, DataOf
    <2>8. LeftSound(j) /\ ~ Alias(j) => RewriteSound(j)'
      BY <1>4, <2>1, <1>1 DEF LeftSound, RewriteSound, JobIsSound, Control, CopySound, CopyIn, SizeIs, At, DataOf
    <2>9. LeftSound(j) /\ ~ Alias(j) => DestSound(j)'
      BY <1>4, <2>1, <1>1
      DEF LeftSound, DestSound, Whole, OldInPlace, JobIsSound, Control, CopySound, CopyIn, SizeIs, At, DataOf
    <2> QED
      BY <2>2, <2>3, <2>4, <2>5, <2>6, <2>7, <2>8, <2>9, Parts
  <1>5. CASE job[j].off = job[j].size /\ job[j].size # 0 /\ Go(j, "finish") /\ UNCHANGED fs
    <2>1. Becomes(j, [job[j] EXCEPT !.at = "finish"])
      BY <1>5, GoBecomes DEF Step
    <2>2. KeepsTo(j)
      BY <1>5, <2>1, <1>1 DEF KeepsTo, WrittenBy, At, DataOf, Target, Owned
    <2>3. Control(j)' /\ Buffered(j)' /\ EmptyBuffer(j)'
      BY <1>5, <2>1, <1>1 DEF JobIsSound, Control, Buffered, EmptyBuffer, At, DataOf, Target, Owned
    <2>4. Alias(j) => AliasSound(j)'
      BY <1>5, <2>1, <1>1 DEF JobIsSound, AliasSound, Control, DataOf, At, Target, Owned
    <2>5. ~ Alias(j) => SourceSound(j)'
      BY <1>5, <2>1, <1>1
      DEF JobIsSound, SourceSound, Control, CopySound, DataOf, Looked, CopyIn, SizeIs, At, Target, Owned
    <2>6. ~ Alias(j) => CopySound(j)'
      BY <1>5, <2>1, <1>1
      DEF JobIsSound, CopySound, Control, DataOf, CopyIn, SizeIs, OldOrNew, OldInPlace, Target, Owned, At
    <2>7. LeftSound(j) => TempSound(j)'
      BY <1>5, <2>1, <1>1
      DEF LeftSound, TempSound, JobIsSound, AliasSound, Control, CopyIn, SizeIs, At, DataOf, Target, Owned
    <2>8. LeftSound(j) /\ ~ Alias(j) => RewriteSound(j)'
      BY <1>5, <2>1, <1>1
      DEF LeftSound, RewriteSound, JobIsSound, Control, CopySound, CopyIn, SizeIs, At, DataOf, Target, Owned
    <2>9. LeftSound(j) /\ ~ Alias(j) => DestSound(j)'
      BY <1>5, <2>1, <1>1
      DEF LeftSound, DestSound, Whole, OldInPlace, JobIsSound, Control, CopySound, CopyIn, SizeIs, At, DataOf,
          Target, Owned
    <2> QED
      BY <2>2, <2>3, <2>4, <2>5, <2>6, <2>7, <2>8, <2>9, Parts
  <1>6. CASE job[j].off = job[j].size /\ job[j].size = 0 /\ Go(j, "finish") /\ Set(Target(j), <<>>)
    <2>1. Becomes(j, [job[j] EXCEPT !.at = "finish"])
      BY <1>6, GoBecomes DEF Step
    <2>2. /\ fs' \in [File -> Seq(File) \cup {Absent}]
          /\ fs'[Target(j)] = <<>> /\ \A g \in File \ {Target(j)} : fs'[g] = fs[g]
      BY <1>6, <1>1, SetFiles, EmptyFile
    <2>3. Target(j)' = Target(j)
      BY <1>6, <2>1, <2>2, <1>1 DEF Becomes, Target, Owned
    <2>4. <<>> # Absent /\ Len(<<>>) = 0
      BY <1>6, <2>1, <2>2, <2>3, <1>1, EmptyFile
    <2>5. CopyIn(j, Target(j))'
      BY <1>6, <2>1, <2>2, <2>3, <2>4, <1>1 DEF Becomes, CopyIn, SizeIs, Exists
    <2>6. KeepsTo(j)
      BY <1>6, <2>1, <2>2, <2>3, <2>4, <2>5, <1>1 DEF KeepsTo, WrittenBy, At, DataOf, Target, Owned
    <2>7. Control(j)' /\ Buffered(j)' /\ EmptyBuffer(j)'
      BY <1>6, <2>1, <2>2, <2>3, <2>4, <2>5, <1>1
      DEF JobIsSound, Control, Buffered, EmptyBuffer, At, DataOf, Target, Owned
    <2>8. Alias(j) => AliasSound(j)'
      BY <1>6, <2>1, <2>2, <2>3, <2>4, <2>5, <1>1 DEF JobIsSound, AliasSound, Control, DataOf, At, Target, Owned
    <2>9. ~ Alias(j) => SourceSound(j)'
      BY <1>6, <2>1, <2>2, <2>3, <2>4, <2>5, <1>1
      DEF JobIsSound, SourceSound, Control, CopySound, DataOf, Looked, CopyIn, SizeIs, At, Target, Owned
    <2>10. ~ Alias(j) => CopySound(j)'
      BY <1>6, <2>1, <2>2, <2>3, <2>4, <2>5, <1>1
      DEF JobIsSound, CopySound, Control, DataOf, CopyIn, SizeIs, OldOrNew, OldInPlace, Target, Owned, At
    <2>11. LeftSound(j) => TempSound(j)'
      BY <1>6, <2>1, <2>2, <2>3, <2>4, <2>5, <1>1
      DEF LeftSound, TempSound, JobIsSound, AliasSound, Control, CopyIn, SizeIs, At, DataOf, Target, Owned
    <2>12. LeftSound(j) /\ ~ Alias(j) => RewriteSound(j)'
      BY <1>6, <2>1, <2>2, <2>3, <2>4, <2>5, <1>1
      DEF LeftSound, RewriteSound, JobIsSound, Control, CopySound, CopyIn, SizeIs, At, DataOf, Target, Owned
    <2>13. LeftSound(j) /\ ~ Alias(j) => DestSound(j)'
      BY <1>6, <2>1, <2>2, <2>3, <2>4, <2>5, <1>1
      DEF LeftSound, DestSound, Whole, OldInPlace, JobIsSound, Control, CopySound, CopyIn, SizeIs, At, DataOf,
          Target, Owned
    <2> QED
      BY <2>6, <2>7, <2>8, <2>9, <2>10, <2>11, <2>12, <2>13, Parts
  <1> QED
    BY <1>2, <1>3, <1>4, <1>5, <1>6, <1>1 DEF Loop

(* A read fails.                                                           *)
LEMMA ReadFailsStep ==
    ASSUME NEW j \in Jobs, Ready(j), ReadFails(j), UNCHANGED cancelled
    PROVE  Kept(j)
  BY StopOwnedStep DEF ReadFails, At

(* What is read is data of the source, and no more than is wanted.         *)
LEMMA BlocksRead ==
    ASSUME NEW j \in Jobs, Ready(j), ~ Alias(j), At(j, "block"), NEW blocks \in ReadBlocks(j)
    PROVE  /\ blocks \in Seq(File) /\ Len(blocks) \in Nat \ {0}
           /\ \A i \in 1..Len(blocks) : blocks[i] = Src(j)
           /\ job[j].off + Len(blocks) <= job[j].size
           /\ Exists(Src(j))
  <1> USE DEF Ready, PlanSound, Src, Dst, Tmp, Alias, Safe, Plan, May, Becomes, TypeOK, JobState, Exists
  <1> DEFINE content == fs[Src(j)]
             off     == job[j].off
  <1>1. /\ Exists(Src(j)) /\ content \in Seq(File) /\ off \in Nat /\ off < Len(content)
        /\ \A i \in 1..Len(content) : content[i] = Src(j)
        /\ Len(content) = job[j].size
    BY DEF ReadBlocks, At, JobIsSound, SourceSound, Looked, DataOf, Exists, TypeOK, JobState
  <1>2. CASE blocks = <<content[off + 1]>>
    <2>1. off + 1 \in 1..Len(content) /\ Src(j) \in File
      BY <1>1
    <2>2. content[off + 1] = Src(j)
      BY <1>1, <2>1, SMTT(30)
    <2> QED
      BY <1>1, <1>2, <2>1, <2>2
  <1>3. CASE off = 0 /\ blocks = content
    BY <1>1, <1>3
  <1> QED
    BY <1>2, <1>3 DEF ReadBlocks

(* What a write leaves in a file that ends where it begins.                *)
LEMMA WrittenThere ==
    ASSUME NEW f \in File, NEW off \in Nat, NEW s \in File, NEW blocks \in Seq(File),
           \A i \in 1..Len(blocks) : blocks[i] = s,
           off > 0 => /\ fs[f] \in Seq(File) /\ Len(fs[f]) = off
                      /\ \A i \in 1..off : fs[f][i] = s
    PROVE  /\ Written(f, off, blocks) \in Seq(File)
           /\ Len(Written(f, off, blocks)) = off + Len(blocks)
           /\ \A i \in 1..(off + Len(blocks)) : Written(f, off, blocks)[i] = s
  <1> DEFINE end == off + Len(blocks)
  <1>1. CASE off = 0
    BY <1>1 DEF Written
  <1>2. CASE off > 0
    <2> DEFINE w == [i \in 1..end |-> IF i > off /\ i <= end THEN blocks[i - off]
                                      ELSE IF i <= off THEN fs[f][i] ELSE "hole"]
    <2>1. end \in Nat /\ end >= off
      OBVIOUS
    <2>2. Written(f, off, blocks) = w
      <3>1. (IF Len(fs[f]) > end THEN Len(fs[f]) ELSE end) = end /\ Len(fs[f]) = off /\ off # 0
        BY <1>2, <2>1
      <3> QED
        BY <3>1 DEF Written
    <2>3. \A i \in 1..end : w[i] = s
      <3> SUFFICES ASSUME NEW i \in 1..end PROVE w[i] = s
        OBVIOUS
      <3>1. CASE i > off
        <4>1. i - off \in 1..Len(blocks)
          BY <3>1, <2>1
        <4> QED
          BY <3>1, <4>1
      <3>2. CASE i <= off
        BY <3>2, <1>2
      <3> QED
        BY <3>1, <3>2
    <2>4. w \in [1..end -> File]
      BY <2>3
    <2>5. w \in Seq(File) /\ Len(w) = end
      BY <2>1, <2>4
    <2> QED
      BY <2>2, <2>3, <2>5
  <1> QED
    BY <1>1, <1>2

(* A block goes where the last one ended.                                  *)
LEMMA BlockWritten ==
    ASSUME NEW j \in Jobs, Ready(j), ~ Alias(j), At(j, "block"), job[j].stage # "whole",
           NEW blocks \in ReadBlocks(j), job[j].off > 0 => Exists(Target(j))
    PROVE  /\ Written(Target(j), job[j].off, blocks) \in Seq(File)
           /\ Len(Written(Target(j), job[j].off, blocks)) = job[j].off + Len(blocks)
           /\ \A i \in 1..(job[j].off + Len(blocks)) : Written(Target(j), job[j].off, blocks)[i] = Src(j)
  <1> DEFINE f   == Target(j)
             off == job[j].off
             s   == Src(j)
  <1>1. f \in File /\ s \in File /\ off \in Nat
    BY DEF Ready, PlanSound, Plan, Target, Src, Dst, Tmp, TypeOK, JobState
  <1>2. off > 0 => fs[f] \in Seq(File) /\ Len(fs[f]) = off /\ \A i \in 1..off : fs[f][i] = s
    BY <1>1 DEF At, Ready, JobIsSound, CopySound, DataOf, Exists, TypeOK
  <1>3. blocks \in Seq(File) /\ \A i \in 1..Len(blocks) : blocks[i] = s
    BY BlocksRead
  <1>4. /\ Written(f, off, blocks) \in Seq(File) /\ Len(Written(f, off, blocks)) = off + Len(blocks)
        /\ \A i \in 1..(off + Len(blocks)) : Written(f, off, blocks)[i] = s
    <2> HIDE DEF f, off, s
    <2> QED
      BY <1>1, <1>2, <1>3, WrittenThere, SMTT(20)
  <1> QED
    BY <1>4

(* A block is written, or the write fails before or after the file was     *)
(* emptied.                                                                *)
LEMMA BlockStep ==
    ASSUME NEW j \in Jobs, Ready(j), CopyBlock(j), UNCHANGED cancelled
    PROVE  Kept(j)
  <1>0. ~ Alias(j) => \A blocks \in ReadBlocks(j) : Exists(Src(j)) /\ job[j].size > 0
    <2> SUFFICES ASSUME ~ Alias(j), NEW blocks \in ReadBlocks(j) PROVE Exists(Src(j)) /\ job[j].size > 0
      OBVIOUS
    <2>1. job[j].off \in Nat /\ job[j].size \in Nat
      BY DEF Ready, TypeOK, JobState
    <2> QED
      BY <2>1, BlocksRead DEF CopyBlock
  <1> USE DEF Ready, PlanSound, Src, Dst, Tmp, Alias, Safe, Plan, May, Becomes, TypeOK, JobState, Exists
  <1>1. ~ Alias(j) /\ At(j, "block") /\ job[j].stage # "whole" /\ plan' = plan /\ Target(j) \in File
    BY DEF CopyBlock, Target, At, JobIsSound, AliasSound
  <1>2. ASSUME NEW blocks \in ReadBlocks(j), job[j].off > 0 => Exists(Target(j)),
               Set(Target(j), Written(Target(j), job[j].off, blocks)), Advance(j, Len(blocks))
        PROVE  Kept(j)
    <2> DEFINE w == Written(Target(j), job[j].off, blocks)
               n == job[j].off + Len(blocks)
    <2>1. /\ blocks \in Seq(File) /\ Len(blocks) \in Nat \ {0} /\ \A i \in 1..Len(blocks) : blocks[i] = Src(j)
          /\ n <= job[j].size /\ job[j].off \in Nat /\ Exists(Src(j))
      BY <1>1, <1>2, BlocksRead DEF TypeOK, JobState
    <2>2. w \in Seq(File) /\ Len(w) = n /\ \A i \in 1..n : w[i] = Src(j)
      BY <1>1, <1>2, BlockWritten
    <2> HIDE DEF w
    <2>3. Becomes(j, [job[j] EXCEPT !.at = "loop", !.off = n])
      BY <1>2, <2>1, AdvanceBecomes
    <2>4. /\ fs' \in [File -> Seq(File) \cup {Absent}]
          /\ fs'[Target(j)] = w /\ \A g \in File \ {Target(j)} : fs'[g] = fs[g]
      BY <1>1, <1>2, <2>2, SetFiles DEF w
    <2>5. job[j].off < job[j].size /\ n \in Nat \ {0}
      BY <1>1, <2>1 DEF At, JobIsSound, Control
    <2>6. KeepsTo(j)
      BY <1>1, <1>2, <2>1, <2>2, <2>3, <2>4, <2>5 DEF KeepsTo, WrittenBy, At, Target, Owned, Stage
    <2>7. Control(j)' /\ Buffered(j)' /\ EmptyBuffer(j)'
      BY <1>1, <1>2, <2>1, <2>2, <2>3, <2>4, <2>5
      DEF JobIsSound, Control, Buffered, EmptyBuffer, At, Target, Owned, Stage
    <2>8. Alias(j) => AliasSound(j)'
      BY <1>1, <1>2, <2>1, <2>2, <2>3, <2>4, <2>5
      DEF JobIsSound, AliasSound, Control, DataOf, At, Target, Owned, Stage
    <2>9. ~ Alias(j) => SourceSound(j)'
      BY <1>1, <1>2, <2>1, <2>2, <2>3, <2>4, <2>5
      DEF JobIsSound, SourceSound, Control, CopySound, DataOf, Looked, CopyIn, SizeIs, At, Target, Owned, Stage
    <2>10. ~ Alias(j) => CopySound(j)'
      BY <1>1, <1>2, <2>1, <2>2, <2>3, <2>4, <2>5
      DEF JobIsSound, CopySound, Control, DataOf, CopyIn, SizeIs, OldOrNew, OldInPlace, Target, Owned, At, Stage
    <2>11. LeftSound(j) => TempSound(j)'
      BY <1>1, <1>2, <2>1, <2>2, <2>3, <2>4, <2>5
      DEF LeftSound, TempSound, JobIsSound, AliasSound, Control, CopyIn, SizeIs, At, Target, Owned, Stage
    <2>12. LeftSound(j) /\ ~ Alias(j) => RewriteSound(j)'
      <3> SUFFICES ASSUME LeftSound(j), ~ Alias(j) PROVE RewriteSound(j)'
        OBVIOUS
      <3>1. ASSUME job[j].stage = "rewrite", plan[j].faults \cap {"lostReply"} = {} PROVE CopyIn(j, Tmp(j))'
        <4>1. CopyIn(j, Tmp(j))
          BY <3>1, <1>1 DEF LeftSound, RewriteSound, At
        <4>2. fs'[Tmp(j)] = fs[Tmp(j)]
          BY <3>1, <2>4 DEF Target, Owned
        <4> QED
          BY <4>1, <4>2, <1>1, <2>3 DEF CopyIn, SizeIs
      <3> QED
        BY <3>1, <1>1, <2>3 DEF RewriteSound
    <2>13. LeftSound(j) /\ ~ Alias(j) => DestSound(j)'
      <3> SUFFICES ASSUME LeftSound(j), ~ Alias(j) PROVE DestSound(j)'
        OBVIOUS
      <3>1. job'[j].at = "loop" /\ job'[j].off > 0 /\ job'[j].stage = job[j].stage
        BY <2>3, <2>5
      <3>2. job[j].stage \in {"direct", "temp", "inPlace", "rewrite"}
        BY <1>1 DEF At, JobIsSound, Control, Stage
      <3>3. CASE job[j].stage = "temp"
        <4>1. fs'[Dst(j)] = fs[Dst(j)]
          BY <3>3, <2>4 DEF Target, Owned
        <4>2. plan[j].positional /\ plan[j].faults \cap {"remove", "stat", "truncate"} = {} => Whole(j)
          BY <3>3 DEF LeftSound, DestSound
        <4> QED
          BY <3>1, <4>1, <4>2, <1>1, <2>3 DEF DestSound, Whole, OldInPlace, CopyIn, SizeIs
      <3> QED
        BY <3>1, <3>2, <3>3 DEF DestSound
    <2> QED
      BY <2>6, <2>7, <2>8, <2>9, <2>10, <2>11, <2>12, <2>13, Parts
  <1>3. job[j].off \in Nat /\ job[j].size \in Nat
    BY DEF TypeOK, JobState
  <1>4. \A blocks \in ReadBlocks(j) : Exists(Src(j)) /\ job[j].size > 0
    BY <1>0, <1>1
  <1>5. CASE StopOwned(j, "Failed") /\ UNCHANGED fs
    BY <1>5, <1>1, StopOwnedStep DEF At
  <1>6. CASE Owned(j) /\ Exists(Src(j)) /\ job[j].size > 0 /\ StopAndDiscard(j, "Failed") /\ Set(Target(j), <<>>)
    <2>1. Becomes(j, [job[j] EXCEPT !.at = "discard", !.result = "Failed"])
      BY <1>6, StopBecomes DEF Result
    <2>2. /\ fs' \in [File -> Seq(File) \cup {Absent}]
          /\ fs'[Target(j)] = <<>> /\ \A g \in File \ {Target(j)} : fs'[g] = fs[g]
      BY <1>6, <1>1, SetFiles, EmptyFile
    <2>3. KeepsTo(j)
      BY <1>6, <2>1, <2>2, <1>1 DEF KeepsTo, WrittenBy, At, Target, Owned, DataOf
    <2>4. Control(j)' /\ Buffered(j)' /\ EmptyBuffer(j)'
      BY <1>6, <2>1, <2>2, <1>1 DEF JobIsSound, Control, Buffered, EmptyBuffer, At, Target, Owned, DataOf
    <2>5. Alias(j) => AliasSound(j)'
      BY <1>6, <2>1, <2>2, <1>1 DEF JobIsSound, AliasSound, Control, DataOf, At, Target, Owned
    <2>6. ~ Alias(j) => SourceSound(j)'
      BY <1>6, <2>1, <2>2, <1>1
      DEF JobIsSound, SourceSound, Control, CopySound, DataOf, Looked, CopyIn, SizeIs, At, Target, Owned
    <2>7. ~ Alias(j) => CopySound(j)'
      BY <1>6, <2>1, <2>2, <1>1
      DEF JobIsSound, CopySound, Control, DataOf, CopyIn, SizeIs, OldOrNew, OldInPlace, Target, Owned, At
    <2>8. LeftSound(j) => TempSound(j)'
      BY <1>6, <2>1, <2>2, <1>1
      DEF LeftSound, TempSound, JobIsSound, AliasSound, Control, CopyIn, SizeIs, At, Target, Owned, DataOf
    <2>9. LeftSound(j) /\ ~ Alias(j) => RewriteSound(j)'
      BY <1>6, <2>1, <2>2, <1>1
      DEF LeftSound, RewriteSound, JobIsSound, Control, CopySound, CopyIn, SizeIs, At, Target, Owned, DataOf
    <2>10. LeftSound(j) /\ ~ Alias(j) => DestSound(j)'
      BY <1>6, <2>1, <2>2, <1>1
      DEF LeftSound, DestSound, Whole, OldInPlace, JobIsSound, Control, CopySound, CopyIn, SizeIs, At, Target,
          Owned, DataOf
    <2> QED
      BY <2>3, <2>4, <2>5, <2>6, <2>7, <2>8, <2>9, <2>10, Parts
  <1>7. CASE ~ Owned(j) /\ May(j, "truncate") /\ Exists(Src(j)) /\ job[j].size > 0 /\ job[j].off = 0
             /\ Stop(j, "Failed") /\ Set(Target(j), <<>>)
    <2>1. Becomes(j, [job[j] EXCEPT !.at = "end", !.result = "Failed"])
      BY <1>7, StopBecomes DEF Result
    <2>2. /\ fs' \in [File -> Seq(File) \cup {Absent}]
          /\ fs'[Target(j)] = <<>> /\ \A g \in File \ {Target(j)} : fs'[g] = fs[g]
      BY <1>7, <1>1, SetFiles, EmptyFile
    <2>3. KeepsTo(j)
      BY <1>7, <2>1, <2>2, <1>1 DEF KeepsTo, WrittenBy, At, Target, Owned, DataOf
    <2>4. Control(j)' /\ Buffered(j)' /\ EmptyBuffer(j)'
      BY <1>7, <2>1, <2>2, <1>1 DEF JobIsSound, Control, Buffered, EmptyBuffer, At, Target, Owned, DataOf
    <2>5. Alias(j) => AliasSound(j)'
      BY <1>7, <2>1, <2>2, <1>1 DEF JobIsSound, AliasSound, Control, DataOf, At, Target, Owned
    <2>6. ~ Alias(j) => SourceSound(j)'
      BY <1>7, <2>1, <2>2, <1>1
      DEF JobIsSound, SourceSound, Control, CopySound, DataOf, Looked, CopyIn, SizeIs, At, Target, Owned
    <2>7. ~ Alias(j) => CopySound(j)'
      BY <1>7, <2>1, <2>2, <1>1
      DEF JobIsSound, CopySound, Control, DataOf, CopyIn, SizeIs, OldOrNew, OldInPlace, Target, Owned, At
    <2>8. LeftSound(j) => TempSound(j)'
      BY <1>7, <2>1, <2>2, <1>1
      DEF LeftSound, TempSound, JobIsSound, AliasSound, Control, CopyIn, SizeIs, At, Target, Owned, DataOf
    <2>9. LeftSound(j) /\ ~ Alias(j) => RewriteSound(j)'
      BY <1>7, <2>1, <2>2, <1>1
      DEF LeftSound, RewriteSound, JobIsSound, Control, CopySound, CopyIn, SizeIs, At, Target, Owned, DataOf
    <2>10. LeftSound(j) /\ ~ Alias(j) => DestSound(j)'
      BY <1>7, <2>1, <2>2, <1>1
      DEF LeftSound, DestSound, Whole, OldInPlace, JobIsSound, Control, CopySound, CopyIn, SizeIs, At, Target,
          Owned, DataOf
    <2> QED
      BY <2>3, <2>4, <2>5, <2>6, <2>7, <2>8, <2>9, <2>10, Parts
  <1> QED
    BY <1>1, <1>2, <1>4, <1>5, <1>6, <1>7 DEF CopyBlock, StopOwned

(* A closed file may lack its last block.                                  *)
LEMMA FinishStep ==
    ASSUME NEW j \in Jobs, Ready(j), Finish(j), UNCHANGED cancelled
    PROVE  Kept(j)
  <1> USE DEF Ready, PlanSound, Src, Dst, Tmp, Alias, Safe, Plan, May, Becomes, TypeOK, JobState, Exists
  <1>1. ~ Alias(j) /\ At(j, "finish") /\ plan' = plan /\ Target(j) \in File
    BY DEF Finish, Target, At, JobIsSound, AliasSound
  <1>2. CopyIn(j, Target(j))
    BY <1>1 DEF At, JobIsSound, CopySound
  <1>3. CASE Go(j, "verify") /\ UNCHANGED fs
    <2>1. Becomes(j, [job[j] EXCEPT !.at = "verify"])
      BY <1>3, GoBecomes DEF Step
    <2>2. KeepsTo(j)
      BY <1>3, <2>1, <1>1, <1>2 DEF KeepsTo, WrittenBy, At, Target, Owned, DataOf, Stage
    <2>3. Control(j)' /\ Buffered(j)' /\ EmptyBuffer(j)'
      BY <1>3, <2>1, <1>1, <1>2 DEF JobIsSound, Control, Buffered, EmptyBuffer, At, Target, Owned, DataOf, Stage
    <2>4. Alias(j) => AliasSound(j)'
      BY <1>3, <2>1, <1>1, <1>2 DEF JobIsSound, AliasSound, Control, DataOf, At, Target, Owned, Stage
    <2>5. ~ Alias(j) => SourceSound(j)'
      BY <1>3, <2>1, <1>1, <1>2
      DEF JobIsSound, SourceSound, Control, CopySound, DataOf, Looked, CopyIn, SizeIs, At, Target, Owned, Stage
    <2>6. ~ Alias(j) => CopySound(j)'
      BY <1>3, <2>1, <1>1, <1>2
      DEF JobIsSound, CopySound, Control, DataOf, CopyIn, SizeIs, OldOrNew, OldInPlace, Target, Owned, At, Stage
    <2>7. LeftSound(j) => TempSound(j)'
      BY <1>3, <2>1, <1>1, <1>2
      DEF LeftSound, TempSound, JobIsSound, AliasSound, Control, CopyIn, SizeIs, At, Target, Owned, DataOf, Stage
    <2>8. LeftSound(j) /\ ~ Alias(j) => RewriteSound(j)'
      BY <1>3, <2>1, <1>1, <1>2
      DEF LeftSound, RewriteSound, JobIsSound, Control, CopySound, CopyIn, SizeIs, At, Target, Owned, DataOf, Stage
    <2>9. LeftSound(j) /\ ~ Alias(j) => DestSound(j)'
      BY <1>3, <2>1, <1>1, <1>2
      DEF LeftSound, DestSound, Whole, OldInPlace, JobIsSound, Control, CopySound, CopyIn, SizeIs, At, Target,
          Owned, DataOf, Stage
    <2> QED
      BY <2>2, <2>3, <2>4, <2>5, <2>6, <2>7, <2>8, <2>9, Parts
  <1>4. CASE Exists(Target(j)) /\ fs[Target(j)] # <<>> /\ Go(j, "verify")
             /\ Set(Target(j), SubSeq(fs[Target(j)], 1, Len(fs[Target(j)]) - 1))
    <2> DEFINE old == fs[Target(j)]
               new == SubSeq(old, 1, Len(old) - 1)
    <2>1. Becomes(j, [job[j] EXCEPT !.at = "verify"])
      BY <1>4, GoBecomes DEF Step
    <2>2. old \in Seq(File) /\ Len(old) \in Nat \ {0}
      BY <1>4, <1>1, <1>2 DEF TypeOK, Exists
    <2>3. new \in Seq(File) /\ Len(new) = Len(old) - 1 /\ \A i \in 1..Len(new) : new[i] = old[i]
      BY <2>2
    <2>4. \A i \in 1..Len(new) : new[i] = Src(j)
      BY <1>1, <1>2, <2>2, <2>3 DEF CopyIn, SizeIs
    <2> HIDE DEF new
    <2>5. /\ fs' \in [File -> Seq(File) \cup {Absent}]
          /\ fs'[Target(j)] = new /\ \A g \in File \ {Target(j)} : fs'[g] = fs[g]
      BY <1>4, <1>1, <1>2, <2>3, SetFiles DEF new
    <2>6. DataOf(Target(j), Src(j))'
      BY <1>1, <1>2, <2>1, <2>4, <2>5 DEF DataOf, Target, Owned, Becomes
    <2>7. KeepsTo(j)
      BY <1>1, <1>2, <2>1, <2>4, <2>5, <2>6 DEF KeepsTo, WrittenBy, At, Target, Owned, Stage
    <2>8. Control(j)' /\ Buffered(j)' /\ EmptyBuffer(j)'
      BY <1>1, <1>2, <2>1, <2>4, <2>5, <2>6 DEF JobIsSound, Control, Buffered, EmptyBuffer, At, Target, Owned, Stage
    <2>9. Alias(j) => AliasSound(j)'
      BY <1>1, <1>2, <2>1, <2>4, <2>5, <2>6 DEF JobIsSound, AliasSound, Control, DataOf, At, Target, Owned, Stage
    <2>10. ~ Alias(j) => SourceSound(j)'
      BY <1>1, <1>2, <2>1, <2>4, <2>5, <2>6
      DEF JobIsSound, SourceSound, Control, CopySound, DataOf, Looked, CopyIn, SizeIs, At, Target, Owned, Stage
    <2>11. ~ Alias(j) => CopySound(j)'
      BY <1>1, <1>2, <2>1, <2>4, <2>5, <2>6
      DEF JobIsSound, CopySound, Control, DataOf, CopyIn, SizeIs, OldOrNew, OldInPlace, Target, Owned, At, Stage
    <2>12. LeftSound(j) => TempSound(j)'
      BY <1>1, <1>2, <2>1, <2>4, <2>5, <2>6
      DEF LeftSound, TempSound, JobIsSound, AliasSound, Control, CopyIn, SizeIs, At, Target, Owned, Stage
    <2>13. LeftSound(j) /\ ~ Alias(j) => RewriteSound(j)'
      BY <1>1, <1>2, <2>1, <2>4, <2>5, <2>6
      DEF LeftSound, RewriteSound, JobIsSound, Control, CopySound, CopyIn, SizeIs, At, Target, Owned, Stage
    <2>14. LeftSound(j) /\ ~ Alias(j) => DestSound(j)'
      BY <1>1, <1>2, <2>1, <2>4, <2>5, <2>6
      DEF LeftSound, DestSound, Whole, OldInPlace, JobIsSound, Control, CopySound, CopyIn, SizeIs, At, Target,
          Owned, Stage
    <2> QED
      BY <2>7, <2>8, <2>9, <2>10, <2>11, <2>12, <2>13, <2>14, Parts
  <1>5. CASE StopAndDiscard(j, "Failed") /\ UNCHANGED fs
    BY <1>5, <1>1, <1>2, DiscardingStep DEF At
  <1> QED
    BY <1>3, <1>4, <1>5, <1>1, <1>2 DEF Finish

(* The size of what was written.                                           *)
LEMMA VerifyStep ==
    ASSUME NEW j \in Jobs, Ready(j), Verify(j), UNCHANGED cancelled
    PROVE  Kept(j)
  <1> USE DEF Ready, PlanSound, Src, Dst, Tmp, Alias, Safe, Plan, May, Becomes, TypeOK, JobState, Exists
  <1>1. ~ Alias(j) /\ At(j, "verify") /\ UNCHANGED <<fs, plan>> /\ Target(j) \in File
    BY DEF Verify, Target, At, JobIsSound, AliasSound
  <1>2. CASE Exists(Target(j)) /\ Len(fs[Target(j)]) = job[j].size /\ Go(j, AfterVerify(j))
    <2>1. CopyIn(j, Target(j))
      BY <1>2, <1>1 DEF CopyIn, SizeIs, At, JobIsSound, CopySound, DataOf
    <2>2. CASE job[j].stage = "temp"
      <3>1. Becomes(j, [job[j] EXCEPT !.at = "preCommit"])
        BY <1>2, <2>2, GoBecomes DEF Step, AfterVerify
      <3>2. CopyIn(j, Tmp(j))
        BY <2>1, <2>2 DEF Target, Owned
      <3>3. KeepsTo(j)
        BY <1>2, <1>1, <2>2, <3>1, <3>2 DEF KeepsTo, WrittenBy, At, Stage
      <3>4. Control(j)' /\ Buffered(j)' /\ EmptyBuffer(j)'
        BY <1>2, <1>1, <2>2, <3>1, <3>2 DEF JobIsSound, Control, Buffered, EmptyBuffer, At, Stage
      <3>5. Alias(j) => AliasSound(j)'
        BY <1>2, <1>1, <2>2, <3>1, <3>2 DEF JobIsSound, AliasSound, Control, DataOf, At, Stage
      <3>6. ~ Alias(j) => SourceSound(j)'
        BY <1>2, <1>1, <2>2, <3>1, <3>2
        DEF JobIsSound, SourceSound, Control, CopySound, DataOf, Looked, CopyIn, SizeIs, At, Stage
      <3>7. ~ Alias(j) => CopySound(j)'
        BY <1>2, <1>1, <2>2, <3>1, <3>2
        DEF JobIsSound, CopySound, Control, DataOf, CopyIn, SizeIs, OldOrNew, OldInPlace, Target, Owned, At, Stage
      <3>8. LeftSound(j) => TempSound(j)'
        BY <1>2, <1>1, <2>2, <3>1, <3>2
        DEF LeftSound, TempSound, JobIsSound, AliasSound, Control, CopyIn, SizeIs, At, Stage
      <3>9. LeftSound(j) /\ ~ Alias(j) => RewriteSound(j)'
        BY <1>2, <1>1, <2>2, <3>1, <3>2
        DEF LeftSound, RewriteSound, JobIsSound, Control, CopySound, CopyIn, SizeIs, At, Stage
      <3>10. LeftSound(j) /\ ~ Alias(j) => DestSound(j)'
        BY <1>2, <1>1, <2>2, <3>1, <3>2
        DEF LeftSound, DestSound, Whole, OldInPlace, JobIsSound, Control, CopySound, CopyIn, SizeIs, At, Stage
      <3> QED
        BY <3>3, <3>4, <3>5, <3>6, <3>7, <3>8, <3>9, <3>10, Parts
    <2>3. CASE job[j].stage # "temp"
      <3>1. Becomes(j, [job[j] EXCEPT !.at = IF job[j].stage = "rewrite" THEN "dropTemp" ELSE "copied"])
        <4>1. AfterVerify(j) = (IF job[j].stage = "rewrite" THEN "dropTemp" ELSE "copied") /\ AfterVerify(j) \in Step
          BY <2>3 DEF AfterVerify, Step
        <4> QED
          BY <1>2, <4>1, GoBecomes
      <3>2. CopyIn(j, Dst(j))
        BY <2>1, <2>3 DEF Target, Owned
      <3>3. KeepsTo(j)
        BY <1>2, <1>1, <2>3, <3>1, <3>2 DEF KeepsTo, WrittenBy, At, Stage
      <3>4. Control(j)' /\ Buffered(j)' /\ EmptyBuffer(j)'
        BY <1>2, <1>1, <2>3, <3>1, <3>2 DEF JobIsSound, Control, Buffered, EmptyBuffer, At, Stage
      <3>5. Alias(j) => AliasSound(j)'
        BY <1>2, <1>1, <2>3, <3>1, <3>2 DEF JobIsSound, AliasSound, Control, DataOf, At, Stage
      <3>6. ~ Alias(j) => SourceSound(j)'
        BY <1>2, <1>1, <2>3, <3>1, <3>2
        DEF JobIsSound, SourceSound, Control, CopySound, DataOf, Looked, CopyIn, SizeIs, At, Stage
      <3>7. ~ Alias(j) => CopySound(j)'
        BY <1>2, <1>1, <2>3, <3>1, <3>2
        DEF JobIsSound, CopySound, Control, DataOf, CopyIn, SizeIs, OldOrNew, OldInPlace, Target, Owned, At, Stage
      <3>8. LeftSound(j) => TempSound(j)'
        BY <1>2, <1>1, <2>3, <3>1, <3>2
        DEF LeftSound, TempSound, JobIsSound, AliasSound, Control, CopyIn, SizeIs, At, Stage
      <3>9. LeftSound(j) /\ ~ Alias(j) => RewriteSound(j)'
        BY <1>2, <1>1, <2>3, <3>1, <3>2
        DEF LeftSound, RewriteSound, JobIsSound, Control, CopySound, CopyIn, SizeIs, At, Stage
      <3>10. LeftSound(j) /\ ~ Alias(j) => DestSound(j)'
        BY <1>2, <1>1, <2>3, <3>1, <3>2
        DEF LeftSound, DestSound, Whole, OldInPlace, JobIsSound, Control, CopySound, CopyIn, SizeIs, At, Stage
      <3> QED
        BY <3>3, <3>4, <3>5, <3>6, <3>7, <3>8, <3>9, <3>10, Parts
    <2> QED
      BY <2>2, <2>3
  <1>3. CASE StopAndDiscard(j, "Failed")
    BY <1>3, <1>1, DiscardingStep DEF At
  <1>4. CASE (~ Exists(Target(j)) \/ May(j, "stat")) /\ ~ Owned(j) /\ Stop(j, "Failed")
    BY <1>4, <1>1, StopStep DEF At, Owned
  <1> QED
    BY <1>2, <1>3, <1>4, <1>1 DEF Verify

(* The last look at the task list before the destination changes.          *)
LEMMA PreCommitStep ==
    ASSUME NEW j \in Jobs, Ready(j), PreCommit(j), UNCHANGED cancelled
    PROVE  Kept(j)
  <1> USE DEF Ready, PlanSound, Src, Dst, Tmp, Alias, Safe, Plan, May, Becomes, TypeOK, JobState, Exists
  <1>1. CASE StopAndDiscard(j, "Cancelled")
    BY <1>1, DiscardingStep DEF PreCommit, At
  <1>2. CASE ~ StopAndDiscard(j, "Cancelled") /\ Go(j, "commit") /\ At(j, "preCommit") /\ UNCHANGED <<fs, plan>>
    <2>1. Becomes(j, [job[j] EXCEPT !.at = "commit"])
      BY <1>2, GoBecomes DEF Step
    <2>2. KeepsTo(j)
      BY <1>2, <2>1 DEF KeepsTo, WrittenBy, At
    <2>3. Control(j)' /\ Buffered(j)' /\ EmptyBuffer(j)'
      BY <1>2, <2>1 DEF JobIsSound, Control, Buffered, EmptyBuffer, At
    <2>4. Alias(j) => AliasSound(j)'
      BY <1>2, <2>1 DEF JobIsSound, AliasSound, Control, DataOf, At
    <2>5. ~ Alias(j) => SourceSound(j)'
      BY <1>2, <2>1 DEF JobIsSound, SourceSound, Control, CopySound, DataOf, Looked, CopyIn, SizeIs, At
    <2>6. ~ Alias(j) => CopySound(j)'
      BY <1>2, <2>1
      DEF JobIsSound, CopySound, Control, DataOf, CopyIn, SizeIs, OldOrNew, OldInPlace, Target, Owned, At
    <2>7. LeftSound(j) => TempSound(j)'
      BY <1>2, <2>1 DEF LeftSound, TempSound, JobIsSound, AliasSound, Control, CopyIn, SizeIs, At
    <2>8. LeftSound(j) /\ ~ Alias(j) => RewriteSound(j)'
      BY <1>2, <2>1 DEF LeftSound, RewriteSound, JobIsSound, Control, CopySound, CopyIn, SizeIs, At
    <2>9. LeftSound(j) /\ ~ Alias(j) => DestSound(j)'
      BY <1>2, <2>1 DEF LeftSound, DestSound, Whole, OldInPlace, JobIsSound, Control, CopySound, CopyIn, SizeIs, At
    <2> QED
      BY <2>2, <2>3, <2>4, <2>5, <2>6, <2>7, <2>8, <2>9, Parts
  <1> QED
    BY <1>1, <1>2 DEF PreCommit

(* The complete temporary file takes the place of the destination.         *)
LEMMA CommitStep ==
    ASSUME NEW j \in Jobs, Ready(j), Commit(j), UNCHANGED cancelled
    PROVE  Kept(j)
  <1> USE DEF Ready, PlanSound, Src, Dst, Tmp, Alias, Safe, Plan, May, Becomes, TypeOK, JobState, Exists
  <1>1. ~ Alias(j) /\ At(j, "commit") /\ plan' = plan
    BY DEF Commit, RenameTemp, At, JobIsSound, AliasSound
  <1>2. CopyIn(j, Tmp(j)) /\ Exists(Tmp(j))
    BY <1>1 DEF At, JobIsSound, CopySound, CopyIn, SizeIs
  <1>3. CASE Replace(Tmp(j), Dst(j)) /\ Go(j, "copied")
    <2>1. Becomes(j, [job[j] EXCEPT !.at = "copied"])
      BY <1>3, GoBecomes DEF Step
    <2>2. /\ fs' \in [File -> Seq(File) \cup {Absent}]
          /\ fs'[Dst(j)] = fs[Tmp(j)] /\ fs'[Tmp(j)] = Absent
          /\ \A g \in File \ {Tmp(j), Dst(j)} : fs'[g] = fs[g]
      BY <1>3, <1>1, <1>2, ReplaceFiles
    <2>3. CopyIn(j, Dst(j))'
      BY <1>3, <2>1, <2>2, <1>1, <1>2 DEF Becomes, CopyIn, SizeIs, Exists
    <2>4. KeepsTo(j)
      BY <1>3, <2>1, <2>2, <2>3, <1>1, <1>2 DEF KeepsTo, WrittenBy, At
    <2>5. Control(j)' /\ Buffered(j)' /\ EmptyBuffer(j)'
      BY <1>3, <2>1, <2>2, <2>3, <1>1, <1>2 DEF JobIsSound, Control, Buffered, EmptyBuffer, At
    <2>6. Alias(j) => AliasSound(j)'
      BY <1>3, <2>1, <2>2, <2>3, <1>1, <1>2 DEF JobIsSound, AliasSound, Control, DataOf, At
    <2>7. ~ Alias(j) => SourceSound(j)'
      BY <1>3, <2>1, <2>2, <2>3, <1>1, <1>2
      DEF JobIsSound, SourceSound, Control, CopySound, DataOf, Looked, CopyIn, SizeIs, At
    <2>8. ~ Alias(j) => CopySound(j)'
      BY <1>3, <2>1, <2>2, <2>3, <1>1, <1>2
      DEF JobIsSound, CopySound, Control, DataOf, CopyIn, SizeIs, OldOrNew, OldInPlace, Target, Owned, At
    <2>9. LeftSound(j) => TempSound(j)'
      BY <1>3, <2>1, <2>2, <2>3, <1>1, <1>2
      DEF LeftSound, TempSound, JobIsSound, AliasSound, Control, CopyIn, SizeIs, At
    <2>10. LeftSound(j) /\ ~ Alias(j) => RewriteSound(j)'
      BY <1>3, <2>1, <2>2, <2>3, <1>1, <1>2
      DEF LeftSound, RewriteSound, JobIsSound, Control, CopySound, CopyIn, SizeIs, At
    <2>11. LeftSound(j) /\ ~ Alias(j) => DestSound(j)'
      BY <1>3, <2>1, <2>2, <2>3, <1>1, <1>2
      DEF LeftSound, DestSound, Whole, OldInPlace, JobIsSound, Control, CopySound, CopyIn, SizeIs, At
    <2> QED
      BY <2>4, <2>5, <2>6, <2>7, <2>8, <2>9, <2>10, <2>11, Parts
  <1>4. CASE Replace(Tmp(j), Dst(j)) /\ May(j, "lostReply") /\ Go(j, "replace")
    <2>1. Becomes(j, [job[j] EXCEPT !.at = "replace"])
      BY <1>4, GoBecomes DEF Step
    <2>2. /\ fs' \in [File -> Seq(File) \cup {Absent}]
          /\ fs'[Dst(j)] = fs[Tmp(j)] /\ fs'[Tmp(j)] = Absent
          /\ \A g \in File \ {Tmp(j), Dst(j)} : fs'[g] = fs[g]
      BY <1>4, <1>1, <1>2, ReplaceFiles
    <2>3. CopyIn(j, Dst(j))'
      BY <1>4, <2>1, <2>2, <1>1, <1>2 DEF Becomes, CopyIn, SizeIs, Exists
    <2>4. KeepsTo(j)
      BY <1>4, <2>1, <2>2, <2>3, <1>1, <1>2 DEF KeepsTo, WrittenBy, At
    <2>5. Control(j)' /\ Buffered(j)' /\ EmptyBuffer(j)'
      BY <1>4, <2>1, <2>2, <2>3, <1>1, <1>2 DEF JobIsSound, Control, Buffered, EmptyBuffer, At
    <2>6. Alias(j) => AliasSound(j)'
      BY <1>4, <2>1, <2>2, <2>3, <1>1, <1>2 DEF JobIsSound, AliasSound, Control, DataOf, At
    <2>7. ~ Alias(j) => SourceSound(j)'
      BY <1>4, <2>1, <2>2, <2>3, <1>1, <1>2
      DEF JobIsSound, SourceSound, Control, CopySound, DataOf, Looked, CopyIn, SizeIs, At
    <2>8. ~ Alias(j) => CopySound(j)'
      BY <1>4, <2>1, <2>2, <2>3, <1>1, <1>2
      DEF JobIsSound, CopySound, Control, DataOf, CopyIn, SizeIs, OldOrNew, OldInPlace, Target, Owned, At
    <2>9. LeftSound(j) => TempSound(j)'
      BY <1>4, <2>1, <2>2, <2>3, <1>1, <1>2
      DEF LeftSound, TempSound, JobIsSound, AliasSound, Control, CopyIn, SizeIs, At
    <2>10. LeftSound(j) /\ ~ Alias(j) => RewriteSound(j)'
      BY <1>4, <2>1, <2>2, <2>3, <1>1, <1>2
      DEF LeftSound, RewriteSound, JobIsSound, Control, CopySound, CopyIn, SizeIs, At
    <2>11. LeftSound(j) /\ ~ Alias(j) => DestSound(j)'
      BY <1>4, <2>1, <2>2, <2>3, <1>1, <1>2
      DEF LeftSound, DestSound, Whole, OldInPlace, JobIsSound, Control, CopySound, CopyIn, SizeIs, At
    <2> QED
      BY <2>4, <2>5, <2>6, <2>7, <2>8, <2>9, <2>10, <2>11, Parts
  <1>5. CASE Go(j, "replace") /\ UNCHANGED fs
    <2>1. Becomes(j, [job[j] EXCEPT !.at = "replace"])
      BY <1>5, GoBecomes DEF Step
    <2>2. KeepsTo(j)
      BY <1>5, <2>1, <1>1, <1>2 DEF KeepsTo, WrittenBy, At
    <2>3. Control(j)' /\ Buffered(j)' /\ EmptyBuffer(j)'
      BY <1>5, <2>1, <1>1, <1>2 DEF JobIsSound, Control, Buffered, EmptyBuffer, At
    <2>4. Alias(j) => AliasSound(j)'
      BY <1>5, <2>1, <1>1, <1>2 DEF JobIsSound, AliasSound, Control, DataOf, At
    <2>5. ~ Alias(j) => SourceSound(j)'
      BY <1>5, <2>1, <1>1, <1>2 DEF JobIsSound, SourceSound, Control, CopySound, DataOf, Looked, CopyIn, SizeIs, At
    <2>6. ~ Alias(j) => CopySound(j)'
      BY <1>5, <2>1, <1>1, <1>2
      DEF JobIsSound, CopySound, Control, DataOf, CopyIn, SizeIs, OldOrNew, OldInPlace, Target, Owned, At
    <2>7. LeftSound(j) => TempSound(j)'
      BY <1>5, <2>1, <1>1, <1>2 DEF LeftSound, TempSound, JobIsSound, AliasSound, Control, CopyIn, SizeIs, At
    <2>8. LeftSound(j) /\ ~ Alias(j) => RewriteSound(j)'
      BY <1>5, <2>1, <1>1, <1>2 DEF LeftSound, RewriteSound, JobIsSound, Control, CopySound, CopyIn, SizeIs, At
    <2>9. LeftSound(j) /\ ~ Alias(j) => DestSound(j)'
      BY <1>5, <2>1, <1>1, <1>2
      DEF LeftSound, DestSound, Whole, OldInPlace, JobIsSound, Control, CopySound, CopyIn, SizeIs, At
    <2> QED
      BY <2>2, <2>3, <2>4, <2>5, <2>6, <2>7, <2>8, <2>9, Parts
  <1> QED
    BY <1>3, <1>4, <1>5 DEF Commit, RenameTemp

(* Once more, now that the old file is gone.                               *)
LEMMA CommitAgainStep ==
    ASSUME NEW j \in Jobs, Ready(j), CommitAgain(j), UNCHANGED cancelled
    PROVE  Kept(j)
  <1> USE DEF Ready, PlanSound, Src, Dst, Tmp, Alias, Safe, Plan, May, Becomes, TypeOK, JobState, Exists
  <1>1. ~ Alias(j) /\ At(j, "commitAgain") /\ plan' = plan
    BY DEF CommitAgain, RenameTemp, At, JobIsSound, AliasSound
  <1>2. Exists(Tmp(j)) => CopyIn(j, Tmp(j))
    BY <1>1 DEF At, JobIsSound, CopySound, CopyIn, SizeIs
  <1>3. CASE Exists(Tmp(j)) /\ Replace(Tmp(j), Dst(j)) /\ Go(j, "copied")
    <2>1. Becomes(j, [job[j] EXCEPT !.at = "copied"])
      BY <1>3, GoBecomes DEF Step
    <2>2. /\ fs' \in [File -> Seq(File) \cup {Absent}]
          /\ fs'[Dst(j)] = fs[Tmp(j)] /\ fs'[Tmp(j)] = Absent
          /\ \A g \in File \ {Tmp(j), Dst(j)} : fs'[g] = fs[g]
      BY <1>3, <1>1, <1>2, ReplaceFiles
    <2>3. CopyIn(j, Dst(j))'
      BY <1>3, <2>1, <2>2, <1>1, <1>2 DEF Becomes, CopyIn, SizeIs, Exists
    <2>4. KeepsTo(j)
      BY <1>3, <2>1, <2>2, <2>3, <1>1, <1>2 DEF KeepsTo, WrittenBy, At
    <2>5. Control(j)' /\ Buffered(j)' /\ EmptyBuffer(j)'
      BY <1>3, <2>1, <2>2, <2>3, <1>1, <1>2 DEF JobIsSound, Control, Buffered, EmptyBuffer, At
    <2>6. Alias(j) => AliasSound(j)'
      BY <1>3, <2>1, <2>2, <2>3, <1>1, <1>2 DEF JobIsSound, AliasSound, Control, DataOf, At
    <2>7. ~ Alias(j) => SourceSound(j)'
      BY <1>3, <2>1, <2>2, <2>3, <1>1, <1>2
      DEF JobIsSound, SourceSound, Control, CopySound, DataOf, Looked, CopyIn, SizeIs, At
    <2>8. ~ Alias(j) => CopySound(j)'
      BY <1>3, <2>1, <2>2, <2>3, <1>1, <1>2
      DEF JobIsSound, CopySound, Control, DataOf, CopyIn, SizeIs, OldOrNew, OldInPlace, Target, Owned, At
    <2>9. LeftSound(j) => TempSound(j)'
      BY <1>3, <2>1, <2>2, <2>3, <1>1, <1>2
      DEF LeftSound, TempSound, JobIsSound, AliasSound, Control, CopyIn, SizeIs, At
    <2>10. LeftSound(j) /\ ~ Alias(j) => RewriteSound(j)'
      BY <1>3, <2>1, <2>2, <2>3, <1>1, <1>2
      DEF LeftSound, RewriteSound, JobIsSound, Control, CopySound, CopyIn, SizeIs, At
    <2>11. LeftSound(j) /\ ~ Alias(j) => DestSound(j)'
      BY <1>3, <2>1, <2>2, <2>3, <1>1, <1>2
      DEF LeftSound, DestSound, Whole, OldInPlace, JobIsSound, Control, CopySound, CopyIn, SizeIs, At
    <2> QED
      BY <2>4, <2>5, <2>6, <2>7, <2>8, <2>9, <2>10, <2>11, Parts
  <1>4. CASE Exists(Tmp(j)) /\ Replace(Tmp(j), Dst(j)) /\ May(j, "lostReply") /\ Begin(j, "loop", "rewrite")
    <2>1. Becomes(j, [job[j] EXCEPT !.at = "loop", !.stage = "rewrite", !.off = 0])
      BY <1>4, BeginBecomes DEF Step, Stage
    <2>2. /\ fs' \in [File -> Seq(File) \cup {Absent}]
          /\ fs'[Dst(j)] = fs[Tmp(j)] /\ fs'[Tmp(j)] = Absent
          /\ \A g \in File \ {Tmp(j), Dst(j)} : fs'[g] = fs[g]
      BY <1>4, <1>1, <1>2, ReplaceFiles
    <2>3. CopyIn(j, Dst(j))'
      BY <1>4, <2>1, <2>2, <1>1, <1>2 DEF Becomes, CopyIn, SizeIs, Exists
    <2>4. KeepsTo(j)
      BY <1>4, <2>1, <2>2, <2>3, <1>1, <1>2 DEF KeepsTo, WrittenBy, At
    <2>5. Control(j)' /\ Buffered(j)' /\ EmptyBuffer(j)'
      BY <1>4, <2>1, <2>2, <2>3, <1>1, <1>2 DEF JobIsSound, Control, Buffered, EmptyBuffer, At
    <2>6. Alias(j) => AliasSound(j)'
      BY <1>4, <2>1, <2>2, <2>3, <1>1, <1>2 DEF JobIsSound, AliasSound, Control, DataOf, At
    <2>7. ~ Alias(j) => SourceSound(j)'
      BY <1>4, <2>1, <2>2, <2>3, <1>1, <1>2
      DEF JobIsSound, SourceSound, Control, CopySound, DataOf, Looked, CopyIn, SizeIs, At
    <2>8. ~ Alias(j) => CopySound(j)'
      BY <1>4, <2>1, <2>2, <2>3, <1>1, <1>2
      DEF JobIsSound, CopySound, Control, DataOf, CopyIn, SizeIs, OldOrNew, OldInPlace, Target, Owned, At
    <2>9. LeftSound(j) => TempSound(j)'
      BY <1>4, <2>1, <2>2, <2>3, <1>1, <1>2
      DEF LeftSound, TempSound, JobIsSound, AliasSound, Control, CopyIn, SizeIs, At
    <2>10. LeftSound(j) /\ ~ Alias(j) => RewriteSound(j)'
      BY <1>4, <2>1, <2>2, <2>3, <1>1, <1>2
      DEF LeftSound, RewriteSound, JobIsSound, Control, CopySound, CopyIn, SizeIs, At
    <2>11. LeftSound(j) /\ ~ Alias(j) => DestSound(j)'
      BY <1>4, <2>1, <2>2, <2>3, <1>1, <1>2
      DEF LeftSound, DestSound, Whole, OldInPlace, JobIsSound, Control, CopySound, CopyIn, SizeIs, At
    <2> QED
      BY <2>4, <2>5, <2>6, <2>7, <2>8, <2>9, <2>10, <2>11, Parts
  <1>5. CASE Begin(j, "loop", "rewrite") /\ UNCHANGED fs
    <2>1. Becomes(j, [job[j] EXCEPT !.at = "loop", !.stage = "rewrite", !.off = 0])
      BY <1>5, BeginBecomes DEF Step, Stage
    <2>2. KeepsTo(j)
      BY <1>5, <2>1, <1>1, <1>2 DEF KeepsTo, WrittenBy, At, RewriteSound
    <2>3. Control(j)' /\ Buffered(j)' /\ EmptyBuffer(j)'
      BY <1>5, <2>1, <1>1, <1>2 DEF JobIsSound, Control, Buffered, EmptyBuffer, At, RewriteSound
    <2>4. Alias(j) => AliasSound(j)'
      BY <1>5, <2>1, <1>1, <1>2 DEF JobIsSound, AliasSound, Control, DataOf, At, RewriteSound
    <2>5. ~ Alias(j) => SourceSound(j)'
      BY <1>5, <2>1, <1>1, <1>2
      DEF JobIsSound, SourceSound, Control, CopySound, DataOf, Looked, CopyIn, SizeIs, At, RewriteSound
    <2>6. ~ Alias(j) => CopySound(j)'
      BY <1>5, <2>1, <1>1, <1>2
      DEF JobIsSound, CopySound, Control, DataOf, CopyIn, SizeIs, OldOrNew, OldInPlace, Target, Owned, At,
          RewriteSound
    <2>7. LeftSound(j) => TempSound(j)'
      BY <1>5, <2>1, <1>1, <1>2
      DEF LeftSound, TempSound, JobIsSound, AliasSound, Control, CopyIn, SizeIs, At, RewriteSound
    <2>8. LeftSound(j) /\ ~ Alias(j) => RewriteSound(j)'
      BY <1>5, <2>1, <1>1, <1>2 DEF LeftSound, RewriteSound, JobIsSound, Control, CopySound, CopyIn, SizeIs, At
    <2>9. LeftSound(j) /\ ~ Alias(j) => DestSound(j)'
      BY <1>5, <2>1, <1>1, <1>2
      DEF LeftSound, DestSound, Whole, OldInPlace, JobIsSound, Control, CopySound, CopyIn, SizeIs, At, RewriteSound
    <2> QED
      BY <2>2, <2>3, <2>4, <2>5, <2>6, <2>7, <2>8, <2>9, Parts
  <1> QED
    BY <1>3, <1>4, <1>5 DEF CommitAgain, RenameTemp

(* The rename was refused: is there an old file?                           *)
LEMMA LookForOldStep ==
    ASSUME NEW j \in Jobs, Ready(j), LookForOld(j), UNCHANGED cancelled
    PROVE  Kept(j)
  <1> USE DEF Ready, PlanSound, Src, Dst, Tmp, Alias, Safe, Plan, May, Becomes, TypeOK, JobState, Exists
  <1>1. ~ Alias(j) /\ At(j, "replace") /\ UNCHANGED <<fs, plan>>
    BY DEF LookForOld, At, JobIsSound, AliasSound
  <1>2. CASE Go(j, "unlinkOld")
    <2>1. Becomes(j, [job[j] EXCEPT !.at = "unlinkOld"])
      BY <1>2, GoBecomes DEF Step
    <2>2. KeepsTo(j)
      BY <1>2, <2>1, <1>1 DEF KeepsTo, WrittenBy, At
    <2>3. Control(j)' /\ Buffered(j)' /\ EmptyBuffer(j)'
      BY <1>2, <2>1, <1>1 DEF JobIsSound, Control, Buffered, EmptyBuffer, At
    <2>4. Alias(j) => AliasSound(j)'
      BY <1>2, <2>1, <1>1 DEF JobIsSound, AliasSound, Control, DataOf, At
    <2>5. ~ Alias(j) => SourceSound(j)'
      BY <1>2, <2>1, <1>1 DEF JobIsSound, SourceSound, Control, CopySound, DataOf, Looked, CopyIn, SizeIs, At
    <2>6. ~ Alias(j) => CopySound(j)'
      BY <1>2, <2>1, <1>1
      DEF JobIsSound, CopySound, Control, DataOf, CopyIn, SizeIs, OldOrNew, OldInPlace, Target, Owned, At
    <2>7. LeftSound(j) => TempSound(j)'
      BY <1>2, <2>1, <1>1 DEF LeftSound, TempSound, JobIsSound, AliasSound, Control, CopyIn, SizeIs, At
    <2>8. LeftSound(j) /\ ~ Alias(j) => RewriteSound(j)'
      BY <1>2, <2>1, <1>1 DEF LeftSound, RewriteSound, JobIsSound, Control, CopySound, CopyIn, SizeIs, At
    <2>9. LeftSound(j) /\ ~ Alias(j) => DestSound(j)'
      BY <1>2, <2>1, <1>1
      DEF LeftSound, DestSound, Whole, OldInPlace, JobIsSound, Control, CopySound, CopyIn, SizeIs, At
    <2> QED
      BY <2>2, <2>3, <2>4, <2>5, <2>6, <2>7, <2>8, <2>9, Parts
  <1>3. CASE Begin(j, "dropTemp", "inPlace")
    <2>1. Becomes(j, [job[j] EXCEPT !.at = "dropTemp", !.stage = "inPlace", !.off = 0])
      BY <1>3, BeginBecomes DEF Step, Stage
    <2>2. KeepsTo(j)
      BY <1>3, <2>1, <1>1 DEF KeepsTo, WrittenBy, At
    <2>3. Control(j)' /\ Buffered(j)' /\ EmptyBuffer(j)'
      BY <1>3, <2>1, <1>1 DEF JobIsSound, Control, Buffered, EmptyBuffer, At
    <2>4. Alias(j) => AliasSound(j)'
      BY <1>3, <2>1, <1>1 DEF JobIsSound, AliasSound, Control, DataOf, At
    <2>5. ~ Alias(j) => SourceSound(j)'
      BY <1>3, <2>1, <1>1 DEF JobIsSound, SourceSound, Control, CopySound, DataOf, Looked, CopyIn, SizeIs, At
    <2>6. ~ Alias(j) => CopySound(j)'
      BY <1>3, <2>1, <1>1
      DEF JobIsSound, CopySound, Control, DataOf, CopyIn, SizeIs, OldOrNew, OldInPlace, Target, Owned, At
    <2>7. LeftSound(j) => TempSound(j)'
      BY <1>3, <2>1, <1>1 DEF LeftSound, TempSound, JobIsSound, AliasSound, Control, CopyIn, SizeIs, At
    <2>8. LeftSound(j) /\ ~ Alias(j) => RewriteSound(j)'
      BY <1>3, <2>1, <1>1 DEF LeftSound, RewriteSound, JobIsSound, Control, CopySound, CopyIn, SizeIs, At
    <2>9. LeftSound(j) /\ ~ Alias(j) => DestSound(j)'
      BY <1>3, <2>1, <1>1
      DEF LeftSound, DestSound, Whole, OldInPlace, JobIsSound, Control, CopySound, CopyIn, SizeIs, At
    <2> QED
      BY <2>2, <2>3, <2>4, <2>5, <2>6, <2>7, <2>8, <2>9, Parts
  <1> QED
    BY <1>2, <1>3, <1>1 DEF LookForOld

(* It is removed, or stays and is overwritten.                             *)
LEMMA UnlinkOldStep ==
    ASSUME NEW j \in Jobs, Ready(j), UnlinkOld(j), UNCHANGED cancelled
    PROVE  Kept(j)
  <1> USE DEF Ready, PlanSound, Src, Dst, Tmp, Alias, Safe, Plan, May, Becomes, TypeOK, JobState, Exists
  <1>1. ~ Alias(j) /\ At(j, "unlinkOld") /\ plan' = plan
    BY DEF UnlinkOld, At, JobIsSound, AliasSound
  <1>2. CASE Set(Dst(j), Absent) /\ Go(j, "commitAgain")
    <2>1. Becomes(j, [job[j] EXCEPT !.at = "commitAgain"])
      BY <1>2, GoBecomes DEF Step
    <2>2. /\ fs' \in [File -> Seq(File) \cup {Absent}]
          /\ fs'[Dst(j)] = Absent /\ \A g \in File \ {Dst(j)} : fs'[g] = fs[g]
      BY <1>2, <1>1, SetFiles
    <2>3. KeepsTo(j)
      BY <1>2, <2>1, <2>2, <1>1 DEF KeepsTo, WrittenBy, At
    <2>4. Control(j)' /\ Buffered(j)' /\ EmptyBuffer(j)'
      BY <1>2, <2>1, <2>2, <1>1 DEF JobIsSound, Control, Buffered, EmptyBuffer, At
    <2>5. Alias(j) => AliasSound(j)'
      BY <1>2, <2>1, <2>2, <1>1 DEF JobIsSound, AliasSound, Control, DataOf, At
    <2>6. ~ Alias(j) => SourceSound(j)'
      BY <1>2, <2>1, <2>2, <1>1 DEF JobIsSound, SourceSound, Control, CopySound, DataOf, Looked, CopyIn, SizeIs, At
    <2>7. ~ Alias(j) => CopySound(j)'
      BY <1>2, <2>1, <2>2, <1>1
      DEF JobIsSound, CopySound, Control, DataOf, CopyIn, SizeIs, OldOrNew, OldInPlace, Target, Owned, At
    <2>8. LeftSound(j) => TempSound(j)'
      BY <1>2, <2>1, <2>2, <1>1 DEF LeftSound, TempSound, JobIsSound, AliasSound, Control, CopyIn, SizeIs, At
    <2>9. LeftSound(j) /\ ~ Alias(j) => RewriteSound(j)'
      BY <1>2, <2>1, <2>2, <1>1 DEF LeftSound, RewriteSound, JobIsSound, Control, CopySound, CopyIn, SizeIs, At
    <2>10. LeftSound(j) /\ ~ Alias(j) => DestSound(j)'
      BY <1>2, <2>1, <2>2, <1>1
      DEF LeftSound, DestSound, Whole, OldInPlace, JobIsSound, Control, CopySound, CopyIn, SizeIs, At
    <2> QED
      BY <2>3, <2>4, <2>5, <2>6, <2>7, <2>8, <2>9, <2>10, Parts
  <1>3. CASE Begin(j, "dropTemp", "inPlace") /\ UNCHANGED fs
    <2>1. Becomes(j, [job[j] EXCEPT !.at = "dropTemp", !.stage = "inPlace", !.off = 0])
      BY <1>3, BeginBecomes DEF Step, Stage
    <2>2. KeepsTo(j)
      BY <1>3, <2>1, <1>1 DEF KeepsTo, WrittenBy, At
    <2>3. Control(j)' /\ Buffered(j)' /\ EmptyBuffer(j)'
      BY <1>3, <2>1, <1>1 DEF JobIsSound, Control, Buffered, EmptyBuffer, At
    <2>4. Alias(j) => AliasSound(j)'
      BY <1>3, <2>1, <1>1 DEF JobIsSound, AliasSound, Control, DataOf, At
    <2>5. ~ Alias(j) => SourceSound(j)'
      BY <1>3, <2>1, <1>1 DEF JobIsSound, SourceSound, Control, CopySound, DataOf, Looked, CopyIn, SizeIs, At
    <2>6. ~ Alias(j) => CopySound(j)'
      BY <1>3, <2>1, <1>1
      DEF JobIsSound, CopySound, Control, DataOf, CopyIn, SizeIs, OldOrNew, OldInPlace, Target, Owned, At
    <2>7. LeftSound(j) => TempSound(j)'
      BY <1>3, <2>1, <1>1 DEF LeftSound, TempSound, JobIsSound, AliasSound, Control, CopyIn, SizeIs, At
    <2>8. LeftSound(j) /\ ~ Alias(j) => RewriteSound(j)'
      BY <1>3, <2>1, <1>1 DEF LeftSound, RewriteSound, JobIsSound, Control, CopySound, CopyIn, SizeIs, At
    <2>9. LeftSound(j) /\ ~ Alias(j) => DestSound(j)'
      BY <1>3, <2>1, <1>1
      DEF LeftSound, DestSound, Whole, OldInPlace, JobIsSound, Control, CopySound, CopyIn, SizeIs, At
    <2> QED
      BY <2>2, <2>3, <2>4, <2>5, <2>6, <2>7, <2>8, <2>9, Parts
  <1> QED
    BY <1>2, <1>3, <1>1 DEF UnlinkOld

(* The temporary file is not needed any more.                              *)
LEMMA DropTempStep ==
    ASSUME NEW j \in Jobs, Ready(j), DropTemp(j), UNCHANGED cancelled
    PROVE  Kept(j)
  <1> USE DEF Ready, PlanSound, Src, Dst, Tmp, Alias, Safe, Plan, May, Becomes, TypeOK, JobState, Exists
  <1>1. ~ Alias(j) /\ At(j, "dropTemp") /\ plan' = plan
    BY DEF DropTemp, At, JobIsSound, AliasSound
  <1>2. Becomes(j, [job[j] EXCEPT !.at = IF job[j].stage = "rewrite" THEN "copied" ELSE "loop"])
    <2>1. (IF job[j].stage = "rewrite" THEN "copied" ELSE "loop") \in Step
      BY DEF Step
    <2> QED
      BY <2>1, GoBecomes DEF DropTemp
  <1>3. CASE Set(Tmp(j), Absent)
    <2>1. /\ fs' \in [File -> Seq(File) \cup {Absent}]
          /\ fs'[Tmp(j)] = Absent /\ \A g \in File \ {Tmp(j)} : fs'[g] = fs[g]
      BY <1>3, <1>1, SetFiles
    <2>2. KeepsTo(j)
      BY <1>1, <1>2, <2>1 DEF KeepsTo, WrittenBy, At
    <2>3. Control(j)' /\ Buffered(j)' /\ EmptyBuffer(j)'
      BY <1>1, <1>2, <2>1 DEF JobIsSound, Control, Buffered, EmptyBuffer, At
    <2>4. Alias(j) => AliasSound(j)'
      BY <1>1, <1>2, <2>1 DEF JobIsSound, AliasSound, Control, DataOf, At
    <2>5. ~ Alias(j) => SourceSound(j)'
      BY <1>1, <1>2, <2>1 DEF JobIsSound, SourceSound, Control, CopySound, DataOf, Looked, CopyIn, SizeIs, At
    <2>6. ~ Alias(j) => CopySound(j)'
      BY <1>1, <1>2, <2>1
      DEF JobIsSound, CopySound, Control, DataOf, CopyIn, SizeIs, OldOrNew, OldInPlace, Target, Owned, At
    <2>7. LeftSound(j) => TempSound(j)'
      BY <1>1, <1>2, <2>1 DEF LeftSound, TempSound, JobIsSound, AliasSound, Control, CopyIn, SizeIs, At
    <2>8. LeftSound(j) /\ ~ Alias(j) => RewriteSound(j)'
      BY <1>1, <1>2, <2>1 DEF LeftSound, RewriteSound, JobIsSound, Control, CopySound, CopyIn, SizeIs, At
    <2>9. LeftSound(j) /\ ~ Alias(j) => DestSound(j)'
      BY <1>1, <1>2, <2>1
      DEF LeftSound, DestSound, Whole, OldInPlace, JobIsSound, Control, CopySound, CopyIn, SizeIs, At
    <2> QED
      BY <2>2, <2>3, <2>4, <2>5, <2>6, <2>7, <2>8, <2>9, Parts
  <1>4. CASE May(j, "remove") /\ UNCHANGED fs
    <2>1. KeepsTo(j)
      BY <1>4, <1>1, <1>2 DEF KeepsTo, WrittenBy, At
    <2>2. Control(j)' /\ Buffered(j)' /\ EmptyBuffer(j)'
      BY <1>4, <1>1, <1>2 DEF JobIsSound, Control, Buffered, EmptyBuffer, At
    <2>3. Alias(j) => AliasSound(j)'
      BY <1>4, <1>1, <1>2 DEF JobIsSound, AliasSound, Control, DataOf, At
    <2>4. ~ Alias(j) => SourceSound(j)'
      BY <1>4, <1>1, <1>2 DEF JobIsSound, SourceSound, Control, CopySound, DataOf, Looked, CopyIn, SizeIs, At
    <2>5. ~ Alias(j) => CopySound(j)'
      BY <1>4, <1>1, <1>2
      DEF JobIsSound, CopySound, Control, DataOf, CopyIn, SizeIs, OldOrNew, OldInPlace, Target, Owned, At
    <2>6. LeftSound(j) => TempSound(j)'
      BY <1>4, <1>1, <1>2 DEF LeftSound, TempSound, JobIsSound, AliasSound, Control, CopyIn, SizeIs, At
    <2>7. LeftSound(j) /\ ~ Alias(j) => RewriteSound(j)'
      BY <1>4, <1>1, <1>2 DEF LeftSound, RewriteSound, JobIsSound, Control, CopySound, CopyIn, SizeIs, At
    <2>8. LeftSound(j) /\ ~ Alias(j) => DestSound(j)'
      BY <1>4, <1>1, <1>2
      DEF LeftSound, DestSound, Whole, OldInPlace, JobIsSound, Control, CopySound, CopyIn, SizeIs, At
    <2> QED
      BY <2>1, <2>2, <2>3, <2>4, <2>5, <2>6, <2>7, <2>8, Parts
  <1> QED
    BY <1>3, <1>4, <1>1 DEF DropTemp

(* The whole file is read into memory, or the transfer gives up.           *)
LEMMA WholeStep ==
    ASSUME NEW j \in Jobs, Ready(j), WholeProbe(j) \/ WholeLoop(j) \/ CollectFails(j) \/ WholeCancelled(j),
           UNCHANGED cancelled
    PROVE  Kept(j)
  <1> USE DEF Ready, PlanSound, Src, Dst, Tmp, Alias, Safe, Plan, May, Becomes, TypeOK, JobState, Exists
  <1>1. UNCHANGED <<fs, plan>> /\ (At(j, "wholeProbe") \/ ~ Alias(j))
    BY DEF WholeProbe, WholeLoop, CollectFails, WholeCancelled, At, JobIsSound, AliasSound
  <1>2. CASE Stop(j, "Failed") /\ (At(j, "wholeProbe") \/ (At(j, "block") /\ job[j].stage = "whole"))
    BY <1>2, <1>1, StopStep DEF At, JobIsSound, Control
  <1>3. CASE Stop(j, "Cancelled") /\ job[j].stage = "whole" /\ (At(j, "loop") \/ At(j, "wholeWrite"))
    BY <1>3, <1>1, StopStep DEF At, JobIsSound, Control
  <1>4. CASE At(j, "wholeProbe") /\ ~ Alias(j) /\ Go(j, "loop")
    <2>1. Becomes(j, [job[j] EXCEPT !.at = "loop"])
      BY <1>4, GoBecomes DEF Step
    <2>2. KeepsTo(j)
      BY <1>4, <2>1, <1>1 DEF KeepsTo, WrittenBy, At
    <2>3. Control(j)' /\ Buffered(j)' /\ EmptyBuffer(j)'
      BY <1>4, <2>1, <1>1 DEF JobIsSound, Control, Buffered, EmptyBuffer, At
    <2>4. Alias(j) => AliasSound(j)'
      BY <1>4, <2>1, <1>1 DEF JobIsSound, AliasSound, Control, DataOf, At
    <2>5. ~ Alias(j) => SourceSound(j)'
      BY <1>4, <2>1, <1>1 DEF JobIsSound, SourceSound, Control, CopySound, DataOf, Looked, CopyIn, SizeIs, At
    <2>6. ~ Alias(j) => CopySound(j)'
      BY <1>4, <2>1, <1>1
      DEF JobIsSound, CopySound, Control, DataOf, CopyIn, SizeIs, OldOrNew, OldInPlace, Target, Owned, At
    <2>7. LeftSound(j) => TempSound(j)'
      BY <1>4, <2>1, <1>1 DEF LeftSound, TempSound, JobIsSound, AliasSound, Control, CopyIn, SizeIs, At
    <2>8. LeftSound(j) /\ ~ Alias(j) => RewriteSound(j)'
      BY <1>4, <2>1, <1>1 DEF LeftSound, RewriteSound, JobIsSound, Control, CopySound, CopyIn, SizeIs, At
    <2>9. LeftSound(j) /\ ~ Alias(j) => DestSound(j)'
      BY <1>4, <2>1, <1>1
      DEF LeftSound, DestSound, Whole, OldInPlace, JobIsSound, Control, CopySound, CopyIn, SizeIs, At
    <2> QED
      BY <2>2, <2>3, <2>4, <2>5, <2>6, <2>7, <2>8, <2>9, Parts
  <1>5. CASE At(j, "loop") /\ job[j].stage = "whole" /\ job[j].off = job[j].size /\ Go(j, "wholeWrite")
    <2>1. Becomes(j, [job[j] EXCEPT !.at = "wholeWrite"])
      BY <1>5, GoBecomes DEF Step
    <2>2. KeepsTo(j)
      BY <1>5, <2>1, <1>1 DEF KeepsTo, WrittenBy, At
    <2>3. Control(j)' /\ Buffered(j)' /\ EmptyBuffer(j)'
      BY <1>5, <2>1, <1>1 DEF JobIsSound, Control, Buffered, EmptyBuffer, At
    <2>4. Alias(j) => AliasSound(j)'
      BY <1>5, <2>1, <1>1 DEF JobIsSound, AliasSound, Control, DataOf, At
    <2>5. ~ Alias(j) => SourceSound(j)'
      BY <1>5, <2>1, <1>1 DEF JobIsSound, SourceSound, Control, CopySound, DataOf, Looked, CopyIn, SizeIs, At
    <2>6. ~ Alias(j) => CopySound(j)'
      BY <1>5, <2>1, <1>1
      DEF JobIsSound, CopySound, Control, DataOf, CopyIn, SizeIs, OldOrNew, OldInPlace, Target, Owned, At
    <2>7. LeftSound(j) => TempSound(j)'
      BY <1>5, <2>1, <1>1 DEF LeftSound, TempSound, JobIsSound, AliasSound, Control, CopyIn, SizeIs, At
    <2>8. LeftSound(j) /\ ~ Alias(j) => RewriteSound(j)'
      BY <1>5, <2>1, <1>1 DEF LeftSound, RewriteSound, JobIsSound, Control, CopySound, CopyIn, SizeIs, At
    <2>9. LeftSound(j) /\ ~ Alias(j) => DestSound(j)'
      BY <1>5, <2>1, <1>1
      DEF LeftSound, DestSound, Whole, OldInPlace, JobIsSound, Control, CopySound, CopyIn, SizeIs, At
    <2> QED
      BY <2>2, <2>3, <2>4, <2>5, <2>6, <2>7, <2>8, <2>9, Parts
  <1>6. CASE At(j, "loop") /\ job[j].stage = "whole" /\ job[j].off # job[j].size /\ Go(j, "block")
    <2>1. Becomes(j, [job[j] EXCEPT !.at = "block"])
      BY <1>6, GoBecomes DEF Step
    <2>2. KeepsTo(j)
      BY <1>6, <2>1, <1>1 DEF KeepsTo, WrittenBy, At
    <2>3. Control(j)' /\ Buffered(j)' /\ EmptyBuffer(j)'
      BY <1>6, <2>1, <1>1 DEF JobIsSound, Control, Buffered, EmptyBuffer, At
    <2>4. Alias(j) => AliasSound(j)'
      BY <1>6, <2>1, <1>1 DEF JobIsSound, AliasSound, Control, DataOf, At
    <2>5. ~ Alias(j) => SourceSound(j)'
      BY <1>6, <2>1, <1>1 DEF JobIsSound, SourceSound, Control, CopySound, DataOf, Looked, CopyIn, SizeIs, At
    <2>6. ~ Alias(j) => CopySound(j)'
      BY <1>6, <2>1, <1>1
      DEF JobIsSound, CopySound, Control, DataOf, CopyIn, SizeIs, OldOrNew, OldInPlace, Target, Owned, At
    <2>7. LeftSound(j) => TempSound(j)'
      BY <1>6, <2>1, <1>1 DEF LeftSound, TempSound, JobIsSound, AliasSound, Control, CopyIn, SizeIs, At
    <2>8. LeftSound(j) /\ ~ Alias(j) => RewriteSound(j)'
      BY <1>6, <2>1, <1>1 DEF LeftSound, RewriteSound, JobIsSound, Control, CopySound, CopyIn, SizeIs, At
    <2>9. LeftSound(j) /\ ~ Alias(j) => DestSound(j)'
      BY <1>6, <2>1, <1>1
      DEF LeftSound, DestSound, Whole, OldInPlace, JobIsSound, Control, CopySound, CopyIn, SizeIs, At
    <2> QED
      BY <2>2, <2>3, <2>4, <2>5, <2>6, <2>7, <2>8, <2>9, Parts
  <1>7. CASE At(j, "wholeWrite") /\ Go(j, "wholePut")
    <2>1. Becomes(j, [job[j] EXCEPT !.at = "wholePut"])
      BY <1>7, GoBecomes DEF Step
    <2>2. KeepsTo(j)
      BY <1>7, <2>1, <1>1 DEF KeepsTo, WrittenBy, At
    <2>3. Control(j)' /\ Buffered(j)' /\ EmptyBuffer(j)'
      BY <1>7, <2>1, <1>1 DEF JobIsSound, Control, Buffered, EmptyBuffer, At
    <2>4. Alias(j) => AliasSound(j)'
      BY <1>7, <2>1, <1>1 DEF JobIsSound, AliasSound, Control, DataOf, At
    <2>5. ~ Alias(j) => SourceSound(j)'
      BY <1>7, <2>1, <1>1 DEF JobIsSound, SourceSound, Control, CopySound, DataOf, Looked, CopyIn, SizeIs, At
    <2>6. ~ Alias(j) => CopySound(j)'
      BY <1>7, <2>1, <1>1
      DEF JobIsSound, CopySound, Control, DataOf, CopyIn, SizeIs, OldOrNew, OldInPlace, Target, Owned, At
    <2>7. LeftSound(j) => TempSound(j)'
      BY <1>7, <2>1, <1>1 DEF LeftSound, TempSound, JobIsSound, AliasSound, Control, CopyIn, SizeIs, At
    <2>8. LeftSound(j) /\ ~ Alias(j) => RewriteSound(j)'
      BY <1>7, <2>1, <1>1 DEF LeftSound, RewriteSound, JobIsSound, Control, CopySound, CopyIn, SizeIs, At
    <2>9. LeftSound(j) /\ ~ Alias(j) => DestSound(j)'
      BY <1>7, <2>1, <1>1
      DEF LeftSound, DestSound, Whole, OldInPlace, JobIsSound, Control, CopySound, CopyIn, SizeIs, At
    <2> QED
      BY <2>2, <2>3, <2>4, <2>5, <2>6, <2>7, <2>8, <2>9, Parts
  <1> QED
    BY <1>2, <1>3, <1>4, <1>5, <1>6, <1>7, <1>1
    DEF WholeProbe, WholeLoop, CollectFails, WholeCancelled, At, JobIsSound, Control

(* Two pieces of the same data, one after the other.                      *)
LEMMA Joined ==
    ASSUME NEW a \in Seq(File), NEW b \in Seq(File), NEW d,
           \A i \in 1..Len(a) : a[i] = d, \A i \in 1..Len(b) : b[i] = d
    PROVE  /\ a \o b \in Seq(File) /\ Len(a \o b) = Len(a) + Len(b)
           /\ \A i \in 1..(Len(a) + Len(b)) : (a \o b)[i] = d
  <1>1. a \o b \in Seq(File) /\ Len(a \o b) = Len(a) + Len(b)
    OBVIOUS
  <1>2. ASSUME NEW i \in 1..(Len(a) + Len(b)) PROVE (a \o b)[i] = d
    <2>1. CASE i <= Len(a)
      BY <2>1
    <2>2. CASE i > Len(a)
      <3>1. i - Len(a) \in 1..Len(b)
        BY <2>2
      <3>2. (a \o b)[i] = b[i - Len(a)]
        BY <2>2
      <3> QED
        BY <3>1, <3>2
    <2> QED
      BY <2>1, <2>2
  <1> QED
    BY <1>1, <1>2

(* What collecting a block makes of the job.                               *)
LEMMA CollectBecomes ==
    ASSUME TypeOK, NEW j \in Jobs, NEW blocks,
           job' = [job EXCEPT ![j].at = "loop", ![j].off = @ + Len(blocks), ![j].buf = @ \o blocks],
           job[j].off + Len(blocks) \in Nat, job[j].buf \o blocks \in Seq(File)
    PROVE  Becomes(j, [job[j] EXCEPT !.at = "loop", !.off = job[j].off + Len(blocks), !.buf = job[j].buf \o blocks])
  <1> DEFINE r == [job[j] EXCEPT !.at = "loop", !.off = job[j].off + Len(blocks), !.buf = job[j].buf \o blocks]
  <1>1. "loop" \in Step
    BY DEF Step
  <1>2. r \in JobState
    BY <1>1 DEF TypeOK, JobState
  <1>3. job' = [job EXCEPT ![j] = r]
    BY DEF TypeOK, JobState
  <1> QED
    BY <1>2, <1>3 DEF Becomes, TypeOK

(* What is read is appended to the buffer.                                 *)
LEMMA CollectStep ==
    ASSUME NEW j \in Jobs, Ready(j), CollectBlock(j), UNCHANGED cancelled
    PROVE  Kept(j)
  <1> USE DEF Ready, PlanSound, Src, Dst, Tmp, Alias, Safe, Plan, May, Becomes, TypeOK, JobState, Exists
  <1>1. ~ Alias(j) /\ At(j, "block") /\ job[j].stage = "whole" /\ UNCHANGED <<fs, plan>>
    BY DEF CollectBlock, At, JobIsSound, AliasSound
  <1>2. PICK blocks \in ReadBlocks(j) :
          job' = [job EXCEPT ![j].at = "loop", ![j].off = @ + Len(blocks), ![j].buf = @ \o blocks]
    BY DEF CollectBlock
  <1> DEFINE n   == job[j].off + Len(blocks)
             buf == job[j].buf \o blocks
  <1>3. /\ blocks \in Seq(File) /\ Len(blocks) \in Nat \ {0} /\ \A i \in 1..Len(blocks) : blocks[i] = Src(j)
        /\ n <= job[j].size /\ Exists(Src(j))
    BY <1>1, BlocksRead
  <1>4. /\ job[j].off \in Nat /\ job[j].buf \in Seq(File) /\ Len(job[j].buf) = job[j].off
        /\ \A i \in 1..job[j].off : job[j].buf[i] = Src(j)
    BY <1>1 DEF JobIsSound, Buffered, TypeOK, JobState
  <1>5. buf \in Seq(File) /\ n \in Nat \ {0} /\ Len(buf) = n /\ \A i \in 1..n : buf[i] = Src(j)
    <2> DEFINE a == job[j].buf
               d == Src(j)
    <2>1. /\ a \in Seq(File) /\ \A i \in 1..Len(a) : a[i] = d
          /\ \A i \in 1..Len(blocks) : blocks[i] = d
      BY <1>3, <1>4
    <2>2. /\ a \o blocks \in Seq(File) /\ Len(a \o blocks) = Len(a) + Len(blocks)
          /\ \A i \in 1..(Len(a) + Len(blocks)) : (a \o blocks)[i] = d
      <3> HIDE DEF a, d
      <3> QED
        BY <1>3, <2>1, Joined
    <2> QED
      BY <1>3, <1>4, <2>2
  <1> HIDE DEF n, buf
  <1>6. Becomes(j, [job[j] EXCEPT !.at = "loop", !.off = n, !.buf = buf])
    <2>1. "loop" \in Step
      BY DEF Step
    <2> QED
      BY <1>2, <1>5, <2>1, CollectBecomes DEF n, buf
  <1>7. KeepsTo(j)
    BY <1>1, <1>3, <1>5, <1>6 DEF KeepsTo, WrittenBy, At
  <1>8. Control(j)' /\ Buffered(j)' /\ EmptyBuffer(j)'
    BY <1>1, <1>3, <1>5, <1>6 DEF JobIsSound, Control, Buffered, EmptyBuffer, At
  <1>9. Alias(j) => AliasSound(j)'
    BY <1>1, <1>3, <1>5, <1>6 DEF JobIsSound, AliasSound, Control, DataOf, At
  <1>10. ~ Alias(j) => SourceSound(j)'
    BY <1>1, <1>3, <1>5, <1>6 DEF JobIsSound, SourceSound, Control, CopySound, DataOf, Looked, CopyIn, SizeIs, At
  <1>11. ~ Alias(j) => CopySound(j)'
    BY <1>1, <1>3, <1>5, <1>6
    DEF JobIsSound, CopySound, Control, DataOf, CopyIn, SizeIs, OldOrNew, OldInPlace, Target, Owned, At
  <1>12. LeftSound(j) => TempSound(j)'
    BY <1>1, <1>3, <1>5, <1>6 DEF LeftSound, TempSound, JobIsSound, AliasSound, Control, CopyIn, SizeIs, At
  <1>13. LeftSound(j) /\ ~ Alias(j) => RewriteSound(j)'
    BY <1>1, <1>3, <1>5, <1>6 DEF LeftSound, RewriteSound, JobIsSound, Control, CopySound, CopyIn, SizeIs, At
  <1>14. LeftSound(j) /\ ~ Alias(j) => DestSound(j)'
    BY <1>1, <1>3, <1>5, <1>6
    DEF LeftSound, DestSound, Whole, OldInPlace, JobIsSound, Control, CopySound, CopyIn, SizeIs, At
  <1> QED
    BY <1>7, <1>8, <1>9, <1>10, <1>11, <1>12, <1>13, <1>14, Parts

(* One write of it all, which may be cut short.                            *)
LEMMA WholePutStep ==
    ASSUME NEW j \in Jobs, Ready(j), WholePut(j), UNCHANGED cancelled
    PROVE  Kept(j)
  <1> USE DEF Ready, PlanSound, Src, Dst, Tmp, Alias, Safe, Plan, May, Becomes, TypeOK, JobState, Exists
  <1>1. ~ Alias(j) /\ At(j, "wholePut") /\ job[j].stage = "whole" /\ plan' = plan
    BY DEF WholePut, At, JobIsSound, AliasSound, Control
  <1>2. job[j].buf \in Seq(File) /\ \A i \in 1..Len(job[j].buf) : job[j].buf[i] = Src(j)
    BY <1>1 DEF JobIsSound, Buffered, TypeOK, JobState
  <1>3. job[j].size > 0 => Exists(Src(j))
    BY <1>1 DEF At, JobIsSound, SourceSound
  <1>4. CASE Set(Dst(j), job[j].buf) /\ Go(j, "verify")
    <2>1. Becomes(j, [job[j] EXCEPT !.at = "verify"])
      BY <1>4, GoBecomes DEF Step
    <2>2. /\ fs' \in [File -> Seq(File) \cup {Absent}]
          /\ fs'[Dst(j)] = job[j].buf /\ \A g \in File \ {Dst(j)} : fs'[g] = fs[g]
      BY <1>4, <1>1, <1>2, <1>3, SetFiles
    <2>3. DataOf(Dst(j), Src(j))'
      BY <1>4, <2>1, <2>2, <1>1, <1>2, <1>3 DEF DataOf, Becomes
    <2>4. KeepsTo(j)
      BY <1>4, <2>1, <2>2, <2>3, <1>1, <1>2, <1>3 DEF KeepsTo, WrittenBy, At, Target, Owned, Stage
    <2>5. Control(j)' /\ Buffered(j)' /\ EmptyBuffer(j)'
      BY <1>4, <2>1, <2>2, <2>3, <1>1, <1>2, <1>3
      DEF JobIsSound, Control, Buffered, EmptyBuffer, At, Target, Owned, Stage
    <2>6. Alias(j) => AliasSound(j)'
      BY <1>4, <2>1, <2>2, <2>3, <1>1, <1>2, <1>3
      DEF JobIsSound, AliasSound, Control, DataOf, At, Target, Owned, Stage
    <2>7. ~ Alias(j) => SourceSound(j)'
      BY <1>4, <2>1, <2>2, <2>3, <1>1, <1>2, <1>3
      DEF JobIsSound, SourceSound, Control, CopySound, DataOf, Looked, CopyIn, SizeIs, At, Target, Owned, Stage
    <2>8. ~ Alias(j) => CopySound(j)'
      BY <1>4, <2>1, <2>2, <2>3, <1>1, <1>2, <1>3
      DEF JobIsSound, CopySound, Control, DataOf, CopyIn, SizeIs, OldOrNew, OldInPlace, Target, Owned, At, Stage
    <2>9. LeftSound(j) => TempSound(j)'
      BY <1>4, <2>1, <2>2, <2>3, <1>1, <1>2, <1>3
      DEF LeftSound, TempSound, JobIsSound, AliasSound, Control, CopyIn, SizeIs, At, Target, Owned, Stage
    <2>10. LeftSound(j) /\ ~ Alias(j) => RewriteSound(j)'
      BY <1>4, <2>1, <2>2, <2>3, <1>1, <1>2, <1>3
      DEF LeftSound, RewriteSound, JobIsSound, Control, CopySound, CopyIn, SizeIs, At, Target, Owned, Stage
    <2>11. LeftSound(j) /\ ~ Alias(j) => DestSound(j)'
      BY <1>4, <2>1, <2>2, <2>3, <1>1, <1>2, <1>3
      DEF LeftSound, DestSound, Whole, OldInPlace, JobIsSound, Control, CopySound, CopyIn, SizeIs, At, Target,
          Owned, Stage
    <2> QED
      BY <2>4, <2>5, <2>6, <2>7, <2>8, <2>9, <2>10, <2>11, Parts
  <1>5. CASE job[j].buf # <<>> /\ Set(Dst(j), Tail(job[j].buf)) /\ Go(j, "verify")
    <2> DEFINE rest == Tail(job[j].buf)
    <2>1. Becomes(j, [job[j] EXCEPT !.at = "verify"])
      BY <1>5, GoBecomes DEF Step
    <2>2. rest \in Seq(File) /\ Len(rest) = Len(job[j].buf) - 1 /\ \A i \in 1..Len(rest) : rest[i] = job[j].buf[i + 1]
      BY <1>5, <1>1, <1>2, <1>3
    <2>3. \A i \in 1..Len(rest) : rest[i] = Src(j)
      <3>1. Len(job[j].buf) \in Nat /\ \A i \in 1..Len(rest) : i + 1 \in 1..Len(job[j].buf)
        BY <1>1, <1>2, <1>3, <2>2
      <3> QED
        BY <1>1, <1>2, <1>3, <2>2, <3>1
    <2> HIDE DEF rest
    <2>4. /\ fs' \in [File -> Seq(File) \cup {Absent}]
          /\ fs'[Dst(j)] = rest /\ \A g \in File \ {Dst(j)} : fs'[g] = fs[g]
      BY <1>5, <1>1, <1>2, <1>3, <2>2, SetFiles DEF rest
    <2>5. DataOf(Dst(j), Src(j))'
      BY <1>1, <1>2, <1>3, <2>1, <2>3, <2>4 DEF DataOf, Becomes
    <2>6. KeepsTo(j)
      BY <1>1, <1>2, <1>3, <2>1, <2>3, <2>4, <2>5 DEF KeepsTo, WrittenBy, At, Target, Owned, Stage
    <2>7. Control(j)' /\ Buffered(j)' /\ EmptyBuffer(j)'
      BY <1>1, <1>2, <1>3, <2>1, <2>3, <2>4, <2>5
      DEF JobIsSound, Control, Buffered, EmptyBuffer, At, Target, Owned, Stage
    <2>8. Alias(j) => AliasSound(j)'
      BY <1>1, <1>2, <1>3, <2>1, <2>3, <2>4, <2>5
      DEF JobIsSound, AliasSound, Control, DataOf, At, Target, Owned, Stage
    <2>9. ~ Alias(j) => SourceSound(j)'
      BY <1>1, <1>2, <1>3, <2>1, <2>3, <2>4, <2>5
      DEF JobIsSound, SourceSound, Control, CopySound, DataOf, Looked, CopyIn, SizeIs, At, Target, Owned, Stage
    <2>10. ~ Alias(j) => CopySound(j)'
      BY <1>1, <1>2, <1>3, <2>1, <2>3, <2>4, <2>5
      DEF JobIsSound, CopySound, Control, DataOf, CopyIn, SizeIs, OldOrNew, OldInPlace, Target, Owned, At, Stage
    <2>11. LeftSound(j) => TempSound(j)'
      BY <1>1, <1>2, <1>3, <2>1, <2>3, <2>4, <2>5
      DEF LeftSound, TempSound, JobIsSound, AliasSound, Control, CopyIn, SizeIs, At, Target, Owned, Stage
    <2>12. LeftSound(j) /\ ~ Alias(j) => RewriteSound(j)'
      BY <1>1, <1>2, <1>3, <2>1, <2>3, <2>4, <2>5
      DEF LeftSound, RewriteSound, JobIsSound, Control, CopySound, CopyIn, SizeIs, At, Target, Owned, Stage
    <2>13. LeftSound(j) /\ ~ Alias(j) => DestSound(j)'
      BY <1>1, <1>2, <1>3, <2>1, <2>3, <2>4, <2>5
      DEF LeftSound, DestSound, Whole, OldInPlace, JobIsSound, Control, CopySound, CopyIn, SizeIs, At, Target,
          Owned, Stage
    <2> QED
      BY <2>6, <2>7, <2>8, <2>9, <2>10, <2>11, <2>12, <2>13, Parts
  <1>6. CASE Stop(j, "Failed") /\ UNCHANGED fs
    BY <1>6, <1>1, <1>2, <1>3, StopStep DEF At
  <1>7. CASE Set(Dst(j), <<>>) /\ Stop(j, "Failed")
    <2>1. Becomes(j, [job[j] EXCEPT !.at = "end", !.result = "Failed"])
      BY <1>7, StopBecomes DEF Result
    <2>2. /\ fs' \in [File -> Seq(File) \cup {Absent}]
          /\ fs'[Dst(j)] = <<>> /\ \A g \in File \ {Dst(j)} : fs'[g] = fs[g]
      BY <1>7, <1>1, <1>2, <1>3, SetFiles, EmptyFile
    <2>3. KeepsTo(j)
      BY <1>7, <2>1, <2>2, <1>1, <1>2, <1>3 DEF KeepsTo, WrittenBy, At, Target, Owned, Stage
    <2>4. Control(j)' /\ Buffered(j)' /\ EmptyBuffer(j)'
      BY <1>7, <2>1, <2>2, <1>1, <1>2, <1>3 DEF JobIsSound, Control, Buffered, EmptyBuffer, At, Target, Owned, Stage
    <2>5. Alias(j) => AliasSound(j)'
      BY <1>7, <2>1, <2>2, <1>1, <1>2, <1>3 DEF JobIsSound, AliasSound, Control, DataOf, At, Target, Owned, Stage
    <2>6. ~ Alias(j) => SourceSound(j)'
      BY <1>7, <2>1, <2>2, <1>1, <1>2, <1>3
      DEF JobIsSound, SourceSound, Control, CopySound, DataOf, Looked, CopyIn, SizeIs, At, Target, Owned, Stage
    <2>7. ~ Alias(j) => CopySound(j)'
      BY <1>7, <2>1, <2>2, <1>1, <1>2, <1>3
      DEF JobIsSound, CopySound, Control, DataOf, CopyIn, SizeIs, OldOrNew, OldInPlace, Target, Owned, At, Stage
    <2>8. LeftSound(j) => TempSound(j)'
      BY <1>7, <2>1, <2>2, <1>1, <1>2, <1>3
      DEF LeftSound, TempSound, JobIsSound, AliasSound, Control, CopyIn, SizeIs, At, Target, Owned, Stage
    <2>9. LeftSound(j) /\ ~ Alias(j) => RewriteSound(j)'
      BY <1>7, <2>1, <2>2, <1>1, <1>2, <1>3
      DEF LeftSound, RewriteSound, JobIsSound, Control, CopySound, CopyIn, SizeIs, At, Target, Owned, Stage
    <2>10. LeftSound(j) /\ ~ Alias(j) => DestSound(j)'
      BY <1>7, <2>1, <2>2, <1>1, <1>2, <1>3
      DEF LeftSound, DestSound, Whole, OldInPlace, JobIsSound, Control, CopySound, CopyIn, SizeIs, At, Target,
          Owned, Stage
    <2> QED
      BY <2>3, <2>4, <2>5, <2>6, <2>7, <2>8, <2>9, <2>10, Parts
  <1> QED
    BY <1>4, <1>5, <1>6, <1>7, <1>1, <1>2, <1>3 DEF WholePut

(* The copy is complete; a move checks again before it deletes.            *)
LEMMA CopiedStep ==
    ASSUME NEW j \in Jobs, Ready(j), Copied(j) \/ MoveStat(j), UNCHANGED cancelled
    PROVE  Kept(j)
  <1> USE DEF Ready, PlanSound, Src, Dst, Tmp, Alias, Safe, Plan, May, Becomes, TypeOK, JobState, Exists
  <1>1. ~ Alias(j) /\ UNCHANGED <<fs, plan>> /\ (At(j, "copied") \/ At(j, "moveStat"))
    BY DEF Copied, MoveStat, At, JobIsSound, AliasSound
  <1>2. CopyIn(j, Dst(j))
    BY <1>1 DEF At, JobIsSound, CopySound
  <1>3. CASE At(j, "copied") /\ ~ plan[j].isMove /\ Stop(j, "Completed")
    <2>1. Becomes(j, [job[j] EXCEPT !.at = "end", !.result = "Completed"])
      BY <1>3, StopBecomes DEF Result
    <2>2. KeepsTo(j)
      BY <1>3, <2>1, <1>1, <1>2 DEF KeepsTo, WrittenBy, At
    <2>3. Control(j)' /\ Buffered(j)' /\ EmptyBuffer(j)'
      BY <1>3, <2>1, <1>1, <1>2 DEF JobIsSound, Control, Buffered, EmptyBuffer, At
    <2>4. Alias(j) => AliasSound(j)'
      BY <1>3, <2>1, <1>1, <1>2 DEF JobIsSound, AliasSound, Control, DataOf, At
    <2>5. ~ Alias(j) => SourceSound(j)'
      BY <1>3, <2>1, <1>1, <1>2 DEF JobIsSound, SourceSound, Control, CopySound, DataOf, Looked, CopyIn, SizeIs, At
    <2>6. ~ Alias(j) => CopySound(j)'
      BY <1>3, <2>1, <1>1, <1>2
      DEF JobIsSound, CopySound, Control, DataOf, CopyIn, SizeIs, OldOrNew, OldInPlace, Target, Owned, At
    <2>7. LeftSound(j) => TempSound(j)'
      BY <1>3, <2>1, <1>1, <1>2 DEF LeftSound, TempSound, JobIsSound, AliasSound, Control, CopyIn, SizeIs, At
    <2>8. LeftSound(j) /\ ~ Alias(j) => RewriteSound(j)'
      BY <1>3, <2>1, <1>1, <1>2 DEF LeftSound, RewriteSound, JobIsSound, Control, CopySound, CopyIn, SizeIs, At
    <2>9. LeftSound(j) /\ ~ Alias(j) => DestSound(j)'
      BY <1>3, <2>1, <1>1, <1>2
      DEF LeftSound, DestSound, Whole, OldInPlace, JobIsSound, Control, CopySound, CopyIn, SizeIs, At
    <2> QED
      BY <2>2, <2>3, <2>4, <2>5, <2>6, <2>7, <2>8, <2>9, Parts
  <1>4. CASE Stop(j, "Cancelled") /\ At(j, "copied")
    BY <1>4, <1>1, <1>2, StopStep DEF At
  <1>5. CASE Stop(j, "Failed") /\ At(j, "moveStat")
    BY <1>5, <1>1, <1>2, StopStep DEF At
  <1>6. CASE At(j, "copied") /\ plan[j].isMove /\ Go(j, "moveStat")
    <2>1. Becomes(j, [job[j] EXCEPT !.at = "moveStat"])
      BY <1>6, GoBecomes DEF Step
    <2>2. KeepsTo(j)
      BY <1>6, <2>1, <1>1, <1>2 DEF KeepsTo, WrittenBy, At
    <2>3. Control(j)' /\ Buffered(j)' /\ EmptyBuffer(j)'
      BY <1>6, <2>1, <1>1, <1>2 DEF JobIsSound, Control, Buffered, EmptyBuffer, At
    <2>4. Alias(j) => AliasSound(j)'
      BY <1>6, <2>1, <1>1, <1>2 DEF JobIsSound, AliasSound, Control, DataOf, At
    <2>5. ~ Alias(j) => SourceSound(j)'
      BY <1>6, <2>1, <1>1, <1>2 DEF JobIsSound, SourceSound, Control, CopySound, DataOf, Looked, CopyIn, SizeIs, At
    <2>6. ~ Alias(j) => CopySound(j)'
      BY <1>6, <2>1, <1>1, <1>2
      DEF JobIsSound, CopySound, Control, DataOf, CopyIn, SizeIs, OldOrNew, OldInPlace, Target, Owned, At
    <2>7. LeftSound(j) => TempSound(j)'
      BY <1>6, <2>1, <1>1, <1>2 DEF LeftSound, TempSound, JobIsSound, AliasSound, Control, CopyIn, SizeIs, At
    <2>8. LeftSound(j) /\ ~ Alias(j) => RewriteSound(j)'
      BY <1>6, <2>1, <1>1, <1>2 DEF LeftSound, RewriteSound, JobIsSound, Control, CopySound, CopyIn, SizeIs, At
    <2>9. LeftSound(j) /\ ~ Alias(j) => DestSound(j)'
      BY <1>6, <2>1, <1>1, <1>2
      DEF LeftSound, DestSound, Whole, OldInPlace, JobIsSound, Control, CopySound, CopyIn, SizeIs, At
    <2> QED
      BY <2>2, <2>3, <2>4, <2>5, <2>6, <2>7, <2>8, <2>9, Parts
  <1>7. CASE At(j, "moveStat") /\ Go(j, "unlinkSource")
    <2>1. Becomes(j, [job[j] EXCEPT !.at = "unlinkSource"])
      BY <1>7, GoBecomes DEF Step
    <2>2. KeepsTo(j)
      BY <1>7, <2>1, <1>1, <1>2 DEF KeepsTo, WrittenBy, At
    <2>3. Control(j)' /\ Buffered(j)' /\ EmptyBuffer(j)'
      BY <1>7, <2>1, <1>1, <1>2 DEF JobIsSound, Control, Buffered, EmptyBuffer, At
    <2>4. Alias(j) => AliasSound(j)'
      BY <1>7, <2>1, <1>1, <1>2 DEF JobIsSound, AliasSound, Control, DataOf, At
    <2>5. ~ Alias(j) => SourceSound(j)'
      BY <1>7, <2>1, <1>1, <1>2 DEF JobIsSound, SourceSound, Control, CopySound, DataOf, Looked, CopyIn, SizeIs, At
    <2>6. ~ Alias(j) => CopySound(j)'
      BY <1>7, <2>1, <1>1, <1>2
      DEF JobIsSound, CopySound, Control, DataOf, CopyIn, SizeIs, OldOrNew, OldInPlace, Target, Owned, At
    <2>7. LeftSound(j) => TempSound(j)'
      BY <1>7, <2>1, <1>1, <1>2 DEF LeftSound, TempSound, JobIsSound, AliasSound, Control, CopyIn, SizeIs, At
    <2>8. LeftSound(j) /\ ~ Alias(j) => RewriteSound(j)'
      BY <1>7, <2>1, <1>1, <1>2 DEF LeftSound, RewriteSound, JobIsSound, Control, CopySound, CopyIn, SizeIs, At
    <2>9. LeftSound(j) /\ ~ Alias(j) => DestSound(j)'
      BY <1>7, <2>1, <1>1, <1>2
      DEF LeftSound, DestSound, Whole, OldInPlace, JobIsSound, Control, CopySound, CopyIn, SizeIs, At
    <2> QED
      BY <2>2, <2>3, <2>4, <2>5, <2>6, <2>7, <2>8, <2>9, Parts
  <1> QED
    BY <1>3, <1>4, <1>5, <1>6, <1>7, <1>1, <1>2 DEF Copied, MoveStat

(* The source of a move is deleted.                                        *)
LEMMA UnlinkSourceStep ==
    ASSUME NEW j \in Jobs, Ready(j), UnlinkSource(j), UNCHANGED cancelled
    PROVE  Kept(j)
  <1> USE DEF Ready, PlanSound, Src, Dst, Tmp, Alias, Safe, Plan, May, Becomes, TypeOK, JobState, Exists
  <1>1. ~ Alias(j) /\ plan[j].isMove /\ plan' = plan /\ At(j, "unlinkSource")
    BY DEF UnlinkSource, At, JobIsSound, AliasSound, Control
  <1>2. CopyIn(j, Dst(j))
    BY <1>1 DEF At, JobIsSound, CopySound
  <1>3. CASE Set(Src(j), Absent) /\ Stop(j, "Completed")
    <2>1. Becomes(j, [job[j] EXCEPT !.at = "end", !.result = "Completed"])
      BY <1>3, StopBecomes DEF Result
    <2>2. /\ fs' \in [File -> Seq(File) \cup {Absent}]
          /\ fs'[Src(j)] = Absent /\ \A g \in File \ {Src(j)} : fs'[g] = fs[g]
      BY <1>3, <1>1, <1>2, SetFiles
    <2>3. KeepsTo(j)
      BY <1>3, <2>1, <2>2, <1>1, <1>2 DEF KeepsTo, WrittenBy, At
    <2>4. Control(j)' /\ Buffered(j)' /\ EmptyBuffer(j)'
      BY <1>3, <2>1, <2>2, <1>1, <1>2 DEF JobIsSound, Control, Buffered, EmptyBuffer, At
    <2>5. Alias(j) => AliasSound(j)'
      BY <1>3, <2>1, <2>2, <1>1, <1>2 DEF JobIsSound, AliasSound, Control, DataOf, At
    <2>6. ~ Alias(j) => SourceSound(j)'
      BY <1>3, <2>1, <2>2, <1>1, <1>2
      DEF JobIsSound, SourceSound, Control, CopySound, DataOf, Looked, CopyIn, SizeIs, At
    <2>7. ~ Alias(j) => CopySound(j)'
      BY <1>3, <2>1, <2>2, <1>1, <1>2
      DEF JobIsSound, CopySound, Control, DataOf, CopyIn, SizeIs, OldOrNew, OldInPlace, Target, Owned, At
    <2>8. LeftSound(j) => TempSound(j)'
      BY <1>3, <2>1, <2>2, <1>1, <1>2 DEF LeftSound, TempSound, JobIsSound, AliasSound, Control, CopyIn, SizeIs, At
    <2>9. LeftSound(j) /\ ~ Alias(j) => RewriteSound(j)'
      BY <1>3, <2>1, <2>2, <1>1, <1>2
      DEF LeftSound, RewriteSound, JobIsSound, Control, CopySound, CopyIn, SizeIs, At
    <2>10. LeftSound(j) /\ ~ Alias(j) => DestSound(j)'
      BY <1>3, <2>1, <2>2, <1>1, <1>2
      DEF LeftSound, DestSound, Whole, OldInPlace, JobIsSound, Control, CopySound, CopyIn, SizeIs, At
    <2> QED
      BY <2>3, <2>4, <2>5, <2>6, <2>7, <2>8, <2>9, <2>10, Parts
  <1>4. CASE Stop(j, "Failed") /\ UNCHANGED fs
    BY <1>4, <1>1, <1>2, StopStep DEF At
  <1> QED
    BY <1>3, <1>4, <1>1, <1>2 DEF UnlinkSource

(* What was written is removed, or stays.                                  *)
LEMMA DiscardStep ==
    ASSUME NEW j \in Jobs, Ready(j), Discard(j), UNCHANGED cancelled
    PROVE  Kept(j)
  <1> USE DEF Ready, PlanSound, Src, Dst, Tmp, Alias, Safe, Plan, May, Becomes, TypeOK, JobState, Exists
  <1>1. /\ plan' = plan /\ At(j, "discard") /\ Target(j) \in File /\ (Alias(j) => Owned(j))
        /\ job[j].stage # "none" /\ job[j].result # "Completed"
    BY DEF Discard, Target, Owned, At, JobIsSound, AliasSound, Control
  <1>2. Becomes(j, [job[j] EXCEPT !.at = "end"])
    BY GoBecomes DEF Step, Discard
  <1>3. CASE Set(Target(j), Absent)
    <2>1. /\ fs' \in [File -> Seq(File) \cup {Absent}]
          /\ fs'[Target(j)] = Absent /\ \A g \in File \ {Target(j)} : fs'[g] = fs[g]
      BY <1>3, <1>1, SetFiles
    <2>2. KeepsTo(j)
      BY <1>1, <1>2, <2>1 DEF KeepsTo, WrittenBy, At, Target, Owned, Stage, DataOf
    <2>3. Control(j)' /\ Buffered(j)' /\ EmptyBuffer(j)'
      BY <1>1, <1>2, <2>1 DEF JobIsSound, Control, Buffered, EmptyBuffer, At, Target, Owned, Stage, DataOf
    <2>4. Alias(j) => AliasSound(j)'
      BY <1>1, <1>2, <2>1 DEF JobIsSound, AliasSound, Control, DataOf, At, Target, Owned, Stage
    <2>5. ~ Alias(j) => SourceSound(j)'
      BY <1>1, <1>2, <2>1
      DEF JobIsSound, SourceSound, Control, CopySound, DataOf, Looked, CopyIn, SizeIs, At, Target, Owned, Stage
    <2>6. ~ Alias(j) => CopySound(j)'
      BY <1>1, <1>2, <2>1
      DEF JobIsSound, CopySound, Control, DataOf, CopyIn, SizeIs, OldOrNew, OldInPlace, Target, Owned, At, Stage
    <2>7. LeftSound(j) => TempSound(j)'
      BY <1>1, <1>2, <2>1
      DEF LeftSound, TempSound, JobIsSound, AliasSound, Control, CopyIn, SizeIs, At, Target, Owned, Stage, DataOf
    <2>8. LeftSound(j) /\ ~ Alias(j) => RewriteSound(j)'
      BY <1>1, <1>2, <2>1
      DEF LeftSound, RewriteSound, JobIsSound, Control, CopySound, CopyIn, SizeIs, At, Target, Owned, Stage, DataOf
    <2>9. LeftSound(j) /\ ~ Alias(j) => DestSound(j)'
      BY <1>1, <1>2, <2>1
      DEF LeftSound, DestSound, Whole, OldInPlace, JobIsSound, Control, CopySound, CopyIn, SizeIs, At, Target,
          Owned, Stage, DataOf
    <2> QED
      BY <2>2, <2>3, <2>4, <2>5, <2>6, <2>7, <2>8, <2>9, Parts
  <1>4. CASE May(j, "remove") /\ UNCHANGED fs
    <2>1. KeepsTo(j)
      BY <1>4, <1>1, <1>2 DEF KeepsTo, WrittenBy, At, DataOf
    <2>2. Control(j)' /\ Buffered(j)' /\ EmptyBuffer(j)'
      BY <1>4, <1>1, <1>2 DEF JobIsSound, Control, Buffered, EmptyBuffer, At, DataOf
    <2>3. Alias(j) => AliasSound(j)'
      BY <1>4, <1>1, <1>2 DEF JobIsSound, AliasSound, Control, DataOf, At
    <2>4. ~ Alias(j) => SourceSound(j)'
      BY <1>4, <1>1, <1>2 DEF JobIsSound, SourceSound, Control, CopySound, DataOf, Looked, CopyIn, SizeIs, At
    <2>5. ~ Alias(j) => CopySound(j)'
      BY <1>4, <1>1, <1>2
      DEF JobIsSound, CopySound, Control, DataOf, CopyIn, SizeIs, OldOrNew, OldInPlace, Target, Owned, At
    <2>6. LeftSound(j) => TempSound(j)'
      BY <1>4, <1>1, <1>2 DEF LeftSound, TempSound, JobIsSound, AliasSound, Control, CopyIn, SizeIs, At, DataOf
    <2>7. LeftSound(j) /\ ~ Alias(j) => RewriteSound(j)'
      BY <1>4, <1>1, <1>2 DEF LeftSound, RewriteSound, JobIsSound, Control, CopySound, CopyIn, SizeIs, At, DataOf
    <2>8. LeftSound(j) /\ ~ Alias(j) => DestSound(j)'
      BY <1>4, <1>1, <1>2
      DEF LeftSound, DestSound, Whole, OldInPlace, JobIsSound, Control, CopySound, CopyIn, SizeIs, At, DataOf
    <2> QED
      BY <2>1, <2>2, <2>3, <2>4, <2>5, <2>6, <2>7, <2>8, Parts
  <1> QED
    BY <1>3, <1>4, <1>1 DEF Discard

-----------------------------------------------------------------------------
(* Every step of a job keeps to its own job and files, and keeps it sound. *)
LEMMA OwnStep ==
    ASSUME NEW j \in Jobs, Ready(j), DriverStep(j) \/ CommandRunsOn(j), UNCHANGED cancelled
    PROVE  Kept(j)
  BY StatStep, RenameStep, NoShellStep, CommandStep, ShellCheckStep, RunsOnStep, ChooseStep, GuardStep, LoopStep,
     ReadFailsStep, BlockStep, FinishStep, VerifyStep, PreCommitStep, CommitStep, CommitAgainStep, LookForOldStep,
     UnlinkOldStep, DropTempStep, WholeStep, CollectStep, WholePutStep, CopiedStep, UnlinkSourceStep, DiscardStep
  DEF DriverStep

(* A job is as sound as it was when its files and its progress are left    *)
(* alone.                                                                  *)
LEMMA Untouched ==
    ASSUME NEW j \in Jobs, plan' = plan, job'[j] = job[j], \A f \in FilesOf(plan, j) : fs'[f] = fs[f]
    PROVE  /\ JobIsSound(j) => JobIsSound(j)'
           /\ LeftSound(j) => LeftSound(j)'
  <1> USE DEF FilesOf, Src, Dst, Tmp, May, Safe
  <1>1. /\ Src(j)' = Src(j) /\ Dst(j)' = Dst(j) /\ Tmp(j)' = Tmp(j)
        /\ fs'[Src(j)] = fs[Src(j)] /\ fs'[Dst(j)] = fs[Dst(j)] /\ fs'[Tmp(j)] = fs[Tmp(j)]
        /\ Target(j)' = Target(j) /\ Target(j) \in {Dst(j), Tmp(j)} /\ (Alias(j)' <=> Alias(j))
    BY DEF Target, Owned, Alias
  <1>2. /\ CopyIn(j, Dst(j))' <=> CopyIn(j, Dst(j))
        /\ CopyIn(j, Tmp(j))' <=> CopyIn(j, Tmp(j))
        /\ CopyIn(j, Target(j))' <=> CopyIn(j, Target(j))
        /\ OldInPlace(j)' <=> OldInPlace(j)
    BY <1>1 DEF CopyIn, SizeIs, Exists, OldInPlace
  <1>3. /\ DataOf(Src(j), Src(j))' <=> DataOf(Src(j), Src(j))
        /\ DataOf(Dst(j), Dst(j))' <=> DataOf(Dst(j), Dst(j))
        /\ DataOf(Target(j), Src(j))' <=> DataOf(Target(j), Src(j))
    BY <1>1 DEF DataOf, Exists
  <1>4. Control(j) /\ Buffered(j) /\ EmptyBuffer(j) => Control(j)' /\ Buffered(j)' /\ EmptyBuffer(j)'
    BY <1>1 DEF Control, Buffered, EmptyBuffer
  <1>5. SourceSound(j) => SourceSound(j)'
    BY <1>1, <1>2, <1>3 DEF SourceSound, Looked, Exists
  <1>6. CopySound(j) => CopySound(j)'
    BY <1>1, <1>2, <1>3 DEF CopySound, OldOrNew, SizeIs, Exists
  <1>7. AliasSound(j) => AliasSound(j)'
    BY <1>1, <1>3 DEF AliasSound, Exists
  <1>8. TempSound(j) => TempSound(j)'
    BY <1>1, <1>2 DEF TempSound, Exists
  <1>9. RewriteSound(j) /\ DestSound(j) => RewriteSound(j)' /\ DestSound(j)'
    BY <1>1, <1>2 DEF RewriteSound, DestSound, Whole, Exists
  <1> QED
    BY <1>1, <1>4, <1>5, <1>6, <1>7, <1>8, <1>9 DEF JobIsSound, LeftSound

(* The step of one job, seen by all of them.                               *)
LEMMA EveryJob ==
    ASSUME IInv, NEW j \in Jobs, Kept(j)
    PROVE  IInv' /\ (LInv => LInv')
  <1>1. ASSUME NEW i \in Jobs \ {j}
        PROVE  JobIsSound(i)' /\ (LeftSound(i) => LeftSound(i)')
    <2>1. \A f \in FilesOf(plan, i) : f \in File /\ f \notin WrittenBy(plan, j)
      BY JobAssumption DEF JobAssumption, IInv, Hypotheses, FilesApart, TypeOK, FilesOf, Plan
    <2>2. plan' = plan /\ job'[i] = job[i] /\ \A f \in FilesOf(plan, i) : fs'[f] = fs[f]
      BY <2>1 DEF Kept, KeepsTo
    <2> QED
      BY <2>2, Untouched DEF IInv
  <1>2. IInv'
    BY <1>1 DEF IInv, Kept, KeepsTo, Hypotheses, FilesApart, OwnData, AliasesShow
  <1> QED
    BY <1>1, <1>2 DEF LInv, Kept, TempsNew

(* What the user does to the task list touches no job and no file.         *)
LEMMA ListStep ==
    ASSUME IInv, UNCHANGED <<fs, plan, job>>, cancelled' \in [Jobs -> BOOLEAN]
    PROVE  IInv' /\ (LInv => LInv')
  <1>1. \A i \in Jobs : JobIsSound(i)' /\ (LeftSound(i) => LeftSound(i)')
    BY Untouched DEF IInv
  <1>2. IInv'
    BY <1>1 DEF IInv, TypeOK, Hypotheses, FilesApart, OwnData, AliasesShow
  <1> QED
    BY <1>1, <1>2 DEF LInv, TempsNew

LEMMA NextIInv ==
    ASSUME IInv, [Next]_vars
    PROVE  IInv' /\ (LInv => LInv')
  <1>1. ASSUME NEW j \in Jobs, DriverStep(j) \/ CommandRunsOn(j), UNCHANGED cancelled
        PROVE  IInv' /\ (LInv => LInv')
    BY <1>1, ReadyForIt, OwnStep, EveryJob
  <1>2. ASSUME NEW j \in Jobs, Cancel(j) \/ EntryCleared(j)
        PROVE  IInv' /\ (LInv => LInv')
    BY <1>2, ListStep DEF Cancel, EntryCleared, IInv, TypeOK
  <1>3. CASE UNCHANGED vars
    BY <1>3, ListStep DEF vars, IInv, TypeOK
  <1> QED
    BY <1>1, <1>2, <1>3 DEF Next

(* The initial states.                                                     *)
LEMMA InitIInv ==
    ASSUME Hypotheses, Init
    PROVE  IInv /\ (TempsNew => LInv)
  <1>1. TypeOK
    BY JobAssumption DEF JobAssumption, Init, TypeOK, NewJob, JobState, Step, Stage, Result
  <1>2. ASSUME NEW j \in Jobs PROVE JobIsSound(j) /\ (TempsNew => LeftSound(j))
    <2> USE DEF Src, Dst, Tmp, Alias
    <2>1. job[j] = NewJob /\ plan[j] \in Plan
      BY JobAssumption DEF JobAssumption, Init
    <2>2. Control(j) /\ Buffered(j) /\ EmptyBuffer(j)
      BY <2>1 DEF NewJob, Control, Buffered, EmptyBuffer
    <2>3. DataOf(Src(j), Src(j)) /\ DataOf(Dst(j), Dst(j)) /\ (Alias(j) => Exists(Src(j)))
      BY <2>1 DEF Init, Hypotheses, OwnData, AliasesShow, DataOf, Exists, Plan
    <2>4. ~ Alias(j) => SourceSound(j) /\ CopySound(j)
      BY <2>1, <2>3 DEF NewJob, SourceSound, CopySound, Looked
    <2>5. Alias(j) => AliasSound(j)
      BY <2>1, <2>3 DEF NewJob, AliasSound
    <2>6. TempsNew => /\ ~ Exists(Tmp(j))
                      /\ ~ Alias(j) => ~ Exists(Dst(j)) \/ OldInPlace(j)
      BY <2>3 DEF TempsNew, Init, Exists, OldInPlace, DataOf
    <2>7. TempsNew => LeftSound(j)
      BY <2>1, <2>6 DEF LeftSound, TempSound, RewriteSound, DestSound, Whole, NewJob
    <2> QED
      BY <2>2, <2>4, <2>5, <2>7 DEF JobIsSound
  <1> QED
    BY <1>1, <1>2 DEF IInv, LInv

-----------------------------------------------------------------------------
(* The theorems: of jobs that write to no file of another one.             *)

THEOREM Inductive == Hypotheses => (Spec => []IInv)
  <1>1. Hypotheses /\ Init => IInv
    BY InitIInv
  <1>2. IInv /\ [Next]_vars => IInv'
    BY NextIInv
  <1> QED
    BY <1>1, <1>2, PTL DEF Spec

(* "A task is Completed only after the destination size was checked", and  *)
(* then what is there is the whole source, block by block: for every       *)
(* number of jobs, size of file and combination of failing calls.          *)
THEOREM CompletedMeansCopied == Hypotheses => (Spec => []CompletedIsCopied)
  <1>1. ASSUME IInv, NEW j \in Jobs, Ended(j), job[j].result = "Completed"
        PROVE  \/ CopyIn(j, Dst(j))
               \/ ~ Safe(j, {"silentShell"}) /\ OldInPlace(j) /\ SizeIs(Dst(j), job[j].size)
    <2>1. ~ Alias(j)
      BY <1>1 DEF IInv, JobIsSound, AliasSound
    <2> QED
      BY <1>1, <2>1 DEF IInv, JobIsSound, CopySound, May, Safe
  <1>2. IInv => CompletedIsCopied
    BY <1>1 DEF CompletedIsCopied
  <1> QED
    BY <1>2, Inductive, PTL

(* "A move deletes its source only after that check": at no moment are the *)
(* data of a source in neither place, a cancelled transfer leaves it where *)
(* it was, and a file that is its own destination is not written over.     *)
THEOREM SourcesSurvive == Hypotheses => (Spec => []SourceSurvives)
  <1>1. ASSUME IInv, NEW j \in Jobs
        PROVE  /\ job[j].size > 0 => CopyIn(j, Src(j)) \/ (plan[j].isMove /\ CopyIn(j, Dst(j)))
               /\ /\ job[j].result = "Cancelled"
                  /\ plan[j].sameSession => Safe(j, {"lostReply", "stat", "exists"})
                  => SourceIntact(j)
               /\ Alias(j) => SourceIntact(j)
    <2>1. Ready(j)
      BY <1>1, ReadyForIt
    <2>2. CASE ~ Alias(j)
      <3>1. Looked(j) /\ Exists(Src(j)) => CopyIn(j, Src(j))
        BY <2>1, <2>2, SourceIsCopy
      <3>2. SourceSound(j)
        BY <2>2, <2>1 DEF Ready, JobIsSound
      <3> QED
        BY <2>2, <3>1, <3>2 DEF SourceSound, SourceIntact, Looked
    <2>3. CASE Alias(j)
      <3>1. AliasSound(j)
        BY <2>3, <2>1 DEF Ready, JobIsSound
      <3>2. SourceIntact(j) /\ (job[j].size > 0 => CopyIn(j, Src(j)))
        BY <3>1 DEF AliasSound, SourceIntact, CopyIn, SizeIs, DataOf
      <3> QED
        BY <3>2
    <2> QED
      BY <2>2, <2>3
  <1>2. IInv => SourceSurvives
    BY <1>1 DEF SourceSurvives, SourceOutlivesCopying, CancelledKeepsSource, AliasSurvives
  <1> QED
    BY <1>2, Inductive, PTL

(* What a transfer leaves behind is complete, or was there before: where   *)
(* removals work no temporary file stays but the only copy that could be   *)
(* looked at, no part of one has the destination's name, and the complete  *)
(* copy outlasts the rewrite of a destination that had to be removed.      *)
THEOREM LeftoversRescue == Hypotheses /\ TempsNew => (Spec => []LeftoversAreRescues)
  <1>1. Hypotheses /\ TempsNew /\ Init => LInv
    BY InitIInv
  <1>2. LInv /\ [Next]_vars => LInv'
    BY NextIInv DEF LInv
  <1>3. ASSUME LInv, NEW j \in Jobs
        PROVE  /\ Ended(j) /\ Exists(Tmp(j)) /\ Safe(j, {"remove"})
                  => CopyIn(j, Tmp(j)) /\ (CopyIn(j, Dst(j)) => May(j, "stat"))
               /\ Ended(j) /\ plan[j].positional /\ Exists(Dst(j)) /\ Safe(j, {"remove", "stat", "truncate"})
                  => OldInPlace(j) \/ CopyIn(j, Dst(j))
               /\ job[j].stage = "rewrite" /\ Safe(j, {"lostReply"}) => CopyIn(j, Tmp(j)) \/ CopyIn(j, Dst(j))
    <2>1. LeftSound(j) /\ JobIsSound(j) /\ job[j].size \in Nat
      BY <1>3 DEF LInv, IInv, TypeOK, JobState
    <2>2. CASE ~ Alias(j)
      BY <2>1, <2>2 DEF LeftSound, TempSound, RewriteSound, DestSound, Whole, Ended, At
    <2>3. CASE Alias(j)
      <3>1. AliasSound(j) /\ TempSound(j)
        BY <2>1, <2>3 DEF JobIsSound, LeftSound
      <3>2. OldInPlace(j) \/ CopyIn(j, Dst(j))
        BY <2>1, <2>3, <3>1, EmptyFile DEF AliasSound, OldInPlace, CopyIn, SizeIs, DataOf, Alias, Exists
      <3> QED
        BY <3>1, <3>2 DEF AliasSound, TempSound, Ended, At
    <2> QED
      BY <2>2, <2>3
  <1>4. LInv => LeftoversAreRescues
    BY <1>3 DEF LeftoversAreRescues, TempLeftOnlyAsRescue, NoPartialLeft, RescueKept
  <1> QED
    BY <1>1, <1>2, <1>4, PTL DEF Spec

-----------------------------------------------------------------------------
(* What the invariants of TransferJobProofs do not say of such a job: the  *)
(* old file is in place until a complete copy is ready, it is never        *)
(* written to, and a command of the server that ended well has had effect. *)
PromiseSound(j) ==
    LET r == job[j]
    IN  /\ r.at # "guard" /\ r.stage \notin {"inPlace", "whole"}
        /\ ~ Alias(j) =>
              /\ r.at \in {"stat", "rename", "shell", "destStat"} => ~ Exists(Dst(j)) \/ OldInPlace(j)
              /\ /\ r.stage = "temp"
                 /\ r.at \in {"probe", "loop", "block", "finish", "verify", "preCommit", "commit", "replace",
                              "unlinkOld", "discard"}
                 => OldInPlace(j)
              /\ r.stage \in {"direct", "rewrite"} => ~ OldInPlace(j)
              /\ r.at = "shellCheck" /\ plan[j].isMove => ~ Exists(Src(j))

PInv == LInv /\ \A j \in Jobs : Promised(j) => PromiseSound(j)

(* A job and the state it is looked at in, and a step of it that is sound  *)
(* by the invariants proved before.                                        *)
Bound(j) == Promised(j) /\ PromiseSound(j) /\ Ready(j) /\ LeftSound(j)

Replaces(j) == [Promise(j)!Next]_(Promise(j)!vars)
Honours(j)  == PromiseSound(j)' /\ Replaces(j)

LEMMA WhatCannotFail ==
    ASSUME NEW j \in Jobs, Promised(j)
    PROVE  /\ \A kind \in {"stat", "exists", "create", "remove", "truncate", "silentShell", "marker", "lostReply",
                           "noTimes"} : ~ May(j, kind)
           /\ Safe(j, {"remove", "stat", "truncate"}) /\ Safe(j, {"remove"}) /\ Safe(j, {"lostReply"})
           /\ Safe(j, {"lostReply", "stat", "exists"})
  BY DEF Promised, PromiseFaults, May, Safe

LEMMA NotBoth ==
    ASSUME NEW j \in Jobs, ~ Alias(j), CopyIn(j, Dst(j)), TypeOK, Ready(j)
    PROVE  ~ OldInPlace(j) /\ DestOf(j) = "new"
  <1>1. fs[Dst(j)] \in Seq(File) \cup {Absent} /\ job[j].size \in Nat /\ fs[Dst(j)] # Absent
    BY DEF CopyIn, SizeIs, Exists, Ready, PlanSound, Plan, TypeOK, JobState, Dst
  <1>2. fs[Dst(j)] # <<>> => Len(fs[Dst(j)]) > 0
    BY <1>1
  <1>3. ~ OldInPlace(j)
    BY <1>1, <1>2 DEF OldInPlace, CopyIn, SizeIs, Alias
  <1> QED
    BY <1>3 DEF DestOf, Alias, CopyIn, SizeIs

-----------------------------------------------------------------------------
(* The steps of FileReplace, as what they take of a step of the job.       *)
Running(j)  == ~ Ended(j) /\ plan' = plan
GivesUp(j)  == Ended(j)' => job'[j].result \in {"Failed", "Cancelled"}
SameDest(j) == DestOf(j)' = DestOf(j)
SameSpare(j) == CopyIn(j, Tmp(j))' = CopyIn(j, Tmp(j))
SameSource(j) == Exists(Src(j))' = Exists(Src(j))

LEMMA Shown ==
    ASSUME NEW j \in Jobs, Running(j), SameDest(j), SameSpare(j), SameSource(j)
    PROVE  /\ GivesUp(j) => Replaces(j)
           /\ /\ Ended(j)' /\ job'[j].result = "Completed" /\ DestOf(j) = "new"
              /\ plan[j].isMove => ~ Exists(Src(j))
              => Replaces(j)
  <1>1. CASE GivesUp(j) /\ ~ Ended(j)'
    BY <1>1 DEF Running, SameDest, SameSpare, SameSource, Replaces, Promise!vars
  <1>2. CASE GivesUp(j) /\ Ended(j)'
    BY <1>2 DEF Running, SameDest, SameSpare, SameSource, GivesUp, Replaces, Promise!Next, Promise!Report
  <1>3. CASE /\ Ended(j)' /\ job'[j].result = "Completed" /\ DestOf(j) = "new"
             /\ plan[j].isMove => ~ Exists(Src(j))
    BY <1>3 DEF Running, SameDest, SameSpare, SameSource, Replaces, Promise!Next, Promise!Report
  <1> QED
    BY <1>1, <1>2, <1>3

LEMMA SpareChanges ==
    ASSUME NEW j \in Jobs, Running(j), SameDest(j), SameSource(j), GivesUp(j), DestOf(j) \in {"old", "new"}
    PROVE  Replaces(j)
  <1>1. CopyIn(j, Tmp(j))' \in BOOLEAN /\ CopyIn(j, Tmp(j)) \in BOOLEAN
    BY DEF CopyIn, SizeIs, Exists
  <1>2. CASE SameSpare(j)
    BY <1>2, Shown
  <1>3. CASE CopyIn(j, Tmp(j))' = ~ CopyIn(j, Tmp(j))
    BY <1>3 DEF Running, SameDest, SameSource, GivesUp, Replaces, Promise!Next, Promise!ChangeSpare
  <1> QED
    BY <1>1, <1>2, <1>3 DEF SameSpare

LEMMA DestFills ==
    ASSUME NEW j \in Jobs, Running(j), SameSpare(j), SameSource(j), GivesUp(j), DestOf(j) # "old",
           DestOf(j)' # "old", Exists(Src(j))
    PROVE  Replaces(j)
  <1>1. DestOf(j)' \in {"none", "partial", "new"}
    BY DEF DestOf
  <1> QED
    BY <1>1 DEF Running, SameSpare, SameSource, GivesUp, Replaces, Promise!Next, Promise!Fill

LEMMA CopyInstalled ==
    ASSUME NEW j \in Jobs, plan' = plan, Exists(Src(j)), DestOf(j)' = "new",
           ~ Exists(Src(j))' => plan[j].isMove,
           CopyIn(j, Tmp(j))' = CopyIn(j, Tmp(j)) \/ CopyIn(j, Tmp(j))' = FALSE,
           \/ (Ended(j)' <=> Ended(j)) /\ job'[j].result = job[j].result /\ job[j].result # "Completed"
           \/ /\ Ended(j)' /\ job'[j].result = "Completed"
              /\ plan[j].isMove => ~ Exists(Src(j))'
    PROVE  Replaces(j)
  <1>0. plan' = plan => plan'[j].isMove = plan[j].isMove
    OBVIOUS
  <1>1. CASE (Ended(j)' <=> Ended(j)) /\ job'[j].result = job[j].result /\ job[j].result # "Completed"
    BY <1>0, <1>1 DEF Replaces, Promise!Next, Promise!Install
  <1>2. CASE /\ Ended(j)' /\ job'[j].result = "Completed"
             /\ plan[j].isMove => ~ Exists(Src(j))'
    BY <1>0, <1>2 DEF Replaces, Promise!Next, Promise!Install
  <1> QED
    BY <1>1, <1>2

LEMMA View ==
    ASSUME NEW j \in Jobs, plan' = plan, job'[j].size = job[j].size
    PROVE  /\ fs'[Dst(j)] = fs[Dst(j)] =>
                 SameDest(j) /\ (OldInPlace(j)' <=> OldInPlace(j)) /\ (Exists(Dst(j))' <=> Exists(Dst(j)))
                 /\ (CopyIn(j, Dst(j))' <=> CopyIn(j, Dst(j)))
           /\ fs'[Tmp(j)] = fs[Tmp(j)] => SameSpare(j)
           /\ fs'[Src(j)] = fs[Src(j)] => SameSource(j)
           /\ Alias(j)' <=> Alias(j)
  <1>1. Src(j)' = Src(j) /\ Dst(j)' = Dst(j) /\ Tmp(j)' = Tmp(j)
    BY DEF Src, Dst, Tmp
  <1>2. fs'[Dst(j)] = fs[Dst(j)] => /\ OldInPlace(j)' <=> OldInPlace(j)
                                    /\ CopyIn(j, Dst(j))' <=> CopyIn(j, Dst(j))
                                    /\ Exists(Dst(j))' <=> Exists(Dst(j))
    BY <1>1 DEF OldInPlace, CopyIn, SizeIs, Exists
  <1>3. Alias(j)' <=> Alias(j)
    BY <1>1 DEF Alias
  <1>4. fs'[Dst(j)] = fs[Dst(j)] => SameDest(j)
    BY <1>1, <1>2, <1>3 DEF SameDest, DestOf
  <1>5. fs'[Tmp(j)] = fs[Tmp(j)] => SameSpare(j)
    BY <1>1 DEF SameSpare, CopyIn, SizeIs, Exists
  <1>6. fs'[Src(j)] = fs[Src(j)] => SameSource(j)
    BY <1>1 DEF SameSource, Exists
  <1> QED
    BY <1>2, <1>3, <1>4, <1>5, <1>6

(* A step that leaves the files alone: the job goes on with the same way   *)
(* of copying, or gives up.                                                *)
LEMMA Goes ==
    ASSUME NEW j \in Jobs, Bound(j), ~ Ended(j), plan' = plan, fs' = fs,
           NEW at \in Step, NEW result \in Result, Becomes(j, [job[j] EXCEPT !.at = at, !.result = result]),
           at = "end" => result \in {"Failed", "Cancelled"},
           at # "guard",
           at \in {"stat", "rename", "shell", "destStat"} /\ ~ Alias(j) => ~ Exists(Dst(j)) \/ OldInPlace(j),
           job[j].stage = "temp" /\ ~ Alias(j)
           /\ at \in {"probe", "loop", "block", "finish", "verify", "preCommit", "commit", "replace", "unlinkOld",
                      "discard"}
           => OldInPlace(j),
           at # "shellCheck"
    PROVE  Honours(j)
  <1>1. job'[j] = [job[j] EXCEPT !.at = at, !.result = result] /\ job[j] \in JobState
    BY DEF Becomes, Bound, Ready, TypeOK
  <1>2. /\ job'[j].at = at /\ job'[j].result = result /\ job'[j].size = job[j].size
        /\ job'[j].stage = job[j].stage
    BY <1>1 DEF JobState
  <1>3. /\ SameDest(j) /\ SameSpare(j) /\ SameSource(j) /\ (OldInPlace(j)' <=> OldInPlace(j))
        /\ (Exists(Dst(j))' <=> Exists(Dst(j))) /\ (Alias(j)' <=> Alias(j))
    BY <1>2, View
  <1>4. PromiseSound(j)'
    BY <1>2, <1>3 DEF Bound, PromiseSound
  <1>5. GivesUp(j) /\ Running(j)
    BY <1>2 DEF GivesUp, Running, Ended, At
  <1> QED
    BY <1>3, <1>4, <1>5, Shown DEF Honours

(* A job that ends by itself with what it found.                           *)
LEMMA Finishes ==
    ASSUME NEW j \in Jobs, Bound(j), ~ Ended(j), plan' = plan, fs' = fs, Stop(j, "Completed"),
           ~ Alias(j), CopyIn(j, Dst(j)), plan[j].isMove => ~ Exists(Src(j))
    PROVE  Honours(j)
  <1>1. job'[j] = [job[j] EXCEPT !.at = "end", !.result = "Completed"] /\ job[j] \in JobState
    BY StopBecomes DEF Becomes, Bound, Ready, TypeOK, Result
  <1>2. /\ job'[j].at = "end" /\ job'[j].result = "Completed" /\ job'[j].size = job[j].size
        /\ job'[j].stage = job[j].stage
    BY <1>1 DEF JobState
  <1>3. /\ SameDest(j) /\ SameSpare(j) /\ SameSource(j) /\ (OldInPlace(j)' <=> OldInPlace(j))
        /\ (Exists(Dst(j))' <=> Exists(Dst(j))) /\ (Alias(j)' <=> Alias(j))
    BY <1>2, View
  <1>4. PromiseSound(j)'
    BY <1>2, <1>3 DEF Bound, PromiseSound
  <1>5. DestOf(j) = "new"
    BY NotBoth DEF Bound, Ready
  <1>6. Ended(j)' /\ Running(j)
    BY <1>2 DEF Running, Ended, At
  <1> QED
    BY <1>2, <1>3, <1>4, <1>5, <1>6, Shown DEF Honours

LEMMA GoesOn ==
    ASSUME NEW j \in Jobs, Bound(j), NEW step \in Step
    PROVE  /\ Go(j, step) => Becomes(j, [job[j] EXCEPT !.at = step, !.result = job[j].result])
           /\ job[j].result \in Result
  <1>1. job[j] \in JobState /\ TypeOK
    BY DEF Bound, Ready, TypeOK
  <1>2. [job[j] EXCEPT !.at = step, !.result = job[j].result] = [job[j] EXCEPT !.at = step]
    BY <1>1 DEF JobState
  <1> QED
    BY <1>1, <1>2, GoBecomes DEF JobState

LEMMA GivesUpNow ==
    ASSUME NEW j \in Jobs, Bound(j), ~ Ended(j), plan' = plan, fs' = fs, NEW r \in {"Failed", "Cancelled"},
           \/ Stop(j, r)
           \/ /\ StopAndDiscard(j, r)
              /\ job[j].stage = "temp" /\ ~ Alias(j) => OldInPlace(j)
    PROVE  Honours(j)
  <1>1. TypeOK /\ r \in Result /\ {"end", "discard"} \subseteq Step
    BY DEF Bound, Ready, Result, Step
  <1>2. CASE Stop(j, r)
    BY <1>1, <1>2, StopBecomes, Goes
  <1>3. CASE StopAndDiscard(j, r) /\ (job[j].stage = "temp" /\ ~ Alias(j) => OldInPlace(j))
    BY <1>1, <1>3, StopBecomes, Goes
  <1> QED
    BY <1>2, <1>3

-----------------------------------------------------------------------------
(* What is known of such a job between two steps.                          *)
LEMMA BoundFacts ==
    ASSUME NEW j \in Jobs, Bound(j)
    PROVE  /\ TypeOK /\ JobIsSound(j) /\ Control(j) /\ TempSound(j)
           /\ Alias(j) => AliasSound(j)
           /\ ~ Alias(j) => /\ SourceSound(j) /\ CopySound(j) /\ RewriteSound(j) /\ DestSound(j)
                            /\ job[j].at \in {"stat", "rename", "shell", "destStat"}
                               => ~ Exists(Dst(j)) \/ OldInPlace(j)
           /\ job[j] \in JobState /\ plan[j] \in Plan /\ plan[j].positional
           /\ Src(j) \in File /\ Dst(j) \in File /\ Tmp(j) \in File /\ Tmp(j) # Src(j) /\ Tmp(j) # Dst(j)
  BY DEF Bound, Ready, PlanSound, JobIsSound, LeftSound, PromiseSound, TypeOK, Plan, Src, Dst, Tmp, Promised

(* The source is there as long as the copy goes on.                        *)
LEMMA SourceThere ==
    ASSUME NEW j \in Jobs, Bound(j), job[j].at \notin {"stat", "shellCheck", "end"} 
    PROVE  Exists(Src(j))
  <1>1. CASE Alias(j)
    BY <1>1, BoundFacts DEF AliasSound
  <1>2. CASE ~ Alias(j)
    <2>1. SourceSound(j) /\ Safe(j, {"lostReply", "stat", "exists"})
      BY <1>2, BoundFacts, WhatCannotFail DEF Bound
    <2> QED
      BY <2>1 DEF SourceSound
  <1> QED
    BY <1>1, <1>2

(* The first look at the source: the size is known from now on.            *)
LEMMA StatHonours ==
    ASSUME NEW j \in Jobs, Bound(j), Stat(j)
    PROVE  Honours(j)
  <1>1. /\ At(j, "stat") /\ plan' = plan /\ fs' = fs /\ ~ Ended(j)
        /\ job[j].stage = "none" /\ job[j].size = 0
    BY BoundFacts DEF Stat, At, Ended, Control
  <1>2. CASE Exists(Src(j)) /\ job' = [job EXCEPT ![j].at = AfterStat(j), ![j].size = Len(fs[Src(j)])]
    <2>1. /\ job'[j].at = AfterStat(j) /\ job'[j].size = Len(fs[Src(j)]) /\ job'[j].stage = "none"
      BY <1>1, <1>2, BoundFacts DEF TypeOK, JobState
    <2>2. Src(j)' = Src(j) /\ Dst(j)' = Dst(j) /\ Tmp(j)' = Tmp(j) /\ (Alias(j)' <=> Alias(j))
      BY <1>1 DEF Src, Dst, Tmp, Alias
    <2>3. /\ OldInPlace(j)' <=> OldInPlace(j)
          /\ \A f \in File : Exists(f)' <=> Exists(f)
      BY <1>1, <2>2 DEF OldInPlace, Exists
    <2>4. ~ Exists(Tmp(j))
      BY <1>1, BoundFacts, WhatCannotFail DEF TempSound, At, Bound
    <2>5. SameSpare(j) /\ SameSource(j)
      BY <1>1, <2>2, <2>4 DEF SameSpare, SameSource, CopyIn, SizeIs, Exists
    <2>6. SameDest(j)
      <3>1. CASE ~ Alias(j)
        <4>1. ~ Exists(Dst(j)) \/ OldInPlace(j)
          BY <1>1, <3>1, BoundFacts DEF At
        <4> QED
          BY <4>1, <2>2, <2>3, BoundFacts DEF SameDest, DestOf
      <3>2. CASE Alias(j)
        <4>1. Exists(Dst(j)) /\ DestOf(j) = "old"
          BY <1>1, <1>2, <3>2 DEF DestOf, Alias
        <4>2. fs[Dst(j)] \in Seq(File) /\ (fs[Dst(j)] = <<>> <=> Len(fs[Dst(j)]) = 0)
          BY <4>1, BoundFacts DEF TypeOK, Exists
        <4>3. OldInPlace(j) \/ job'[j].size = 0
          BY <2>1, <3>2, <4>1, <4>2, BoundFacts DEF AliasSound, OldInPlace, DataOf, Alias
        <4> QED
          BY <4>1, <4>3, <2>2, <2>3, <3>2, BoundFacts DEF SameDest, DestOf
      <3> QED
        BY <3>1, <3>2
    <2>7. AfterStat(j) \in {"destStat", "rename", "shell"}
      BY DEF AfterStat
    <2>8. PromiseSound(j)'
      BY <1>1, <2>1, <2>2, <2>3, <2>7, BoundFacts DEF PromiseSound, At
    <2>9. Running(j) /\ GivesUp(j)
      BY <1>1, <2>1, <2>7 DEF Running, GivesUp, Ended, At
    <2> QED
      BY <2>5, <2>6, <2>8, <2>9, Shown DEF Honours
  <1>3. CASE Stop(j, "Failed")
    BY <1>1, <1>3, GivesUpNow
  <1> QED
    BY <1>2, <1>3 DEF Stat

(* The files after one of them has taken the place of another.             *)
LEMMA ViewReplaced ==
    ASSUME NEW j \in Jobs, Bound(j), plan' = plan, job'[j].size = job[j].size, ~ Alias(j),
           NEW from \in {Src(j), Tmp(j)}, CopyIn(j, from), Replace(from, Dst(j))
    PROVE  /\ DestOf(j)' = "new" /\ ~ OldInPlace(j)' /\ (Alias(j)' <=> Alias(j))
           /\ from = Src(j) => ~ Exists(Src(j))' /\ SameSpare(j)
           /\ from = Tmp(j) => CopyIn(j, Tmp(j))' = FALSE /\ SameSource(j)
  <1>1. Src(j)' = Src(j) /\ Dst(j)' = Dst(j) /\ Tmp(j)' = Tmp(j) /\ (Alias(j)' <=> Alias(j))
    BY DEF Src, Dst, Tmp, Alias
  <1>2. /\ from \in File /\ Dst(j) \in File /\ from # Dst(j)
        /\ fs'[Dst(j)] = fs[from] /\ fs'[from] = Absent
        /\ \A g \in File \ {from, Dst(j)} : fs'[g] = fs[g]
    BY BoundFacts, ReplaceFiles DEF Alias
  <1>3. CopyIn(j, Dst(j))' /\ ~ Exists(from)'
    BY <1>1, <1>2 DEF CopyIn, SizeIs, Exists
  <1>4. fs'[Dst(j)] \in Seq(File) /\ (fs'[Dst(j)] = <<>> <=> Len(fs'[Dst(j)]) = 0)
    BY <1>2, BoundFacts DEF TypeOK, CopyIn, SizeIs, Exists
  <1>5. ~ OldInPlace(j)'
    BY <1>1, <1>2, <1>3, <1>4, BoundFacts DEF OldInPlace, CopyIn, SizeIs, Alias, JobState
  <1>6. DestOf(j)' = "new"
    BY <1>1, <1>3, <1>5 DEF DestOf, Alias, CopyIn, SizeIs
  <1>7. ASSUME from = Src(j) PROVE ~ Exists(Src(j))' /\ SameSpare(j)
    BY <1>1, <1>2, <1>3, <1>7, BoundFacts, View DEF Exists
  <1>8. ASSUME from = Tmp(j) PROVE CopyIn(j, Tmp(j))' = FALSE /\ SameSource(j)
    BY <1>1, <1>2, <1>3, <1>8, BoundFacts, View DEF Exists, CopyIn, SizeIs, Alias
  <1> QED
    BY <1>1, <1>5, <1>6, <1>7, <1>8

(* The server renames the file, or the transfer goes on without it.        *)
LEMMA RenameHonours ==
    ASSUME NEW j \in Jobs, Bound(j), ServerRename(j)
    PROVE  Honours(j)
  <1>1. /\ At(j, "rename") /\ plan' = plan /\ ~ Ended(j) /\ ~ Alias(j) /\ job[j].stage = "none"
        /\ plan[j].isMove /\ ~ May(j, "lostReply") /\ "shell" \in Step
    BY BoundFacts, WhatCannotFail DEF ServerRename, At, Ended, Control, AliasSound, Bound, Step
  <1>2. CASE Exists(Src(j)) /\ Replace(Src(j), Dst(j)) /\ Stop(j, "Completed")
    <2>1. job'[j] = [job[j] EXCEPT !.at = "end", !.result = "Completed"]
      BY <1>2, BoundFacts, StopBecomes DEF Becomes, Result
    <2>2. /\ job'[j].at = "end" /\ job'[j].result = "Completed" /\ job'[j].size = job[j].size
          /\ job'[j].stage = "none"
      BY <1>1, <2>1, BoundFacts DEF JobState
    <2>3. CopyIn(j, Src(j))
      BY <1>1, <1>2, SourceIsCopy DEF Bound, Looked, At
    <2>4. DestOf(j)' = "new" /\ ~ Exists(Src(j))' /\ SameSpare(j) /\ (Alias(j)' <=> Alias(j))
      BY <1>1, <1>2, <2>2, <2>3, ViewReplaced
    <2>5. CopyIn(j, Tmp(j))' = CopyIn(j, Tmp(j))
      BY <2>4 DEF SameSpare
    <2>6. Ended(j)'
      BY <2>2 DEF Ended, At
    <2>7. PromiseSound(j)'
      BY <1>1, <2>2, <2>4 DEF PromiseSound
    <2> QED
      BY <1>1, <1>2, <2>2, <2>4, <2>5, <2>6, <2>7, CopyInstalled DEF Honours
  <1>3. CASE Go(j, "shell") /\ UNCHANGED fs
    BY <1>1, <1>3, BoundFacts, GoesOn, Goes DEF At
  <1> QED
    BY <1>1, <1>2, <1>3 DEF ServerRename

LEMMA NoShellHonours ==
    ASSUME NEW j \in Jobs, Bound(j), NoShell(j)
    PROVE  Honours(j)
  <1>1. /\ At(j, "shell") /\ plan' = plan /\ fs' = fs /\ ~ Ended(j) /\ ~ Alias(j) /\ job[j].stage = "none"
        /\ "destStat" \in Step /\ Go(j, "destStat")
    BY BoundFacts DEF NoShell, At, Ended, Control, AliasSound, Step
  <1> QED
    BY <1>1, BoundFacts, GoesOn, Goes DEF At

(* What a command of the server does to the files.                         *)
LEMMA EffectShown ==
    ASSUME NEW j \in Jobs, Bound(j), plan' = plan, job'[j].size = job[j].size, ~ Alias(j),
           CommandEffect(j), Exists(Src(j)), CopyIn(j, Src(j))
    PROVE  /\ DestOf(j)' = "new" /\ ~ OldInPlace(j)' /\ CopyIn(j, Tmp(j))' = CopyIn(j, Tmp(j))
           /\ plan[j].isMove => ~ Exists(Src(j))'
           /\ ~ plan[j].isMove => Exists(Src(j))'
           /\ Alias(j)' <=> Alias(j)
  <1>1. CASE plan[j].isMove
    <2>1. Replace(Src(j), Dst(j))
      BY <1>1 DEF CommandEffect
    <2>2. DestOf(j)' = "new" /\ ~ Exists(Src(j))' /\ ~ OldInPlace(j)' /\ SameSpare(j) /\ (Alias(j)' <=> Alias(j))
      BY <2>1, ViewReplaced
    <2> QED
      BY <1>1, <2>2 DEF SameSpare
  <1>2. CASE ~ plan[j].isMove
    <2>1. Set(Dst(j), fs[Src(j)])
      BY <1>2 DEF CommandEffect
    <2>2. fs[Src(j)] \in Seq(File) /\ fs[Src(j)] \in Seq(File) \cup {Absent}
      BY BoundFacts DEF TypeOK, Exists
    <2>3. /\ fs'[Dst(j)] = fs[Src(j)] /\ \A g \in File \ {Dst(j)} : fs'[g] = fs[g]
      BY <2>1, <2>2, BoundFacts, SetFiles
    <2>4. Src(j)' = Src(j) /\ Dst(j)' = Dst(j) /\ (Alias(j)' <=> Alias(j))
      BY DEF Src, Dst, Alias
    <2>5. CopyIn(j, Dst(j))'
      BY <2>3, <2>4 DEF CopyIn, SizeIs, Exists
    <2>6. fs'[Dst(j)] = <<>> <=> Len(fs'[Dst(j)]) = 0
      BY <2>2, <2>3
    <2>7. ~ OldInPlace(j)'
      BY <2>3, <2>4, <2>5, <2>6, BoundFacts DEF OldInPlace, CopyIn, SizeIs, Alias, JobState
    <2>8. DestOf(j)' = "new"
      BY <2>4, <2>5, <2>7 DEF DestOf, Alias, CopyIn, SizeIs
    <2>9. SameSpare(j) /\ SameSource(j)
      BY <2>3, BoundFacts, View DEF Alias
    <2> QED
      BY <1>2, <2>4, <2>7, <2>8, <2>9 DEF SameSpare, SameSource
  <1> QED
    BY <1>1, <1>2

LEMMA CommandHonours ==
    ASSUME NEW j \in Jobs, Bound(j), ServerCommand(j)
    PROVE  Honours(j)
  <1>1. /\ At(j, "shell") /\ plan' = plan /\ ~ Ended(j) /\ ~ Alias(j) /\ job[j].stage = "none"
        /\ job[j].result = "none" /\ ~ May(j, "silentShell") /\ {"destStat", "shellCheck"} \subseteq Step
    BY BoundFacts, WhatCannotFail DEF ServerCommand, At, Ended, Control, AliasSound, Bound, Step
  <1>2. CASE CommandEffect(j) /\ Go(j, "shellCheck")
    <2>1. Becomes(j, [job[j] EXCEPT !.at = "shellCheck"])
      BY <1>1, <1>2, GoBecomes, BoundFacts
    <2>2. /\ job'[j].at = "shellCheck" /\ job'[j].result = job[j].result /\ job'[j].size = job[j].size
          /\ job'[j].stage = "none"
      BY <1>1, <2>1, BoundFacts DEF JobState, Becomes
    <2>3. ~ Ended(j)'
      BY <2>2 DEF Ended, At
    <2>4. CASE Exists(Src(j))
      <3>1. CopyIn(j, Src(j))
        BY <1>1, <2>4, SourceIsCopy DEF Bound, Looked, At
      <3>2. /\ DestOf(j)' = "new" /\ ~ OldInPlace(j)' /\ CopyIn(j, Tmp(j))' = CopyIn(j, Tmp(j))
            /\ plan[j].isMove => ~ Exists(Src(j))'
            /\ ~ plan[j].isMove => Exists(Src(j))'
            /\ Alias(j)' <=> Alias(j)
        BY <1>1, <1>2, <2>2, <2>4, <3>1, EffectShown
      <3>3. PromiseSound(j)'
        BY <1>1, <2>2, <3>2 DEF PromiseSound
      <3> QED
        BY <1>1, <2>2, <2>3, <2>4, <3>2, <3>3, CopyInstalled DEF Honours
    <2>5. CASE ~ Exists(Src(j))
      <3>1. fs' = fs
        BY <1>2, <2>5 DEF CommandEffect
      <3>2. SameDest(j) /\ SameSpare(j) /\ SameSource(j) /\ (Alias(j)' <=> Alias(j))
        BY <1>1, <2>2, <3>1, View
      <3>3. PromiseSound(j)'
        BY <1>1, <2>2, <2>5, <3>2 DEF PromiseSound, SameSource
      <3> QED
        BY <1>1, <2>3, <3>2, <3>3, Shown DEF Honours, Running, GivesUp
    <2> QED
      BY <2>4, <2>5
  <1>3. CASE Stop(j, "Failed") /\ UNCHANGED fs
    BY <1>1, <1>3, GivesUpNow
  <1>4. CASE Go(j, "destStat") /\ UNCHANGED fs
    BY <1>1, <1>4, BoundFacts, GoesOn, Goes DEF At
  <1>5. CASE /\ job' = [job EXCEPT ![j].at = "end", ![j].result = "Failed", ![j].remote = TRUE]
             /\ UNCHANGED fs
    <2>1. /\ job'[j].at = "end" /\ job'[j].result = "Failed" /\ job'[j].size = job[j].size
          /\ job'[j].stage = "none"
      BY <1>1, <1>5, BoundFacts DEF TypeOK, JobState
    <2>2. SameDest(j) /\ SameSpare(j) /\ SameSource(j) /\ (Alias(j)' <=> Alias(j))
      BY <1>1, <1>5, <2>1, View
    <2>3. PromiseSound(j)'
      BY <1>1, <2>1, <2>2 DEF PromiseSound
    <2> QED
      BY <1>1, <2>1, <2>2, <2>3, Shown DEF Honours, Running, GivesUp
  <1> QED
    BY <1>1, <1>2, <1>3, <1>4, <1>5 DEF ServerCommand

(* The check after the command: what it looks for is there.                *)
LEMMA ShellCheckHonours ==
    ASSUME NEW j \in Jobs, Bound(j), ShellCheck(j)
    PROVE  Honours(j)
  <1>1. /\ At(j, "shellCheck") /\ plan' = plan /\ fs' = fs /\ ~ Ended(j) /\ ~ Alias(j)
        /\ ~ May(j, "silentShell") /\ ~ May(j, "stat") /\ ~ May(j, "exists")
    BY BoundFacts, WhatCannotFail DEF ShellCheck, At, Ended, AliasSound, Bound
  <1>2. CopyIn(j, Dst(j)) /\ (plan[j].isMove => ~ Exists(Src(j)))
    BY <1>1, BoundFacts DEF CopySound, At, Bound, PromiseSound
  <1>3. SizeIs(Dst(j), job[j].size)
    BY <1>2 DEF CopyIn
  <1>4. Stop(j, "Completed")
    BY <1>1, <1>2, <1>3 DEF ShellCheck
  <1> QED
    BY <1>1, <1>2, <1>4, Finishes

(* A command whose answer was lost has its effect later, or none.          *)
LEMMA RunsOnHonours ==
    ASSUME NEW j \in Jobs, Bound(j), CommandRunsOn(j)
    PROVE  Honours(j)
  <1>1. /\ plan' = plan /\ job[j].remote /\ job[j].at = "end" /\ job[j].result = "Failed" /\ job[j].stage = "none"
        /\ ~ Alias(j) /\ CommandEffect(j)
    BY BoundFacts DEF CommandRunsOn, Control, AliasSound
  <1>2. /\ job'[j].at = "end" /\ job'[j].result = "Failed" /\ job'[j].size = job[j].size /\ job'[j].stage = "none"
    BY <1>1, BoundFacts DEF CommandRunsOn, TypeOK, JobState
  <1>3. Ended(j)' /\ Ended(j)
    BY <1>1, <1>2 DEF Ended, At
  <1>4. CASE Exists(Src(j))
    <2>1. CopyIn(j, Src(j))
      BY <1>1, <1>4, SourceIsCopy DEF Bound, Looked
    <2>2. /\ DestOf(j)' = "new" /\ ~ OldInPlace(j)' /\ CopyIn(j, Tmp(j))' = CopyIn(j, Tmp(j))
          /\ plan[j].isMove => ~ Exists(Src(j))'
          /\ ~ plan[j].isMove => Exists(Src(j))'
          /\ Alias(j)' <=> Alias(j)
      BY <1>1, <1>2, <1>4, <2>1, EffectShown
    <2>3. PromiseSound(j)'
      BY <1>1, <1>2, <2>2 DEF PromiseSound
    <2> QED
      BY <1>1, <1>2, <1>3, <1>4, <2>2, <2>3, CopyInstalled DEF Honours
  <1>5. CASE ~ Exists(Src(j))
    <2>1. fs' = fs
      BY <1>1, <1>5 DEF CommandEffect
    <2>2. SameDest(j) /\ SameSpare(j) /\ SameSource(j) /\ (Alias(j)' <=> Alias(j))
      BY <1>1, <1>2, <2>1, View
    <2>3. PromiseSound(j)'
      BY <1>1, <1>2, <2>2 DEF PromiseSound
    <2>4. UNCHANGED Promise(j)!vars
      BY <1>1, <1>2, <1>3, <2>2 DEF SameDest, SameSpare, SameSource, Promise!vars
    <2> QED
      BY <2>3, <2>4 DEF Honours, Replaces
  <1> QED
    BY <1>4, <1>5

-----------------------------------------------------------------------------
(* Writing the temporary file changes the spare copy at most, writing      *)
(* under the destination's name the destination.                           *)
LEMMA DestIsOld ==
    ASSUME NEW j \in Jobs, Bound(j), job[j].at \notin {"stat", "end"},
           ~ Alias(j) => OldInPlace(j)
    PROVE  DestOf(j) = "old"
  <1>1. CASE ~ Alias(j)
    BY <1>1 DEF DestOf, OldInPlace
  <1>2. CASE Alias(j)
    <2>1. AliasSound(j) /\ Exists(Dst(j)) /\ Len(fs[Dst(j)]) = job[j].size
      BY <1>2, BoundFacts DEF AliasSound, Alias
    <2>2. fs[Dst(j)] \in Seq(File) /\ (fs[Dst(j)] = <<>> <=> Len(fs[Dst(j)]) = 0)
      BY <2>1, BoundFacts DEF TypeOK, Exists
    <2>3. OldInPlace(j) \/ job[j].size = 0
      BY <1>2, <2>1, <2>2 DEF AliasSound, OldInPlace, DataOf, Alias
    <2> QED
      BY <1>2, <2>1, <2>3 DEF DestOf
  <1> QED
    BY <1>1, <1>2

LEMMA TempWritten ==
    ASSUME NEW j \in Jobs, Bound(j), Running(j), GivesUp(j), job'[j].size = job[j].size,
           DestOf(j) \in {"old", "new"}, NEW c \in Seq(File) \cup {Absent}, Set(Tmp(j), c)
    PROVE  /\ Replaces(j) /\ SameDest(j) /\ (OldInPlace(j)' <=> OldInPlace(j)) /\ (Alias(j)' <=> Alias(j))
           /\ (Exists(Dst(j))' <=> Exists(Dst(j)))
  <1>1. plan' = plan
    BY DEF Running
  <1>2. fs'[Dst(j)] = fs[Dst(j)] /\ fs'[Src(j)] = fs[Src(j)]
    BY BoundFacts, SetFiles
  <1>3. /\ SameDest(j) /\ SameSource(j) /\ (OldInPlace(j)' <=> OldInPlace(j)) /\ (Alias(j)' <=> Alias(j))
        /\ (Exists(Dst(j))' <=> Exists(Dst(j)))
    BY <1>1, <1>2, View
  <1> QED
    BY <1>3, SpareChanges

LEMMA DestWritten ==
    ASSUME NEW j \in Jobs, Bound(j), Running(j), GivesUp(j), job'[j].size = job[j].size, ~ Alias(j),
           ~ OldInPlace(j), Exists(Src(j)), NEW c \in Seq(File) \cup {Absent}, Set(Dst(j), c),
           c \in {<<>>, Absent} \/ \A i \in 1..Len(c) : c[i] = Src(j)
    PROVE  Replaces(j) /\ ~ OldInPlace(j)' /\ (Alias(j)' <=> Alias(j))
  <1>1. Src(j)' = Src(j) /\ Dst(j)' = Dst(j) /\ (Alias(j)' <=> Alias(j)) /\ plan' = plan
    BY DEF Src, Dst, Alias, Running
  <1>2. fs'[Dst(j)] = c /\ fs'[Src(j)] = fs[Src(j)] /\ fs'[Tmp(j)] = fs[Tmp(j)]
    BY BoundFacts, SetFiles DEF Alias
  <1>3. SameSpare(j) /\ SameSource(j)
    BY <1>1, <1>2, View
  <1>4. c # Absent /\ c # <<>> => c \in Seq(File) /\ Len(c) > 0
    OBVIOUS
  <1>5. ~ OldInPlace(j)'
    <2>1. OldInPlace(j)' => c # Absent /\ c # <<>> /\ \A i \in 1..Len(c) : c[i] = Dst(j)
      BY <1>1, <1>2 DEF OldInPlace, Exists
    <2>2. c # Absent /\ c # <<>> => 1 \in 1..Len(c) /\ c[1] = Src(j)
      BY <1>4
    <2> QED
      BY <2>1, <2>2 DEF Alias
  <1>6. DestOf(j) # "old" /\ DestOf(j)' # "old"
    BY <1>1, <1>5 DEF DestOf
  <1> QED
    BY <1>1, <1>3, <1>5, <1>6, DestFills

(* The way of copying is chosen.                                           *)
LEMMA ChooseHonours ==
    ASSUME NEW j \in Jobs, Bound(j), CopyWhole(j) \/ DestMissing(j) \/ CreateTemp(j)
    PROVE  Honours(j)
  <1>1. /\ At(j, "destStat") /\ plan' = plan /\ ~ Ended(j) /\ plan[j].positional
        /\ ~ May(j, "stat") /\ ~ May(j, "create") /\ {"loop", "probe"} \subseteq Step
        /\ {"direct", "temp"} \subseteq Stage
    BY BoundFacts, WhatCannotFail
    DEF CopyWhole, DestMissing, CreateTemp, At, Ended, Bound, Step, Stage
  <1>2. CASE DestMissing(j)
    <2>1. ~ Exists(Dst(j)) /\ fs' = fs /\ Begin(j, "loop", "direct")
      BY <1>1, <1>2 DEF DestMissing
    <2>2. ~ Alias(j)
      BY <2>1, <1>1, BoundFacts DEF AliasSound, Alias
    <2>3. Becomes(j, [job[j] EXCEPT !.at = "loop", !.stage = "direct", !.off = 0])
      BY <1>1, <2>1, BeginBecomes, BoundFacts
    <2>4. job'[j].at = "loop" /\ job'[j].stage = "direct" /\ job'[j].size = job[j].size
      BY <2>3, BoundFacts DEF JobState, Becomes
    <2>5. /\ SameDest(j) /\ SameSpare(j) /\ SameSource(j) /\ (Alias(j)' <=> Alias(j))
          /\ (Exists(Dst(j))' <=> Exists(Dst(j)))
      BY <1>1, <2>1, <2>4, View
    <2>6. PromiseSound(j)'
      BY <2>1, <2>4, <2>5 DEF PromiseSound, OldInPlace
    <2> QED
      BY <1>1, <2>4, <2>5, <2>6, Shown DEF Honours, Running, GivesUp, Ended, At
  <1>3. CASE Exists(Dst(j)) /\ Set(Tmp(j), <<>>) /\ Begin(j, "probe", "temp")
    <2>1. Becomes(j, [job[j] EXCEPT !.at = "probe", !.stage = "temp", !.off = 0])
      BY <1>1, <1>3, BeginBecomes, BoundFacts
    <2>2. job'[j].at = "probe" /\ job'[j].stage = "temp" /\ job'[j].size = job[j].size
      BY <2>1, BoundFacts DEF JobState, Becomes
    <2>3. ~ Alias(j) => OldInPlace(j)
      BY <1>1, <1>3, BoundFacts DEF At
    <2>4. DestOf(j) = "old"
      BY <1>1, <2>3, DestIsOld DEF At
    <2>5. Running(j) /\ GivesUp(j)
      BY <1>1, <2>2 DEF Running, GivesUp, Ended, At
    <2>6. Replaces(j) /\ (OldInPlace(j)' <=> OldInPlace(j)) /\ (Alias(j)' <=> Alias(j))
      BY <1>3, <2>2, <2>4, <2>5, TempWritten, EmptyFile
    <2>7. PromiseSound(j)'
      BY <2>2, <2>3, <2>6 DEF PromiseSound
    <2> QED
      BY <2>6, <2>7 DEF Honours
  <1>4. CASE Stop(j, "Failed") /\ UNCHANGED fs
    BY <1>1, <1>4, GivesUpNow
  <1> QED
    BY <1>1, <1>2, <1>3, <1>4 DEF CopyWhole, CreateTemp

LEMMA ProbeHonours ==
    ASSUME NEW j \in Jobs, Bound(j), GuardInPlace(j) \/ Probe(j)
    PROVE  Honours(j)
  <1>1. /\ At(j, "probe") /\ plan' = plan /\ fs' = fs /\ ~ Ended(j) /\ job[j].stage = "temp"
        /\ (Alias(j) /\ StopAndDiscard(j, "Failed")) \/ Go(j, "loop")
    BY BoundFacts DEF GuardInPlace, Probe, At, Ended, Bound, PromiseSound, Control
  <1>2. ~ Alias(j) => OldInPlace(j)
    BY <1>1 DEF Bound, PromiseSound, At
  <1>3. "loop" \in Step
    BY DEF Step
  <1>4. CASE Go(j, "loop")
    BY <1>1, <1>2, <1>3, <1>4, GoesOn, Goes DEF At
  <1>5. CASE Alias(j) /\ StopAndDiscard(j, "Failed")
    BY <1>1, <1>2, <1>5, GivesUpNow
  <1> QED
    BY <1>1, <1>4, <1>5

(* What is written to, or removed, while the copy goes on.                 *)
LEMMA TargetWritten ==
    ASSUME NEW j \in Jobs, Bound(j), Running(j), GivesUp(j), job'[j].size = job[j].size,
           job'[j].stage = job[j].stage, job[j].at \in {"loop", "block", "finish", "discard"},
           job'[j].at \in {"loop", "finish", "verify", "discard", "end"},
           NEW c \in Seq(File) \cup {Absent}, Set(Target(j), c),
           c \in {<<>>, Absent} \/ \A i \in 1..Len(c) : c[i] = Src(j)
    PROVE  Honours(j)
  <1>1. /\ job[j].stage \in {"direct", "temp", "rewrite"} /\ Exists(Src(j))
        /\ Alias(j) => job[j].stage = "temp"
    BY BoundFacts, SourceThere DEF Control, Bound, PromiseSound, AliasSound, JobState, Stage
  <1>2. CASE job[j].stage = "temp"
    <2>1. Set(Tmp(j), c)
      BY <1>2 DEF Target, Owned
    <2>2. ~ Alias(j) => OldInPlace(j)
      BY <1>2 DEF Bound, PromiseSound
    <2>3. DestOf(j) = "old"
      BY <2>2, DestIsOld
    <2>4. Replaces(j) /\ (OldInPlace(j)' <=> OldInPlace(j)) /\ (Alias(j)' <=> Alias(j))
      BY <2>1, <2>3, TempWritten
    <2>5. PromiseSound(j)'
      BY <1>2, <2>2, <2>4 DEF PromiseSound
    <2> QED
      BY <2>4, <2>5 DEF Honours
  <1>3. CASE job[j].stage \in {"direct", "rewrite"}
    <2>1. Set(Dst(j), c) /\ ~ Alias(j) /\ ~ OldInPlace(j)
      BY <1>1, <1>3 DEF Target, Owned, Bound, PromiseSound
    <2>2. Replaces(j) /\ ~ OldInPlace(j)' /\ (Alias(j)' <=> Alias(j))
      BY <1>1, <2>1, DestWritten
    <2>3. PromiseSound(j)'
      BY <1>3, <2>1, <2>2 DEF PromiseSound
    <2> QED
      BY <2>2, <2>3 DEF Honours
  <1> QED
    BY <1>1, <1>2, <1>3

(* How a job that copies through the temporary file stands.                *)
LEMMA TempKeepsOld ==
    ASSUME NEW j \in Jobs, Bound(j), job[j].stage = "temp" /\ ~ Alias(j),
           job[j].at \in {"probe", "loop", "block", "finish", "verify", "preCommit", "commit", "replace", "unlinkOld",
                          "discard"}
    PROVE  OldInPlace(j)
  BY DEF Bound, PromiseSound

LEMMA StopOwnedHonours ==
    ASSUME NEW j \in Jobs, Bound(j), plan' = plan, fs' = fs, NEW r \in {"Failed", "Cancelled"}, StopOwned(j, r),
           job[j].at \in {"loop", "block"}
    PROVE  Honours(j)
  <1>1. ~ Ended(j) /\ (StopAndDiscard(j, r) \/ Stop(j, r))
    BY DEF StopOwned, Ended, At
  <1> QED
    BY <1>1, TempKeepsOld, GivesUpNow

(* Before every block, and after the last one.                             *)
LEMMA LoopHonours ==
    ASSUME NEW j \in Jobs, Bound(j), Loop(j)
    PROVE  Honours(j)
  <1>1. At(j, "loop") /\ plan' = plan /\ ~ Ended(j) /\ {"block", "finish"} \subseteq Step
    BY DEF Loop, At, Ended, Step
  <1>2. ASSUME NEW r \in {"Failed", "Cancelled"}, StopOwned(j, r), UNCHANGED fs
        PROVE  Honours(j)
    BY <1>1, <1>2, StopOwnedHonours DEF At
  <1>3. ASSUME NEW step \in {"block", "finish"}, Go(j, step), UNCHANGED fs
        PROVE  Honours(j)
    BY <1>1, <1>3, TempKeepsOld, GoesOn, Goes DEF At
  <1>4. CASE Set(Target(j), <<>>) /\ Go(j, "finish")
    <2>1. Becomes(j, [job[j] EXCEPT !.at = "finish"])
      BY <1>1, <1>4, GoBecomes, BoundFacts
    <2>2. job'[j].at = "finish" /\ job'[j].stage = job[j].stage /\ job'[j].size = job[j].size
      BY <2>1, BoundFacts DEF Becomes, JobState
    <2>3. Running(j) /\ GivesUp(j)
      BY <1>1, <2>2 DEF Running, GivesUp, Ended, At
    <2> QED
      BY <1>1, <1>4, <2>2, <2>3, TargetWritten, EmptyFile DEF At
  <1> QED
    BY <1>2, <1>3, <1>4 DEF Loop

LEMMA ReadFailsHonours ==
    ASSUME NEW j \in Jobs, Bound(j), ReadFails(j)
    PROVE  Honours(j)
  BY StopOwnedHonours DEF ReadFails, At

LEMMA BlockHonours ==
    ASSUME NEW j \in Jobs, Bound(j), CopyBlock(j)
    PROVE  Honours(j)
  <1>1. /\ At(j, "block") /\ plan' = plan /\ ~ Ended(j) /\ ~ May(j, "truncate") /\ ~ Alias(j)
        /\ job[j].stage # "whole" /\ Ready(j)
    BY BoundFacts, WhatCannotFail DEF CopyBlock, At, Ended, Bound, AliasSound
  <1>2. ASSUME NEW blocks \in ReadBlocks(j), job[j].off > 0 => Exists(Target(j)),
               Set(Target(j), Written(Target(j), job[j].off, blocks)), Advance(j, Len(blocks))
        PROVE  Honours(j)
    <2> DEFINE w == Written(Target(j), job[j].off, blocks)
    <2>1. /\ w \in Seq(File) /\ Len(w) = job[j].off + Len(blocks)
          /\ \A i \in 1..(job[j].off + Len(blocks)) : w[i] = Src(j)
      BY <1>1, <1>2, BlockWritten
    <2>2. Len(blocks) \in Nat
      BY <1>1, BlocksRead
    <2>3. Becomes(j, [job[j] EXCEPT !.at = "loop", !.off = job[j].off + Len(blocks)])
      BY <1>2, <2>2, AdvanceBecomes, BoundFacts
    <2>4. job'[j].at = "loop" /\ job'[j].stage = job[j].stage /\ job'[j].size = job[j].size
      BY <2>3, BoundFacts DEF Becomes, JobState
    <2>5. Running(j) /\ GivesUp(j)
      BY <1>1, <2>4 DEF Running, GivesUp, Ended, At
    <2>6. \A i \in 1..Len(w) : w[i] = Src(j)
      BY <2>1
    <2>7. Set(Target(j), w) /\ w \in Seq(File) \cup {Absent} /\ job[j].at = "block"
      BY <1>1, <1>2, <2>1 DEF At
    <2> HIDE DEF w
    <2> QED
      BY <2>4, <2>5, <2>6, <2>7, TargetWritten
  <1>3. CASE StopOwned(j, "Failed") /\ UNCHANGED fs
    BY <1>1, <1>3, StopOwnedHonours DEF At
  <1> QED
    BY <1>1, <1>2, <1>3 DEF CopyBlock

(* The file is closed; some servers cut its end off without a word.        *)
LEMMA FinishHonours ==
    ASSUME NEW j \in Jobs, Bound(j), Finish(j)
    PROVE  Honours(j)
  <1>1. At(j, "finish") /\ plan' = plan /\ ~ Ended(j) /\ "verify" \in Step /\ Target(j) \in File
        /\ ~ Alias(j)
    BY BoundFacts DEF Finish, At, Ended, Step, Target, AliasSound
  <1>2. CASE Go(j, "verify") /\ UNCHANGED fs
    BY <1>1, <1>2, TempKeepsOld, GoesOn, Goes DEF At
  <1>3. CASE /\ Exists(Target(j)) /\ fs[Target(j)] # <<>>
             /\ Set(Target(j), SubSeq(fs[Target(j)], 1, Len(fs[Target(j)]) - 1))
             /\ Go(j, "verify")
    <2> DEFINE old == fs[Target(j)]
               c   == SubSeq(old, 1, Len(old) - 1)
    <2>1. old \in Seq(File) /\ Len(old) \in Nat /\ Len(old) > 0 /\ \A i \in 1..Len(old) : old[i] = Src(j)
      BY <1>1, <1>3, BoundFacts DEF CopySound, CopyIn, SizeIs, At, TypeOK, Exists
    <2>2. c \in Seq(File) /\ Len(c) = Len(old) - 1 /\ \A i \in 1..Len(c) : c[i] = old[i]
      BY <2>1
    <2>3. \A i \in 1..Len(c) : c[i] = Src(j)
      BY <2>1, <2>2
    <2>4. Becomes(j, [job[j] EXCEPT !.at = "verify"])
      BY <1>1, <1>3, GoBecomes, BoundFacts
    <2>5. job'[j].at = "verify" /\ job'[j].stage = job[j].stage /\ job'[j].size = job[j].size
      BY <2>4, BoundFacts DEF Becomes, JobState
    <2>6. Running(j) /\ GivesUp(j)
      BY <1>1, <2>5 DEF Running, GivesUp, Ended, At
    <2>7. Set(Target(j), c) /\ job[j].at = "finish"
      BY <1>1, <1>3 DEF At
    <2> HIDE DEF c
    <2> QED
      BY <2>2, <2>3, <2>5, <2>6, <2>7, TargetWritten
  <1>4. CASE StopAndDiscard(j, "Failed") /\ UNCHANGED fs
    BY <1>1, <1>4, TempKeepsOld, GivesUpNow DEF At
  <1> QED
    BY <1>2, <1>3, <1>4 DEF Finish

(* The size is checked, and whether the task was cancelled.                *)
LEMMA VerifyHonours ==
    ASSUME NEW j \in Jobs, Bound(j), Verify(j) \/ PreCommit(j)
    PROVE  Honours(j)
  <1>1. /\ job[j].at \in {"verify", "preCommit"} /\ plan' = plan /\ fs' = fs /\ ~ Ended(j)
        /\ {"preCommit", "commit", "dropTemp", "copied"} \subseteq Step
    BY DEF Verify, PreCommit, At, Ended, Step
  <1>2. ASSUME NEW step \in {"preCommit", "commit", "dropTemp", "copied"}, Go(j, step)
        PROVE  Honours(j)
    BY <1>1, <1>2, TempKeepsOld, GoesOn, Goes
  <1>3. ASSUME NEW r \in {"Failed", "Cancelled"}, StopAndDiscard(j, r) \/ Stop(j, r)
        PROVE  Honours(j)
    BY <1>1, <1>3, TempKeepsOld, GivesUpNow
  <1>4. AfterVerify(j) \in {"preCommit", "dropTemp", "copied"}
    BY DEF AfterVerify
  <1> QED
    BY <1>2, <1>3, <1>4 DEF Verify, PreCommit

-----------------------------------------------------------------------------
(* The complete temporary file takes its place.                            *)
LEMMA Installs ==
    ASSUME NEW j \in Jobs, Bound(j), job[j].at \in {"commit", "commitAgain"}, plan' = plan,
           Exists(Tmp(j)), Replace(Tmp(j), Dst(j)), Go(j, "copied")
    PROVE  Honours(j)
  <1>1. /\ ~ Alias(j) /\ ~ Ended(j) /\ Exists(Src(j)) /\ job[j].stage = "temp" /\ "copied" \in Step
        /\ CopyIn(j, Tmp(j)) /\ job[j].result # "Completed"
    BY BoundFacts, WhatCannotFail, SourceThere DEF AliasSound, Ended, At, Control, CopySound, Bound, Step
  <1>2. Becomes(j, [job[j] EXCEPT !.at = "copied"])
    BY <1>1, GoBecomes, BoundFacts
  <1>3. /\ job'[j].at = "copied" /\ job'[j].stage = "temp" /\ job'[j].size = job[j].size
        /\ job'[j].result = job[j].result
    BY <1>1, <1>2, BoundFacts DEF Becomes, JobState
  <1>4. /\ DestOf(j)' = "new" /\ (Alias(j)' <=> Alias(j))
        /\ CopyIn(j, Tmp(j))' = FALSE /\ SameSource(j)
    BY <1>1, <1>3, ViewReplaced
  <1>5. ~ Ended(j)'
    BY <1>3 DEF Ended, At
  <1>6. PromiseSound(j)'
    BY <1>3 DEF PromiseSound
  <1> QED
    BY <1>1, <1>3, <1>4, <1>5, <1>6, CopyInstalled DEF Honours, SameSource

LEMMA CommitHonours ==
    ASSUME NEW j \in Jobs, Bound(j), Commit(j)
    PROVE  Honours(j)
  <1>1. At(j, "commit") /\ plan' = plan /\ ~ Ended(j) /\ ~ May(j, "lostReply") /\ "replace" \in Step
    BY WhatCannotFail DEF Commit, RenameTemp, At, Ended, Bound, Step
  <1>2. CASE Exists(Tmp(j)) /\ Replace(Tmp(j), Dst(j)) /\ Go(j, "copied")
    BY <1>1, <1>2, Installs DEF At
  <1>3. CASE Go(j, "replace") /\ UNCHANGED fs
    BY <1>1, <1>3, BoundFacts, TempKeepsOld, GoesOn, Goes DEF At
  <1> QED
    BY <1>1, <1>2, <1>3 DEF Commit, RenameTemp

(* A destination that has to be rewritten has been removed by now.         *)
LEMMA CommitAgainHonours ==
    ASSUME NEW j \in Jobs, Bound(j), CommitAgain(j)
    PROVE  Honours(j)
  <1>1. At(j, "commitAgain") /\ plan' = plan /\ ~ Ended(j) /\ ~ May(j, "lostReply") /\ ~ Alias(j)
        /\ "loop" \in Step /\ "rewrite" \in Stage
    BY BoundFacts, WhatCannotFail DEF CommitAgain, RenameTemp, At, Ended, Bound, Step, Stage, AliasSound
  <1>2. CASE Exists(Tmp(j)) /\ Replace(Tmp(j), Dst(j)) /\ Go(j, "copied")
    BY <1>1, <1>2, Installs DEF At
  <1>3. CASE Begin(j, "loop", "rewrite") /\ UNCHANGED fs
    <2>1. ~ Exists(Dst(j))
      BY <1>1, BoundFacts DEF RewriteSound, At
    <2>2. Becomes(j, [job[j] EXCEPT !.at = "loop", !.stage = "rewrite", !.off = 0])
      BY <1>1, <1>3, BeginBecomes, BoundFacts
    <2>3. job'[j].at = "loop" /\ job'[j].stage = "rewrite" /\ job'[j].size = job[j].size
      BY <2>2, BoundFacts DEF Becomes, JobState
    <2>4. /\ SameDest(j) /\ SameSpare(j) /\ SameSource(j) /\ (Exists(Dst(j))' <=> Exists(Dst(j)))
      BY <1>1, <1>3, <2>3, View
    <2>5. PromiseSound(j)'
      BY <2>1, <2>3, <2>4 DEF PromiseSound, OldInPlace
    <2> QED
      BY <1>1, <2>3, <2>4, <2>5, Shown DEF Honours, Running, GivesUp, Ended, At
  <1> QED
    BY <1>1, <1>2, <1>3 DEF CommitAgain, RenameTemp

(* The old file, which is still there, is removed for the complete copy.   *)
LEMMA LookForOldHonours ==
    ASSUME NEW j \in Jobs, Bound(j), LookForOld(j)
    PROVE  Honours(j)
  <1>1. /\ At(j, "replace") /\ plan' = plan /\ fs' = fs /\ ~ Ended(j) /\ ~ Alias(j) /\ job[j].stage = "temp"
        /\ ~ May(j, "exists") /\ "unlinkOld" \in Step
    BY BoundFacts, WhatCannotFail DEF LookForOld, At, Ended, Bound, Step, AliasSound, Control
  <1>2. OldInPlace(j) /\ Exists(Dst(j))
    BY <1>1, TempKeepsOld DEF At, OldInPlace
  <1>3. Go(j, "unlinkOld")
    BY <1>1, <1>2 DEF LookForOld
  <1> QED
    BY <1>1, <1>2, <1>3, GoesOn, Goes

LEMMA UnlinkOldHonours ==
    ASSUME NEW j \in Jobs, Bound(j), UnlinkOld(j)
    PROVE  Honours(j)
  <1>1. /\ At(j, "unlinkOld") /\ plan' = plan /\ ~ Ended(j) /\ ~ Alias(j) /\ job[j].stage = "temp"
        /\ ~ May(j, "remove") /\ ~ May(j, "lostReply") /\ "commitAgain" \in Step
    BY BoundFacts, WhatCannotFail DEF UnlinkOld, At, Ended, Bound, Step, AliasSound, Control
  <1>2. OldInPlace(j) /\ Exists(Dst(j)) /\ DestOf(j) = "old"
    BY <1>1, TempKeepsOld, DestIsOld DEF At, OldInPlace
  <1>3. Set(Dst(j), Absent) /\ Go(j, "commitAgain")
    BY <1>1, <1>2 DEF UnlinkOld
  <1>4. Becomes(j, [job[j] EXCEPT !.at = "commitAgain"])
    BY <1>1, <1>3, GoBecomes, BoundFacts
  <1>5. job'[j].at = "commitAgain" /\ job'[j].stage = "temp" /\ job'[j].size = job[j].size
    BY <1>1, <1>4, BoundFacts DEF Becomes, JobState
  <1>6. fs'[Dst(j)] = Absent /\ fs'[Tmp(j)] = fs[Tmp(j)] /\ fs'[Src(j)] = fs[Src(j)]
    BY <1>1, <1>3, BoundFacts, SetFiles DEF Alias
  <1>7. SameSpare(j) /\ SameSource(j)
    BY <1>1, <1>5, <1>6, View
  <1>8. DestOf(j)' = "none"
    BY <1>1, <1>6 DEF DestOf, Exists, Dst
  <1>9. CopyIn(j, Tmp(j))
    <2>1. Exists(Tmp(j))
      BY <1>1, BoundFacts DEF CopySound, At
    <2> QED
      BY <1>1, <2>1, BoundFacts DEF CopySound, At
  <1>10. PromiseSound(j)'
    BY <1>5 DEF PromiseSound
  <1>11. ~ Ended(j)'
    BY <1>5 DEF Ended, At
  <1>12. Replaces(j)
    BY <1>1, <1>2, <1>7, <1>8, <1>9, <1>11
    DEF SameSpare, SameSource, Replaces, Promise!Next, Promise!Unlink
  <1> QED
    BY <1>10, <1>12 DEF Honours

(* The temporary file is not needed any more.                              *)
LEMMA DropTempHonours ==
    ASSUME NEW j \in Jobs, Bound(j), DropTemp(j)
    PROVE  Honours(j)
  <1>1. /\ At(j, "dropTemp") /\ plan' = plan /\ ~ Ended(j) /\ ~ Alias(j) /\ job[j].stage = "rewrite"
        /\ ~ May(j, "remove") /\ "copied" \in Step /\ Ready(j)
    BY BoundFacts, WhatCannotFail DEF DropTemp, At, Ended, Bound, Step, AliasSound, Control, PromiseSound
  <1>2. Set(Tmp(j), Absent) /\ Go(j, "copied")
    BY <1>1 DEF DropTemp
  <1>3. Becomes(j, [job[j] EXCEPT !.at = "copied"])
    BY <1>1, <1>2, GoBecomes, BoundFacts
  <1>4. job'[j].at = "copied" /\ job'[j].stage = "rewrite" /\ job'[j].size = job[j].size
    BY <1>1, <1>3, BoundFacts DEF Becomes, JobState
  <1>5. DestOf(j) = "new"
    BY <1>1, BoundFacts, NotBoth DEF CopySound, At
  <1>6. Running(j) /\ GivesUp(j)
    BY <1>1, <1>4 DEF Running, GivesUp, Ended, At
  <1>7. Replaces(j) /\ (OldInPlace(j)' <=> OldInPlace(j))
    BY <1>2, <1>4, <1>5, <1>6, TempWritten
  <1>8. PromiseSound(j)'
    BY <1>1, <1>4, <1>7 DEF Bound, PromiseSound
  <1> QED
    BY <1>7, <1>8 DEF Honours

(* The end: a copy is Completed, a move looks again, and deletes.          *)
LEMMA CopiedHonours ==
    ASSUME NEW j \in Jobs, Bound(j), Copied(j) \/ MoveStat(j)
    PROVE  Honours(j)
  <1>1. /\ job[j].at \in {"copied", "moveStat"} /\ plan' = plan /\ fs' = fs /\ ~ Ended(j) /\ ~ Alias(j)
        /\ CopyIn(j, Dst(j)) /\ {"moveStat", "unlinkSource"} \subseteq Step
    BY BoundFacts DEF Copied, MoveStat, At, Ended, Step, AliasSound, CopySound
  <1>2. ASSUME NEW step \in {"moveStat", "unlinkSource"}, Go(j, step)
        PROVE  Honours(j)
    BY <1>1, <1>2, GoesOn, Goes
  <1>3. ASSUME NEW r \in {"Failed", "Cancelled"}, Stop(j, r)
        PROVE  Honours(j)
    BY <1>1, <1>3, GivesUpNow
  <1>4. CASE ~ plan[j].isMove /\ Stop(j, "Completed")
    BY <1>1, <1>4, Finishes
  <1> QED
    BY <1>2, <1>3, <1>4 DEF Copied, MoveStat

LEMMA UnlinkSourceHonours ==
    ASSUME NEW j \in Jobs, Bound(j), UnlinkSource(j)
    PROVE  Honours(j)
  <1>1. /\ At(j, "unlinkSource") /\ plan' = plan /\ ~ Ended(j) /\ ~ Alias(j) /\ plan[j].isMove
        /\ CopyIn(j, Dst(j)) /\ Ready(j)
    BY BoundFacts DEF UnlinkSource, At, Ended, AliasSound, CopySound, Control, Bound
  <1>2. CASE Exists(Src(j)) /\ Set(Src(j), Absent) /\ Stop(j, "Completed")
    <2>1. job'[j] = [job[j] EXCEPT !.at = "end", !.result = "Completed"]
      BY <1>2, BoundFacts, StopBecomes DEF Becomes, Result
    <2>2. /\ job'[j].at = "end" /\ job'[j].result = "Completed" /\ job'[j].size = job[j].size
          /\ job'[j].stage = job[j].stage
      BY <2>1, BoundFacts DEF JobState
    <2>3. fs'[Src(j)] = Absent /\ fs'[Dst(j)] = fs[Dst(j)] /\ fs'[Tmp(j)] = fs[Tmp(j)]
      BY <1>1, <1>2, BoundFacts, SetFiles DEF Alias
    <2>4. /\ SameDest(j) /\ SameSpare(j) /\ (OldInPlace(j)' <=> OldInPlace(j)) /\ (Alias(j)' <=> Alias(j))
      BY <1>1, <2>2, <2>3, View
    <2>5. ~ Exists(Src(j))'
      BY <1>1, <2>3 DEF Exists, Src
    <2>6. DestOf(j) = "new"
      BY <1>1, NotBoth, BoundFacts
    <2>7. PromiseSound(j)'
      BY <2>2, <2>4 DEF Bound, PromiseSound
    <2>8. Ended(j)'
      BY <2>2 DEF Ended, At
    <2>9. Replaces(j)
      BY <1>1, <1>2, <2>2, <2>4, <2>5, <2>6, <2>8
      DEF SameDest, SameSpare, Replaces, Promise!Next, Promise!Report
    <2> QED
      BY <2>7, <2>9 DEF Honours
  <1>3. CASE Stop(j, "Failed") /\ UNCHANGED fs
    BY <1>1, <1>3, GivesUpNow
  <1> QED
    BY <1>1, <1>2, <1>3 DEF UnlinkSource

LEMMA DiscardHonours ==
    ASSUME NEW j \in Jobs, Bound(j), Discard(j)
    PROVE  Honours(j)
  <1>1. /\ At(j, "discard") /\ plan' = plan /\ ~ Ended(j) /\ ~ May(j, "remove") /\ "end" \in Step
        /\ job[j].result \in {"Failed", "Cancelled"}
    BY BoundFacts, WhatCannotFail DEF Discard, At, Ended, Bound, Step, Control, JobState, Result
  <1>2. Set(Target(j), Absent) /\ Go(j, "end")
    BY <1>1 DEF Discard
  <1>3. Becomes(j, [job[j] EXCEPT !.at = "end"])
    BY <1>1, <1>2, GoBecomes, BoundFacts
  <1>4. /\ job'[j].at = "end" /\ job'[j].stage = job[j].stage /\ job'[j].size = job[j].size
        /\ job'[j].result = job[j].result
    BY <1>3, BoundFacts DEF Becomes, JobState
  <1>5. Running(j) /\ GivesUp(j)
    BY <1>1, <1>4 DEF Running, GivesUp
  <1> QED
    BY <1>1, <1>2, <1>4, <1>5, TargetWritten DEF At

(* A file that is collected in memory has no positional destination.       *)
LEMMA NotCollected ==
    ASSUME NEW j \in Jobs, Bound(j)
    PROVE  /\ ~ WholeProbe(j) /\ ~ WholeLoop(j) /\ ~ CollectBlock(j) /\ ~ CollectFails(j)
           /\ ~ WholeCancelled(j) /\ ~ WholePut(j)
  BY BoundFacts DEF WholeProbe, WholeLoop, CollectBlock, CollectFails, WholeCancelled, WholePut, At, Control,
     Bound, PromiseSound

-----------------------------------------------------------------------------
(* Every step of a job honours its promise.                                *)
LEMMA OwnStepHonours ==
    ASSUME NEW j \in Jobs, Bound(j), DriverStep(j) \/ CommandRunsOn(j)
    PROVE  Honours(j)
  BY StatHonours, RenameHonours, NoShellHonours, CommandHonours, ShellCheckHonours, RunsOnHonours, ChooseHonours,
     ProbeHonours, LoopHonours, ReadFailsHonours, BlockHonours, FinishHonours, VerifyHonours, CommitHonours,
     CommitAgainHonours, LookForOldHonours, UnlinkOldHonours, DropTempHonours, CopiedHonours, UnlinkSourceHonours,
     DiscardHonours, NotCollected
  DEF DriverStep

(* A job whose files and progress are left alone does not take a step.     *)
LEMMA OtherHonours ==
    ASSUME NEW j \in Jobs, plan' = plan, job'[j] = job[j], \A f \in FilesOf(plan, j) : fs'[f] = fs[f],
           PromiseSound(j)
    PROVE  Honours(j)
  <1>1. fs'[Src(j)] = fs[Src(j)] /\ fs'[Dst(j)] = fs[Dst(j)] /\ fs'[Tmp(j)] = fs[Tmp(j)]
    BY DEF FilesOf, Src, Dst, Tmp
  <1>2. /\ SameDest(j) /\ SameSpare(j) /\ SameSource(j) /\ (OldInPlace(j)' <=> OldInPlace(j))
        /\ (Exists(Dst(j))' <=> Exists(Dst(j))) /\ (Alias(j)' <=> Alias(j))
    BY <1>1, View
  <1>3. Ended(j)' <=> Ended(j)
    BY DEF Ended, At
  <1>4. PromiseSound(j)'
    BY <1>2 DEF PromiseSound, SameSource
  <1>5. UNCHANGED Promise(j)!vars
    BY <1>2, <1>3 DEF SameDest, SameSpare, SameSource, Promise!vars
  <1> QED
    BY <1>4, <1>5 DEF Honours, Replaces

LEMMA PlansStay ==
    ASSUME IInv, [Next]_vars
    PROVE  plan' = plan
  <1>1. ASSUME NEW j \in Jobs, DriverStep(j) \/ CommandRunsOn(j), UNCHANGED cancelled
        PROVE  plan' = plan
    BY <1>1, ReadyForIt, OwnStep DEF Kept, KeepsTo
  <1> QED
    BY <1>1 DEF Next, Cancel, EntryCleared, vars

LEMMA NextHonours ==
    ASSUME PInv, [Next]_vars
    PROVE  PInv' /\ \A j \in Jobs : Promised(j) => Replaces(j)
  <1>1. LInv' /\ plan' = plan
    BY NextIInv, PlansStay DEF PInv, LInv
  <1>2. ASSUME NEW i \in Jobs, DriverStep(i) \/ CommandRunsOn(i), UNCHANGED cancelled, NEW j \in Jobs, Promised(j)
        PROVE  Honours(j)
    <2>1. Ready(i) /\ Ready(j) /\ LeftSound(j) /\ PromiseSound(j)
      BY <1>2, ReadyForIt DEF PInv, LInv
    <2>2. CASE i = j
      BY <1>2, <2>1, <2>2, OwnStepHonours DEF Bound
    <2>3. CASE i # j
      <3>1. Kept(i)
        BY <1>2, <2>1, OwnStep
      <3>2. \A f \in FilesOf(plan, j) : f \in File /\ f \notin WrittenBy(plan, i)
        BY <2>3, JobAssumption DEF JobAssumption, PInv, LInv, IInv, Hypotheses, FilesApart, TypeOK, FilesOf, Plan
      <3>3. job'[j] = job[j] /\ \A f \in FilesOf(plan, j) : fs'[f] = fs[f]
        BY <2>3, <3>1, <3>2 DEF Kept, KeepsTo
      <3> QED
        BY <1>1, <2>1, <3>3, OtherHonours
    <2> QED
      BY <2>2, <2>3
  <1>3. ASSUME UNCHANGED <<fs, plan, job>>, NEW j \in Jobs, Promised(j)
        PROVE  Honours(j)
    BY <1>3, OtherHonours DEF PInv
  <1>4. \A j \in Jobs : Promised(j) => Honours(j)
    BY <1>2, <1>3 DEF Next, Cancel, EntryCleared, vars
  <1>5. \A j \in Jobs : Promised(j)' <=> Promised(j)
    BY <1>1 DEF Promised
  <1> QED
    BY <1>1, <1>4, <1>5 DEF PInv, Honours

LEMMA InitHonours ==
    ASSUME Hypotheses, TempsNew, Init
    PROVE  PInv /\ \A j \in Jobs : Promised(j) => Promise(j)!Init
  <1>1. LInv
    BY InitIInv
  <1>2. ASSUME NEW j \in Jobs, Promised(j)
        PROVE  PromiseSound(j) /\ Promise(j)!Init
    <2>1. job[j] = NewJob /\ plan[j] \in Plan /\ plan[j].isMove \in BOOLEAN /\ Ready(j) /\ LeftSound(j)
      BY <1>1, ReadyForIt, JobAssumption DEF JobAssumption, Init, LInv, Plan
    <2>2. job[j].at = "stat" /\ job[j].stage = "none" /\ job[j].size = 0 /\ ~ Ended(j)
      BY <2>1 DEF NewJob, Ended, At
    <2>3. ~ Alias(j) => ~ Exists(Dst(j)) \/ OldInPlace(j)
      BY <1>2, <2>1, <2>2, WhatCannotFail DEF LeftSound, DestSound, Promised
    <2>4. PromiseSound(j)
      BY <2>2, <2>3 DEF PromiseSound
    <2>5. CopyIn(j, Tmp(j)) = FALSE
      <3>1. ~ Exists(Tmp(j))
        BY <2>1, <2>2, <1>2, WhatCannotFail DEF LeftSound, TempSound
      <3> QED
        BY <3>1 DEF CopyIn, SizeIs
    <2>6. DestOf(j) \in {"none", "old"}
      BY <2>2, <2>3 DEF DestOf
    <2> QED
      BY <2>1, <2>2, <2>4, <2>5, <2>6 DEF Promise!Init
  <1> QED
    BY <1>1, <1>2 DEF PInv

-----------------------------------------------------------------------------
(* The theorem: of jobs that write to no file of another one, and find no  *)
(* temporary file and no empty destination.                                *)

LEMMA AlwaysHonoured == Hypotheses /\ TempsNew => (Spec => []PInv)
  <1>1. Hypotheses /\ TempsNew /\ Init => PInv
    BY InitHonours
  <1>2. PInv /\ [Next]_vars => PInv'
    BY NextHonours
  <1> QED
    BY <1>1, <1>2, PTL DEF Spec

(* "An existing file is replaced only by a complete copy": every transfer  *)
(* that is promised to implements FileReplace, step by step, for any       *)
(* number of jobs, size of file and order of failing calls.                *)
THEOREM PromisesKept == Hypotheses /\ TempsNew => (Spec => KeepsPromise)
  <1> DEFINE First == \A j \in Jobs : Promised(j) => Promise(j)!Init
             Steps == \A j \in Jobs : Promised(j) => [Promise(j)!Next]_(Promise(j)!vars)
  <1>1. Hypotheses /\ TempsNew /\ Init => First
    BY InitHonours
  <1>2. PInv /\ [Next]_vars => Steps
    BY NextHonours DEF Replaces
  <1>3. KeepsPromise <=> First /\ [][Steps]_vars
    BY DEF KeepsPromise
  <1> HIDE DEF First, Steps
  <1> QED
    BY <1>1, <1>2, <1>3, AlwaysHonoured, PTL DEF Spec

(* The same for one transfer, as the specification it implements.          *)
THEOREM PromiseImplemented ==
    ASSUME NEW j \in Jobs, Hypotheses, TempsNew
    PROVE  Spec => (Promised(j) => Promise(j)!Spec)
  <1>1. Init /\ Promised(j) => Promise(j)!Init
    BY InitHonours
  <1>2. PInv /\ Promised(j) /\ [Next]_vars => Promised(j)' /\ [Promise(j)!Next]_(Promise(j)!vars)
    BY NextHonours, PlansStay DEF Replaces, Promised, PInv, LInv
  <1>3. Spec => []PInv
    BY AlwaysHonoured
  <1> QED
    BY <1>1, <1>2, <1>3, PTL DEF Spec, Promise!Spec
=============================================================================
