---------------------------- MODULE MCTransferJob ----------------------------
(* Small instances of TransferJob for TLC.                                 *)
EXTENDS TransferJob

MCFile == {"src", "dst", "tmp"}

(* n blocks that are the data of f.                                        *)
Data(f, n) == [i \in 1..n |-> f]

(* A source of no, one or two blocks; a destination that is missing,       *)
(* smaller, or of the same size.                                           *)
MCInitialFS ==
    {[f \in MCFile |-> CASE f = "src" -> Data("src", n)
                         [] f = "dst" -> old
                         [] f = "tmp" -> Absent] :
        n \in 0..2, old \in {Absent, Data("dst", 1), Data("dst", 2)}}

(* Every kind of request; the shell matters to one session only.           *)
Requests(dst, faultSets) ==
    {p \in [src : {"src"}, dst : {dst}, tmp : {"tmp"}, isMove : BOOLEAN,
            sameSession : BOOLEAN, positional : BOOLEAN, shell : BOOLEAN,
            faults : faultSets] :
        p.shell => p.sameSession}

(* Two sessions that lead to the same file by different paths; a copy of   *)
(* the whole-file kind is left out, the code does not check it.            *)
Aliases(faultSets) ==
    {p \in Requests("src", faultSets) : ~ p.sameSession /\ (p.positional \/ p.isMove)}

AllFaults == FaultKinds \ {"silentShell"}

(* Without an error of the lookups that tell a file from its alias.        *)
SafeLookups == AllFaults \ {"marker", "exists", "stat", "noTimes"}

(* All kinds of faults, and all but those some property must do without.   *)
Profiles == { AllFaults, {"silentShell"}, AllFaults \ {"lostReply", "stat", "exists"},
              AllFaults \ {"remove"}, AllFaults \ {"remove", "stat", "truncate"} }

(* To a positional destination where temporary files can be created and    *)
(* the calls that look at and remove files answer.                         *)
PromisePlans  ==
    [Jobs -> {p \in Requests("dst", {PromiseFaults}) \cup Aliases({PromiseFaults}) : p.positional}]

(* In behaviours of its own: see Promise below.                            *)
AnyPlans == [Jobs -> Requests("dst", Profiles) \cup Aliases({SafeLookups})] \cup PromisePlans

(* These instances are among those the theorems are about.                 *)
ASSUME MCHypotheses == Hypotheses /\ TempsNew

=============================================================================
