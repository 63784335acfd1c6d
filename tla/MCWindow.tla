------------------------------ MODULE MCWindow -------------------------------
(***************************************************************************)
(* What the window asks for: the saved sites in their vault and their      *)
(* tree, the commands on files of one server and the plan of a             *)
(* synchronization, each in behaviours of its own (part says which).       *)
(***************************************************************************)
EXTENDS Vault, SiteTree, FileCommands, SyncPlan, TLC

CONSTANTS p1, p2, f1, f2

A  == <<"a">>
AB == <<"a", "b">>
MCLower == [n \in {"a", "A", "b"} |-> IF n = "A" THEN "a" ELSE n]
SiteIn(group) == [group |-> group, ver |-> 1]
MCStartSites == ("s1" :> SiteIn(A)) @@ ("s2" :> SiteIn(AB)) @@ ("s3" :> NoSite)
MCStartLayout ==
    [EmptyLayout EXCEPT !.folders = {A, AB}, !.labels = {"red"},
        !.marks = {<<"folder", A>>, <<"site", "s2">>},
        !.siteLabel["s1"] = "red", !.folderLabel[A] = "red"]
MCBatch ==
    {<< <<"rename folder", A, "b", FALSE>>, <<"move sites", "s1", A>> >>,
     << <<"set favorites", {<<"site", "s1">>}>>, <<"delete folder", A, TRUE>> >>,
     << <<"delete sites", "s1">>, <<"delete folder", A, FALSE>> >>,
     << <<"copy folder", AB, Top, "b">>, <<"rename folder", A, "A", FALSE>>, <<"rename site", "s1", 5>> >>,
     << <<"copy sites", "s1", Top>>, <<"set label", "folder", AB, "red">>, <<"move folder", AB, Top, TRUE>>,
        <<"set labels", {}>>, <<"create folder", <<"b", "a">>>> >>}

MCFolded == [n \in {"x", "X", "x1", "x2", "zip"} |-> IF n = "X" THEN "x" ELSE n]
MCCopies == [n \in {"x", "X", "x1", "x2", "zip"} |-> IF n = "x" THEN <<"x1", "x2">> ELSE <<>>]
AskFor(do, items, overs) == {[do |-> do, items |-> items, over |-> o] : o \in overs}
MCAsked ==
    AskFor("move", <<"x", "X">>, {FALSE})
    \cup AskFor("delete", <<"x", "X">>, {FALSE}) \cup AskFor("trash", <<"x", "x1">>, {FALSE})
    \cup AskFor("restore", <<>>, {FALSE}) \cup AskFor("empty", <<>>, {FALSE})
    \cup AskFor("duplicate", <<"x">>, {FALSE}) \cup AskFor("copy", <<"x">>, {FALSE})
    \cup AskFor("compress", <<"x", "X">>, BOOLEAN) \cup AskFor("extract", <<"x", "x2">>, BOOLEAN)
(* A server that fails a rename onto a file, one that replaces it, a store *)
(* of objects, and one whose shell sees other files than its file API.     *)
Machine(replaces, store, shell, apart, folds) ==
    [replaces |-> replaces, store |-> store, shell |-> shell, apart |-> apart, folds |-> folds]
MCMachines ==
    {Machine(FALSE, FALSE, TRUE, FALSE, TRUE), Machine(TRUE, FALSE, TRUE, FALSE, TRUE),
     Machine(TRUE, TRUE, FALSE, FALSE, FALSE), Machine(FALSE, FALSE, TRUE, TRUE, FALSE)}
MCContents ==
    {[s \in Spot |-> IF s \in there THEN Content({s[1] \o s[2]}, "start") ELSE NoFile] : there \in
       {{Home("x"), Home("X")}, {Home("x"), Home("X"), Home("x1"), Home("zip"), <<"dest", "x1">>}}}

FileTaskSymmetry == Permutations({f1, f2})

VARIABLE part
siteVars == <<vaultVars, treeVars>>
MCInit ==
    /\ part \in {"vault", "tree", "files", "plan"}
    /\ VaultInit /\ TreeInit /\ FileInit /\ PlanInit
    /\ part # "vault" => ~has_store
    /\ part # "tree" => ~read_only
    /\ part # "files" => machine.store /\ trash = <<>> /\ ~Taken(Home("zip"))
    /\ part # "plan" => \A s \in Side, f \in SyncFile : side[s][f] = [ver |-> 1, size |-> 1, at |-> 1]
MCNext ==
    /\ UNCHANGED part
    /\ \/ part = "vault" /\ VaultNext /\ UNCHANGED <<treeVars, fileVars, planVars>>
       \/ part = "tree" /\ TreeNext /\ UNCHANGED <<vaultVars, fileVars, planVars>>
       \/ part = "files" /\ FileNext /\ UNCHANGED <<siteVars, planVars>>
       \/ part = "plan" /\ PlanNext /\ UNCHANGED <<siteVars, fileVars>>
MCSpec == MCInit /\ [][MCNext]_<<part, siteVars, fileVars, planVars>>
=============================================================================
