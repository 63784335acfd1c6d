------------------------------- MODULE MCDav -------------------------------
(***************************************************************************)
(* The parts of the virtual disk, each in behaviours of its own: part says *)
(* which moves, the others stay as they are when no request has come.      *)
(***************************************************************************)
EXTENDS DavWrite, DavRead, DavConnection, TLC

CONSTANTS r1, r2, a, A, b, g1, g2

(* ------------------------------- DavWrite ------------------------------- *)
MCLower  == (a :> a) @@ (A :> a) @@ (b :> b)
MCServers ==
    {[positional |-> TRUE,  overwrites |-> FALSE, folds |-> FALSE, faults |-> {"write", "rename", "lostReply"}],
     [positional |-> TRUE,  overwrites |-> FALSE, folds |-> TRUE, faults |-> {"stat", "mkdir", "list"}],
     [positional |-> TRUE,  overwrites |-> TRUE,  folds |-> FALSE, faults |-> {"remove", "create", "rename", "lostReply"}],
     [positional |-> FALSE, overwrites |-> TRUE,  folds |-> FALSE, faults |-> {"store", "stat"}]}
Upload(p, n, ok) == [op |-> "PUT", path |-> p, dest |-> p, overwrite |-> TRUE, pieces |-> n, asAnnounced |-> ok]
Plain(op, p) == [op |-> op, path |-> p, dest |-> p, overwrite |-> TRUE, pieces |-> 0, asAnnounced |-> TRUE]
Onto(op, p, q, over) == [op |-> op, path |-> p, dest |-> q, overwrite |-> over, pieces |-> 0, asAnnounced |-> TRUE]
MCAsks ==
    {Upload(a, 2, TRUE), Upload(a, 2, FALSE), Upload(b, 1, TRUE),
     Plain("DELETE", b), Plain("MKCOL", b),
     Onto("MOVE", a, b, TRUE), Onto("MOVE", b, a, FALSE), Onto("MOVE", a, A, TRUE), Onto("MOVE", A, a, TRUE),
     Onto("COPY", a, b, TRUE), Onto("COPY", a, A, TRUE)}
MCStarts == {start \in [{a, A, b} -> {Absent, Folder, Whole(a), Whole(A), Whole(b)}] :
                /\ start[a] \in {Whole(a), Folder} /\ start[A] \in {Absent, Whole(A)}
                /\ start[b] \in {Absent, Folder, Whole(b)}
                /\ start[A] = Absent \/ start[b] = Whole(b)}

(* ------------------------------- DavRead -------------------------------- *)
MCSize == <<2, 3, 2>>

(* ----------------------------- DavConnection ---------------------------- *)
Q(put, chunked, chunks, longer, close) ==
    [put |-> put, chunked |-> chunked, chunks |-> chunks, longer |-> longer, close |-> close]
MCBodies ==
    {Q(TRUE, FALSE, <<2>>, FALSE, FALSE), Q(TRUE, TRUE, <<1, 2>>, FALSE, FALSE),
     Q(FALSE, TRUE, <<2>>, FALSE, FALSE), Q(FALSE, FALSE, <<1>>, FALSE, TRUE),
     Q(FALSE, FALSE, <<0>>, FALSE, FALSE), Q(TRUE, TRUE, <<1>>, TRUE, FALSE),
     Q(TRUE, FALSE, <<0>>, FALSE, FALSE)}
MCScripts == {<<x, y>> : x, y \in MCBodies} \cup {<<x, y, x>> : x, y \in MCBodies}

(* ------------------------------ Together -------------------------------- *)
VARIABLE part
MCInit ==
    \/ /\ part = "write" /\ DavInit /\ ReadInit
       /\ ConnInit /\ script = <<Q(FALSE, FALSE, <<0>>, FALSE, FALSE), Q(FALSE, FALSE, <<0>>, FALSE, FALSE)>>
    \/ /\ part \in {"read", "connection"}
       /\ server = (CHOOSE s \in Servers : TRUE)
       /\ files = [n \in Name |-> Absent]
       /\ ask = [r \in Request |-> CHOOSE q \in Asks : TRUE]
       /\ at = [r \in Request |-> "idle"]
       /\ seen = [r \in Request |-> [src |-> Absent, dst |-> Absent]]
       /\ count = [r \in Request |-> 0] /\ code = [r \in Request |-> "none"]
       /\ ReadInit /\ ConnInit
       /\ part = "read" => script = CHOOSE s \in Scripts : TRUE
MCNext ==
    /\ UNCHANGED part
    /\ \/ part = "write" /\ DavNext /\ UNCHANGED <<readVars, connVars>>
       \/ part = "read" /\ ReadNext /\ UNCHANGED <<davVars, connVars>>
       \/ part = "connection" /\ ConnNext /\ UNCHANGED <<davVars, readVars>>
MCSpec == MCInit /\ [][MCNext]_<<part, davVars, readVars, connVars>>

MCSymmetry == Permutations({r1, r2}) \cup Permutations({g1, g2})
=============================================================================
