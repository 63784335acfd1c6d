--------------------------- MODULE MCTransferTree ---------------------------
(* A small instance of TransferTree for TLC: two files whose names differ  *)
(* in case only, a folder with a file, a link and a special entry in it.   *)
EXTENDS TransferTree

Entry(parent, kind, key) == [parent |-> parent, kind |-> kind, key |-> key]

Tree ==
    [a |-> Entry("root", "file", "k"),      A |-> Entry("root", "file", "k"),
     d |-> Entry("root", "dir", "d"),       x |-> Entry("d", "file", "dx"),
     l |-> Entry("d", "linkToFile", "dl"),  f |-> Entry("d", "linkToDir", "df"),
     e |-> Entry("d", "dir", "de"),         g |-> Entry("e", "dir", "deg"),
     n |-> Entry("root", "dangling", "n"),  s |-> Entry("root", "special", "s"),
     u |-> Entry("root", "unsafe", "u"),
     y |-> Entry("d", "file", "dy"),        z |-> Entry("root", "file", "z")]

MCNode   == DOMAIN Tree
MCParent == [n \in MCNode |-> Tree[n].parent]
MCKind   == [n \in MCNode |-> Tree[n].kind]
MCKey    == [n \in MCNode |-> Tree[n].key]

MCFirstTrees == { {}, {"a", "A"}, {"d", "e", "x"}, {"a", "d", "l", "f"}, {"d", "e", "g", "x"},
                  {"a", "s", "n"}, {"a", "u"} }

MCLate == {"y", "z"}

MCPlans ==
    {p \in [root : {"folder", "link", "missing"}, isMove : BOOLEAN, store : BOOLEAN,
            folds : BOOLEAN, faults : {TreeFaults, TreeFaults \ {"parent"}}] :
        p.store => p.root = "folder"}

=============================================================================
