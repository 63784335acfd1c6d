--------------------------- MODULE MCTransferQueue ---------------------------
(* Small instances of TransferQueue for TLC.                               *)
EXTENDS TransferQueue

(* "x" and "x2" are two spellings of one path ("/d/x", "/d/./x"); "in" is  *)
(* inside "x".                                                             *)
MCPaths == {"x", "x2", "y", "in"}
MCNorm  == [p \in MCPaths |-> IF p = "x2" THEN "x" ELSE p]
MCBelow == {<<"in", "x">>}

Req(ss, s, ds, d, m) ==
    [srcSession |-> ss, src |-> s, dstSession |-> ds, dst |-> d, isMove |-> m]

(* Two spellings of one destination, two moves of one source, and a copy  *)
(* of a folder into itself.                                               *)
MixedRequests ==
    { Req("A", "y",  "B", "x",  FALSE),
      Req("A", "in", "B", "x2", TRUE),
      Req("A", "in", "B", "y",  TRUE),
      Req("A", "x2", "A", "in", FALSE) }

(* A move, and a copy to another place.                                    *)
TwoRequests ==
    { Req("A", "x", "B", "x", TRUE),
      Req("A", "y", "B", "y", FALSE) }

=============================================================================
