-------------------------- MODULE MCTransferSystem --------------------------
(* Small instances of TransferSystem for TLC.                              *)
EXTENDS TransferSystem, TLC

MCPaths == {"x", "y"}
MCNorm  == [p \in MCPaths |-> p]

Req(ss, s, ds, d, m) ==
    [srcSession |-> ss, src |-> s, dstSession |-> ds, dst |-> d, isMove |-> m]

(* A copy within one session and a move from another to one destination.   *)
SharedDestination ==
    { Req("A", "x", "B", "x", TRUE),
      Req("B", "y", "B", "x", FALSE) }

Data(s, p, n) == [i \in 1..n |-> <<s, p>>]

Sources == (<<"A", "x">> :> Data("A", "x", 2)) @@ (<<"B", "y">> :> Data("B", "y", 2))

=============================================================================
