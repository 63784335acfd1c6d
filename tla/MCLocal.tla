------------------------------ MODULE MCLocal -------------------------------
(***************************************************************************)
(* What the program keeps of a server on this computer: a folder it keeps  *)
(* in step, the disk cache and the chunk cache, each in behaviours of its  *)
(* own (part says which).                                                  *)
(***************************************************************************)
EXTENDS ContinuousSync, DiskCache, ChunkCache, TLC

CONSTANTS da, dax, db, dbx, fa, fax, fb, t1, t2, s1, s2, k1, k2, k3

MCAbove == (da :> da) @@ (dax :> da) @@ (db :> db) @@ (dbx :> db)

MCBelow == (fa :> {fax}) @@ (fax :> {}) @@ (fb :> {})
MCSite  == (fa :> s1) @@ (fax :> s1) @@ (fb :> s2)
CallFor(op, x, n) == [op |-> op, file |-> x, size |-> n]
MCCalls == {CallFor("put", fa, 1), CallFor("put", fa, 4), CallFor("put", fax, 4),
            CallFor("put", fb, 4), CallFor("drop", fa, 1)}

VARIABLE part
MCInit ==
    /\ part \in {"sync", "disk", "chunks"}
    /\ SyncInit /\ CacheInit /\ ChunkInit
    /\ part # "sync" => local = [p \in Entry |-> IF Within(p) = {} THEN Gone ELSE Dir]
MCNext ==
    /\ UNCHANGED part
    /\ \/ part = "sync" /\ SyncNext /\ UNCHANGED <<cacheVars, chunkVars>>
       \/ part = "disk" /\ CacheNext /\ UNCHANGED <<syncVars, chunkVars>>
       \/ part = "chunks" /\ ChunkNext /\ UNCHANGED <<syncVars, cacheVars>>
MCSpec == MCInit /\ [][MCNext]_<<part, syncVars, cacheVars, chunkVars>>

MCSymmetry == Permutations({t1, t2}) \cup Permutations({k1, k2, k3})
=============================================================================
