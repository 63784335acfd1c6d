----------------------------- MODULE ChunkCache -----------------------------
(***************************************************************************)
(* The in-memory chunk cache of crates/rustscp-cache/src/lib.rs, with the  *)
(* write-back of a caller: it takes the dirty chunks, writes each to the   *)
(* server and marks it clean.  Every put carries new data, numbered.       *)
(***************************************************************************)
EXTENDS Naturals, Sequences, FiniteSets, FiniteSetsExt

CONSTANTS
    ChunkKey,   \* keys of chunks
    Lengths,    \* lengths of the data of a chunk
    MaxChunks,  \* max_memory_chunks
    MaxBytes,   \* max_memory_bytes
    LastData    \* bound: puts of a behaviour

ASSUME ChunkAssumption ==
    /\ IsFiniteSet(ChunkKey) /\ Lengths \subseteq Nat /\ LastData \in Nat
    /\ MaxChunks \in Nat /\ MaxBytes \in Nat

VARIABLES
    chunks,     \* the chunks held: [key -> length, data, dirty, tick]
    clock,      \* data and ticks given out
    flushing,   \* what the write-back took and has not worked off: <<key, data>>
    marking,    \* what it has written and will mark clean
    written,    \* history: the last data a caller put as dirty, per key
    flushed,    \* history: the last data the write-back wrote, per key
    raced       \* history: keys put between the snapshot and mark_clean, or
                \* put as clean while they were dirty

chunkVars == <<chunks, clock, flushing, marking, written, flushed, raced>>

Chunk(n, v, dirty) == [length |-> n, data |-> v, dirty |-> dirty, tick |-> v]
Bytes(c)     == MapThenSumSet(LAMBDA k : c[k].length, DOMAIN c)
Exceeds(c)   == Cardinality(DOMAIN c) > MaxChunks \/ Bytes(c) > MaxBytes  \* is_over_budget
WithoutAll(c, K) == [j \in DOMAIN c \ K |-> c[j]]
With(c, k, x)  == [j \in DOMAIN c \cup {k} |-> IF j = k THEN x ELSE c[j]]

(* Mutant: dirty chunks are victims like others.                           *)
AnyVictims(c, k) == DOMAIN c \ {k}
Victims(c, k) == {j \in DOMAIN c : ~c[j].dirty /\ j # k}

(* The oldest of them go, until both limits hold.                          *)
Oldest(c, S, n) == {j \in S : Cardinality({i \in S : c[i].tick < c[j].tick}) < n}
Shrunk(c, k) ==
    LET V == Victims(c, k)
        After(n) == WithoutAll(c, Oldest(c, V, n))
    IN  After(CHOOSE n \in 0..Cardinality(V) :
                  /\ n = Cardinality(V) \/ ~Exceeds(After(n))
                  /\ \A m \in 0..(n - 1) : Exceeds(After(m)))

(* Mutant: a clean chunk that does not fit is kept.                        *)
KeptTooLarge(c, k, dirty) == c
Fitting(c, k, dirty) == IF ~dirty /\ Exceeds(c) THEN WithoutAll(c, {k}) ELSE c

Pending == flushing \cup marking

PutChunk(k, n, dirty) ==    \* put_chunk_checked
    /\ clock < LastData /\ clock' = clock + 1
    /\ chunks' = Fitting(Shrunk(With(chunks, k, Chunk(n, clock', dirty)), k), k, dirty)
    /\ written' = IF dirty THEN [written EXCEPT ![k] = clock'] ELSE written
    /\ raced' = IF \/ \E x \in Pending : x[1] = k
                   \/ ~dirty /\ k \in DOMAIN chunks /\ chunks[k].dirty
                THEN raced \cup {k} ELSE raced
    /\ UNCHANGED <<flushing, marking, flushed>>

GetChunk(k) ==
    /\ k \in DOMAIN chunks /\ clock < LastData /\ clock' = clock + 1
    /\ chunks' = [chunks EXCEPT ![k].tick = clock']
    /\ UNCHANGED <<flushing, marking, written, flushed, raced>>

GetDirtyChunks ==
    /\ Pending = {}
    /\ flushing' = {<<k, chunks[k].data>> : k \in {j \in DOMAIN chunks : chunks[j].dirty}}
    /\ UNCHANGED <<chunks, clock, marking, written, flushed, raced>>

WriteBack(x) ==             \* the write of a caller, which may fail
    /\ x \in flushing /\ flushing' = flushing \ {x}
    /\ \/ /\ flushed' = [flushed EXCEPT ![x[1]] = x[2]] /\ marking' = marking \cup {x}
       \/ UNCHANGED <<flushed, marking>>
    /\ UNCHANGED <<chunks, clock, written, raced>>

MarkClean(x) ==
    /\ x \in marking /\ marking' = marking \ {x}
    /\ chunks' = IF x[1] \in DOMAIN chunks THEN [chunks EXCEPT ![x[1]].dirty = FALSE] ELSE chunks
    /\ UNCHANGED <<clock, flushing, written, flushed, raced>>

InvalidateFile(K) ==        \* the chunks of one file; the caller gives them up
    /\ chunks' = WithoutAll(chunks, K)
    /\ written' = [k \in ChunkKey |-> IF k \in K THEN 0 ELSE written[k]]
    /\ UNCHANGED <<clock, flushing, marking, flushed, raced>>

ChunkInit ==
    /\ chunks = [k \in {} |-> Chunk(0, 0, FALSE)] /\ clock = 0
    /\ flushing = {} /\ marking = {} /\ raced = {}
    /\ written = [k \in ChunkKey |-> 0] /\ flushed = [k \in ChunkKey |-> 0]

ChunkNext ==
    \/ \E k \in ChunkKey : GetChunk(k) \/ InvalidateFile({k})
    \/ \E k \in ChunkKey, n \in Lengths, dirty \in BOOLEAN : PutChunk(k, n, dirty)
    \/ GetDirtyChunks
    \/ \E x \in Pending : WriteBack(x) \/ MarkClean(x)

ChunkSpec == ChunkInit /\ [][ChunkNext]_chunkVars

(* ------------------------------ Properties ------------------------------ *)
(* What a caller put as dirty is dirty in the cache until it is written    *)
(* back, whatever is read, put and evicted meanwhile - unless the chunk    *)
(* was put again during a write-back, which then marks the new data clean, *)
(* or put as clean over the dirty one.                                     *)
DirtyIsKept ==
    \A k \in ChunkKey : written[k] > flushed[k] /\ k \notin raced
        => k \in DOMAIN chunks /\ chunks[k].dirty /\ chunks[k].data = written[k]

(* After a put the cache is over its budget only if nothing clean is left  *)
(* to evict ("when they alone exceed the budget").                         *)
OverBudgetOnlyByDirty ==
    [][\A k \in ChunkKey, n \in Lengths, dirty \in BOOLEAN :
          PutChunk(k, n, dirty) /\ Exceeds(chunks') => \A j \in DOMAIN chunks' : chunks'[j].dirty]_chunkVars

(* Chunks are given up for the budget only when nothing is lost by it      *)
(* (put_chunk_checked, mark_clean).                                        *)
OnlyCleanIsGivenUp == [][DirtyIsKept']_chunkVars /\ OverBudgetOnlyByDirty
=============================================================================
