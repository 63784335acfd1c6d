---------------------------- MODULE LocalProofs ----------------------------
(***************************************************************************)
(* Theorems about ChunkCache, for any number of chunks of any length.      *)
(***************************************************************************)
EXTENDS ChunkCache, FiniteSetTheorems, WellFoundedInduction, TLAPS

(* ------------------------------ the chunk cache --------------------------- *)
ChunkSet  == [length : Nat, data : Nat, dirty : BOOLEAN, tick : Nat]
IsCache(c) == DOMAIN c \subseteq ChunkKey /\ c = [j \in DOMAIN c |-> c[j]] /\ \A j \in DOMAIN c : c[j] \in ChunkSet
ChunkTyped ==
    /\ IsCache(chunks) /\ clock \in Nat
    /\ flushing \subseteq ChunkKey \X Nat /\ marking \subseteq ChunkKey \X Nat
    /\ written \in [ChunkKey -> Nat] /\ flushed \in [ChunkKey -> Nat]
(* A dirty chunk is what a caller wrote last; so is what a write-back took, *)
(* and what it has written is no older, unless the chunk was put meanwhile. *)
FlushSound ==
    /\ \A k \in DOMAIN chunks : chunks[k].dirty => chunks[k].data = written[k]
    /\ \A x \in flushing \cup marking : x[1] \notin raced => x[2] = written[x[1]] \/ written[x[1]] = 0
    /\ \A x \in marking : x[1] \notin raced => written[x[1]] <= flushed[x[1]]
ChunkInv == ChunkTyped /\ FlushSound /\ DirtyIsKept

LEMMA CacheIsFinite ==
    ASSUME NEW c, IsCache(c)
    PROVE  IsFiniteSet(DOMAIN c)
  BY ChunkAssumption, FS_Subset DEF IsCache, ChunkAssumption

LEMMA WithoutIs ==
    ASSUME NEW c, IsCache(c), NEW K
    PROVE  /\ IsCache(WithoutAll(c, K)) /\ DOMAIN WithoutAll(c, K) = DOMAIN c \ K
           /\ \A j \in DOMAIN c \ K : WithoutAll(c, K)[j] = c[j]
  BY DEF IsCache, WithoutAll

LEMMA WithIs ==
    ASSUME NEW c, IsCache(c), NEW k \in ChunkKey, NEW x \in ChunkSet
    PROVE  /\ IsCache(With(c, k, x)) /\ DOMAIN With(c, k, x) = DOMAIN c \cup {k}
           /\ With(c, k, x)[k] = x /\ \A j \in DOMAIN c \ {k} : With(c, k, x)[j] = c[j]
  BY DEF IsCache, With

LEMMA LeastNat ==
    ASSUME NEW T, T \subseteq Nat, T # {}
    PROVE  \E m \in T : \A n \in T : m <= n
  <1> DEFINE Less == OpToRel(<, Nat)
  <1>1. PICK m \in T : \A n \in T : ~ (<<n, m>> \in Less)
    BY NatLessThanWellFounded, WFMin
  <1>2. ASSUME NEW n \in T PROVE m <= n
    <2>1. ~ (<<n, m>> \in Less) /\ n \in Nat /\ m \in Nat
      BY <1>1
    <2> QED
      BY <2>1 DEF OpToRel
  <1> QED
    BY <1>2

(* What is shrunk has lost victims only, and all of them while it is over  *)
(* the budget.                                                             *)
LEMMA ShrunkIs ==
    ASSUME NEW c, IsCache(c), NEW k
    PROVE  \E K \in SUBSET Victims(c, k) :
               Shrunk(c, k) = WithoutAll(c, K) /\ (Exceeds(Shrunk(c, k)) => K = Victims(c, k))
  <1> DEFINE V == Victims(c, k)
             After(n) == WithoutAll(c, Oldest(c, V, n))
             Enough(n) == n = Cardinality(V) \/ ~Exceeds(After(n))
             T == {n \in 0..Cardinality(V) : Enough(n)}
             chosen == CHOOSE n \in 0..Cardinality(V) :
                           /\ n = Cardinality(V) \/ ~Exceeds(After(n))
                           /\ \A m \in 0..(n - 1) : Exceeds(After(m))
  <1>1. IsFiniteSet(V) /\ V \subseteq DOMAIN c
    BY CacheIsFinite, FS_Subset DEF Victims
  <1>2. Cardinality(V) \in Nat
    BY <1>1, FS_CardinalityType
  <1>3. Cardinality(V) \in T /\ T \subseteq Nat
    BY <1>2
  <1>4. PICK m \in T : \A n \in T : m <= n
    <2> HIDE DEF T
    <2> QED
      BY <1>3, LeastNat
  <1>5. m \in 0..Cardinality(V) /\ (m = Cardinality(V) \/ ~Exceeds(After(m))) /\ \A n \in 0..(m - 1) : Exceeds(After(n))
    <2>1. m \in 0..Cardinality(V) /\ (m = Cardinality(V) \/ ~Exceeds(After(m)))
      BY <1>4
    <2>2. ASSUME NEW n \in 0..(m - 1) PROVE Exceeds(After(n))
      <3>1. n \in 0..Cardinality(V) /\ n \in Nat /\ m \in Nat /\ ~(m <= n)
        BY <1>2, <2>1
      <3>2. n \notin T
        BY <1>4, <3>1
      <3> QED
        BY <3>1, <3>2
    <2> QED
      BY <2>1, <2>2
  <1>6. chosen \in 0..Cardinality(V) /\ (chosen = Cardinality(V) \/ ~Exceeds(After(chosen)))
    <2> HIDE DEF After, V
    <2> QED
      BY <1>5
  <1>7. Shrunk(c, k) = After(chosen)
    BY DEF Shrunk
  <1>8. Oldest(c, V, chosen) \subseteq V
    BY DEF Oldest
  <1>9. Oldest(c, V, Cardinality(V)) = V
    <2>1. ASSUME NEW j \in V PROVE Cardinality({i \in V : c[i].tick < c[j].tick}) < Cardinality(V)
      <3> DEFINE E == {i \in V : c[i].tick < c[j].tick}
      <3>1. c[j] \in ChunkSet
        BY <1>1 DEF IsCache
      <3>2. j \notin E
        <4>1. c[j].tick \in Nat
          BY <3>1 DEF ChunkSet
        <4>2. ~(c[j].tick < c[j].tick)
          BY <4>1
        <4> QED
          BY <4>2
      <3>3. E \in SUBSET V /\ E # V
        BY <3>2
      <3>4. IsFiniteSet(E) /\ Cardinality(E) <= Cardinality(V) /\ Cardinality(E) # Cardinality(V)
        <4> HIDE DEF E, V
        <4> QED
          BY <1>1, <3>3, FS_Subset
      <3>5. Cardinality(E) \in Nat
        BY <3>4, FS_CardinalityType
      <3> QED
        BY <1>2, <3>4, <3>5
    <2> QED
      BY <2>1 DEF Oldest
  <1> HIDE DEF V, chosen
  <1> QED
    BY <1>6, <1>7, <1>8, <1>9 DEF V

LEMMA FittingIs ==
    ASSUME NEW c, IsCache(c), NEW k, NEW dirty \in BOOLEAN
    PROVE  /\ Fitting(c, k, dirty) \in {c, WithoutAll(c, {k})}
           /\ dirty => Fitting(c, k, dirty) = c
           /\ Exceeds(Fitting(c, k, dirty)) /\ ~dirty => Fitting(c, k, dirty) = WithoutAll(c, {k}) /\ Exceeds(c)
  BY DEF Fitting

(* What a put makes of the cache. *)
LEMMA PutIs ==
    ASSUME ChunkInv, NEW k \in ChunkKey, NEW n \in Lengths, NEW dirty \in BOOLEAN, PutChunk(k, n, dirty)
    PROVE  /\ IsCache(chunks') /\ clock' \in Nat /\ clock' = clock + 1
           /\ DOMAIN chunks' \subseteq DOMAIN chunks \cup {k}
           /\ dirty => k \in DOMAIN chunks'
           /\ k \in DOMAIN chunks' => chunks'[k].dirty = dirty /\ chunks'[k].data = clock'
           /\ \A j \in DOMAIN chunks' \ {k} : chunks'[j] = chunks[j]
           /\ \A j \in DOMAIN chunks \ {k} : chunks[j].dirty => j \in DOMAIN chunks'
           /\ Exceeds(chunks') => \A j \in DOMAIN chunks' : chunks'[j].dirty
  <1> DEFINE x == Chunk(n, clock', dirty)
             c == With(chunks, k, x)
             s == Shrunk(c, k)
  <1>1. clock \in Nat /\ clock' = clock + 1 /\ clock' \in Nat /\ n \in Nat
    BY ChunkAssumption DEF ChunkInv, ChunkTyped, PutChunk, ChunkAssumption
  <1>2. x \in ChunkSet /\ x.dirty = dirty /\ x.data = clock'
    BY <1>1 DEF Chunk, ChunkSet
  <1>3. IsCache(c) /\ DOMAIN c = DOMAIN chunks \cup {k} /\ c[k] = x /\ \A j \in DOMAIN chunks \ {k} : c[j] = chunks[j]
    <2>1. IsCache(chunks)
      BY DEF ChunkInv, ChunkTyped
    <2>2. x \in ChunkSet
      BY <1>2
    <2> HIDE DEF x
    <2>3. /\ IsCache(With(chunks, k, x)) /\ DOMAIN With(chunks, k, x) = DOMAIN chunks \cup {k}
          /\ With(chunks, k, x)[k] = x /\ \A j \in DOMAIN chunks \ {k} : With(chunks, k, x)[j] = chunks[j]
      BY <2>1, <2>2, WithIs
    <2> QED
      BY <2>3
  <1>4. chunks' = Fitting(s, k, dirty)
    BY DEF PutChunk
  <1> HIDE DEF x, c
  <1>5. PICK K \in SUBSET Victims(c, k) : s = WithoutAll(c, K) /\ (Exceeds(s) => K = Victims(c, k))
    <2>1. IsCache(c)
      BY <1>3
    <2>2. \E K \in SUBSET Victims(c, k) :
              Shrunk(c, k) = WithoutAll(c, K) /\ (Exceeds(Shrunk(c, k)) => K = Victims(c, k))
      BY <2>1, ShrunkIs
    <2> QED
      BY <2>2
  <1> HIDE DEF s
  <1>6. IsCache(s) /\ DOMAIN s = DOMAIN c \ K /\ \A j \in DOMAIN c \ K : s[j] = c[j]
    <2>1. IsCache(c) /\ s = WithoutAll(c, K)
      BY <1>3, <1>5
    <2> QED
      BY <2>1, WithoutIs
  <1>7. k \notin K /\ \A j \in K : j \in DOMAIN c /\ ~c[j].dirty
    BY <1>5 DEF Victims
  <1>8. k \in DOMAIN s /\ s[k] = x
    BY <1>3, <1>6, <1>7
  <1>9. /\ chunks' \in {s, WithoutAll(s, {k})} /\ (dirty => chunks' = s)
        /\ Exceeds(chunks') /\ ~dirty => chunks' = WithoutAll(s, {k}) /\ Exceeds(s)
    BY <1>4, <1>6, FittingIs
  <1>10. /\ IsCache(WithoutAll(s, {k})) /\ DOMAIN WithoutAll(s, {k}) = DOMAIN s \ {k}
         /\ \A j \in DOMAIN s \ {k} : WithoutAll(s, {k})[j] = s[j]
    BY <1>6, WithoutIs
  <1>11. /\ IsCache(chunks') /\ DOMAIN chunks' \subseteq DOMAIN s /\ DOMAIN s \ {k} \subseteq DOMAIN chunks'
         /\ \A j \in DOMAIN chunks' : chunks'[j] = s[j]
    BY <1>6, <1>9, <1>10
  <1>12. Exceeds(chunks') => \A j \in DOMAIN chunks' : chunks'[j].dirty
    <2> SUFFICES ASSUME Exceeds(chunks'), NEW j \in DOMAIN chunks' PROVE chunks'[j].dirty
      OBVIOUS
    <2>1. Exceeds(s) /\ (~dirty => j # k)
      BY <1>9, <1>10
    <2>2. K = Victims(c, k)
      BY <1>5, <2>1
    <2>3. j \in DOMAIN c /\ j \notin K /\ chunks'[j] = c[j]
      BY <1>6, <1>11
    <2>4. CASE j = k
      BY <1>2, <1>3, <2>1, <2>3, <2>4
    <2>5. CASE j # k
      BY <2>2, <2>3, <2>5 DEF Victims
    <2> QED
      BY <2>4, <2>5
  <1>13. ASSUME NEW j \in DOMAIN chunks \ {k}, chunks[j].dirty PROVE j \in DOMAIN chunks'
    <2>1. j \in DOMAIN c /\ c[j].dirty /\ j \notin K
      BY <1>3, <1>7, <1>13
    <2> QED
      BY <1>6, <1>11, <2>1
  <1>14. k \in DOMAIN chunks' => chunks'[k].dirty = dirty /\ chunks'[k].data = clock'
    BY <1>2, <1>8, <1>11
  <1>15. /\ DOMAIN chunks' \subseteq DOMAIN chunks \cup {k} /\ (dirty => k \in DOMAIN chunks')
         /\ \A j \in DOMAIN chunks' \ {k} : chunks'[j] = chunks[j]
    BY <1>3, <1>6, <1>8, <1>9, <1>11
  <1> QED
    BY <1>1, <1>11, <1>12, <1>13, <1>14, <1>15

LEMMA ChunkFacts ==
    ASSUME ChunkInv
    PROVE  /\ IsCache(chunks) /\ clock \in Nat /\ DOMAIN chunks \subseteq ChunkKey
           /\ flushing \subseteq ChunkKey \X Nat /\ marking \subseteq ChunkKey \X Nat
           /\ written \in [ChunkKey -> Nat] /\ flushed \in [ChunkKey -> Nat]
           /\ \A k \in ChunkKey : written[k] \in Nat /\ flushed[k] \in Nat
           /\ \A x \in flushing \cup marking : x[1] \in ChunkKey /\ x[2] \in Nat
  BY DEF ChunkInv, ChunkTyped, IsCache

LEMMA PutKeeps ==
    ASSUME ChunkInv, NEW k \in ChunkKey, NEW n \in Lengths, NEW dirty \in BOOLEAN, PutChunk(k, n, dirty)
    PROVE  ChunkInv'
  <1>1. /\ written' = (IF dirty THEN [written EXCEPT ![k] = clock'] ELSE written)
        /\ raced' = (IF \/ \E x \in Pending : x[1] = k
                        \/ ~dirty /\ k \in DOMAIN chunks /\ chunks[k].dirty
                     THEN raced \cup {k} ELSE raced)
        /\ UNCHANGED <<flushing, marking, flushed>>
    BY DEF PutChunk
  <1>2. /\ IsCache(chunks') /\ clock' \in Nat
        /\ DOMAIN chunks' \subseteq DOMAIN chunks \cup {k}
        /\ dirty => k \in DOMAIN chunks'
        /\ k \in DOMAIN chunks' => chunks'[k].dirty = dirty /\ chunks'[k].data = clock'
        /\ \A j \in DOMAIN chunks' \ {k} : chunks'[j] = chunks[j]
        /\ \A j \in DOMAIN chunks \ {k} : chunks[j].dirty => j \in DOMAIN chunks'
    BY PutIs
  <1>3. /\ \A j \in ChunkKey : j # k => written'[j] = written[j]
        /\ dirty => written'[k] = clock'
        /\ ~dirty => written'[k] = written[k]
        /\ written' \in [ChunkKey -> Nat]
    BY <1>1, <1>2, ChunkFacts
  <1>4. /\ raced \subseteq raced' /\ raced' \subseteq raced \cup {k}
        /\ (\E x \in flushing \cup marking : x[1] = k) => k \in raced'
        /\ ~dirty /\ k \in DOMAIN chunks /\ chunks[k].dirty => k \in raced'
    BY <1>1 DEF Pending
  <1>5. ChunkTyped'
    BY <1>1, <1>2, <1>3, ChunkFacts DEF ChunkTyped
  <1>6. FlushSound'
    <2>1. \A j \in DOMAIN chunks' : chunks'[j].dirty => chunks'[j].data = written'[j]
      BY <1>2, <1>3, ChunkFacts DEF ChunkInv, FlushSound
    <2>2. ASSUME NEW x \in flushing \cup marking, x[1] \notin raced'
          PROVE  x[1] # k /\ x[1] \in ChunkKey /\ x[1] \notin raced
      BY <1>4, <2>2, ChunkFacts
    <2> QED
      BY <1>1, <1>3, <2>1, <2>2 DEF ChunkInv, FlushSound
  <1>7. DirtyIsKept'
    <2> SUFFICES ASSUME NEW j \in ChunkKey, written'[j] > flushed'[j], j \notin raced'
                 PROVE  j \in DOMAIN chunks' /\ chunks'[j].dirty /\ chunks'[j].data = written'[j]
      BY DEF DirtyIsKept
    <2>1. CASE j # k \/ ~dirty
      <3>1. written[j] > flushed[j] /\ j \notin raced
        BY <1>1, <1>3, <1>4, <2>1
      <3>2. j \in DOMAIN chunks /\ chunks[j].dirty /\ chunks[j].data = written[j]
        BY <3>1 DEF ChunkInv, DirtyIsKept
      <3>3. j # k
        BY <1>4, <2>1, <3>2
      <3> QED
        BY <1>2, <1>3, <3>2, <3>3
    <2>2. CASE j = k /\ dirty
      BY <1>2, <1>3, <2>2
    <2> QED
      BY <2>1, <2>2
  <1> QED
    BY <1>5, <1>6, <1>7 DEF ChunkInv

LEMMA GetKeeps ==
    ASSUME ChunkInv, NEW k \in ChunkKey, GetChunk(k)
    PROVE  ChunkInv'
  <1>1. k \in DOMAIN chunks /\ clock' = clock + 1 /\ chunks' = [chunks EXCEPT ![k].tick = clock']
        /\ UNCHANGED <<flushing, marking, written, flushed, raced>>
    BY DEF GetChunk
  <1>2. clock' \in Nat
    BY <1>1, ChunkFacts
  <1>3. /\ DOMAIN chunks' = DOMAIN chunks /\ IsCache(chunks')
        /\ \A j \in DOMAIN chunks : chunks'[j].dirty = chunks[j].dirty /\ chunks'[j].data = chunks[j].data
    <2>1. chunks = [j \in DOMAIN chunks |-> chunks[j]] /\ \A j \in DOMAIN chunks : chunks[j] \in ChunkSet
      BY ChunkFacts DEF IsCache
    <2>2. DOMAIN chunks' = DOMAIN chunks /\ chunks' = [j \in DOMAIN chunks' |-> chunks'[j]]
      BY <1>1, <2>1
    <2>3. chunks'[k] = [chunks[k] EXCEPT !.tick = clock'] /\ \A j \in DOMAIN chunks \ {k} : chunks'[j] = chunks[j]
      BY <1>1, <2>1
    <2>4. chunks'[k] \in ChunkSet /\ chunks'[k].dirty = chunks[k].dirty /\ chunks'[k].data = chunks[k].data
      BY <1>1, <1>2, <2>1, <2>3 DEF ChunkSet
    <2> QED
      BY <1>1, <2>1, <2>2, <2>3, <2>4, ChunkFacts DEF IsCache
  <1> QED
    BY <1>1, <1>2, <1>3 DEF ChunkInv, ChunkTyped, FlushSound, DirtyIsKept

LEMMA TakeDirtyKeeps == ChunkInv /\ GetDirtyChunks => ChunkInv'
  <1> SUFFICES ASSUME ChunkInv, GetDirtyChunks PROVE ChunkInv'
    OBVIOUS
  <1>1. /\ flushing' = {<<k, chunks[k].data>> : k \in {j \in DOMAIN chunks : chunks[j].dirty}}
        /\ marking = {} /\ UNCHANGED <<chunks, clock, marking, written, flushed, raced>>
    BY DEF GetDirtyChunks, Pending
  <1>2. \A k \in DOMAIN chunks : k \in ChunkKey /\ chunks[k].data \in Nat
    BY ChunkFacts DEF IsCache, ChunkSet
  <1>3. flushing' \subseteq ChunkKey \X Nat
    BY <1>1, <1>2
  <1>4. \A x \in flushing' : x[2] = written[x[1]]
    BY <1>1 DEF ChunkInv, FlushSound
  <1> QED
    BY <1>1, <1>3, <1>4 DEF ChunkInv, ChunkTyped, FlushSound, DirtyIsKept

LEMMA WriteBackKeeps ==
    ASSUME ChunkInv, NEW x \in Pending, WriteBack(x)
    PROVE  ChunkInv'
  <1>1. /\ x \in flushing /\ flushing' = flushing \ {x} /\ UNCHANGED <<chunks, clock, written, raced>>
        /\ \/ flushed' = [flushed EXCEPT ![x[1]] = x[2]] /\ marking' = marking \cup {x}
           \/ UNCHANGED <<flushed, marking>>
    BY DEF WriteBack
  <1>2. CASE UNCHANGED <<flushed, marking>>
    BY <1>1, <1>2 DEF ChunkInv, ChunkTyped, FlushSound, DirtyIsKept
  <1>3. CASE flushed' = [flushed EXCEPT ![x[1]] = x[2]] /\ marking' = marking \cup {x}
    <2>1. x[1] \in ChunkKey /\ x[2] \in Nat /\ x \in ChunkKey \X Nat
      BY <1>1, ChunkFacts
    <2>2. flushed'[x[1]] = x[2] /\ (\A j \in ChunkKey : j # x[1] => flushed'[j] = flushed[j])
          /\ flushed' \in [ChunkKey -> Nat]
      BY <1>3, <2>1, ChunkFacts
    <2>3. ChunkTyped'
      BY <1>1, <1>3, <2>1, <2>2, ChunkFacts DEF ChunkTyped
    <2>4. x[1] \notin raced => written[x[1]] <= x[2]
      <3>1. x[1] \notin raced => x[2] = written[x[1]] \/ written[x[1]] = 0
        BY <1>1 DEF ChunkInv, FlushSound
      <3>2. written[x[1]] \in Nat
        BY <2>1, ChunkFacts
      <3> QED
        BY <2>1, <3>1, <3>2
    <2>5. FlushSound'
      <3>1. \A y \in flushing' \cup marking' : y \in flushing \cup marking
        BY <1>1, <1>3
      <3>2. ASSUME NEW y \in marking', y[1] \notin raced PROVE written[y[1]] <= flushed'[y[1]]
        <4>1. CASE y[1] = x[1]
          BY <2>2, <2>4, <3>2, <4>1
        <4>2. CASE y[1] # x[1]
          <5>1. y \in marking
            BY <1>3, <4>2
          <5> QED
            BY <2>2, <3>2, <4>2, <5>1, ChunkFacts DEF ChunkInv, FlushSound
        <4> QED
          BY <4>1, <4>2
      <3> QED
        BY <1>1, <3>1, <3>2 DEF ChunkInv, FlushSound
    <2>6. DirtyIsKept'
      <3> SUFFICES ASSUME NEW j \in ChunkKey, written[j] > flushed'[j], j \notin raced
                   PROVE  j \in DOMAIN chunks /\ chunks[j].dirty /\ chunks[j].data = written[j]
        BY <1>1 DEF DirtyIsKept
      <3>1. j # x[1]
        <4>1. j = x[1] => written[j] <= flushed'[j] /\ written[j] \in Nat /\ flushed'[j] \in Nat
          BY <2>1, <2>2, <2>4, ChunkFacts
        <4> QED
          BY <4>1
      <3> QED
        BY <2>2, <3>1 DEF ChunkInv, DirtyIsKept
    <2> QED
      BY <2>3, <2>5, <2>6 DEF ChunkInv
  <1> QED
    BY <1>1, <1>2, <1>3

LEMMA MarkCleanKeeps ==
    ASSUME ChunkInv, NEW x \in Pending, MarkClean(x)
    PROVE  ChunkInv'
  <1>1. /\ x \in marking /\ marking' = marking \ {x} /\ UNCHANGED <<clock, flushing, written, flushed, raced>>
        /\ chunks' = IF x[1] \in DOMAIN chunks THEN [chunks EXCEPT ![x[1]].dirty = FALSE] ELSE chunks
    BY DEF MarkClean
  <1>2. /\ DOMAIN chunks' = DOMAIN chunks /\ IsCache(chunks')
        /\ \A j \in DOMAIN chunks \ {x[1]} : chunks'[j] = chunks[j]
        /\ x[1] \in DOMAIN chunks => chunks'[x[1]].dirty = FALSE
    <2>1. chunks = [j \in DOMAIN chunks |-> chunks[j]] /\ \A j \in DOMAIN chunks : chunks[j] \in ChunkSet
      BY ChunkFacts DEF IsCache
    <2>2. CASE x[1] \in DOMAIN chunks
      <3>1. DOMAIN chunks' = DOMAIN chunks /\ chunks' = [j \in DOMAIN chunks' |-> chunks'[j]]
        BY <1>1, <2>1
      <3>2. /\ chunks'[x[1]] = [chunks[x[1]] EXCEPT !.dirty = FALSE]
            /\ \A j \in DOMAIN chunks \ {x[1]} : chunks'[j] = chunks[j]
        BY <1>1, <2>1, <2>2
      <3>3. chunks'[x[1]] \in ChunkSet /\ chunks'[x[1]].dirty = FALSE
        BY <2>1, <2>2, <3>2 DEF ChunkSet
      <3> QED
        BY <2>1, <3>1, <3>2, <3>3, ChunkFacts DEF IsCache
    <2>3. CASE x[1] \notin DOMAIN chunks
      BY <1>1, <2>3, ChunkFacts
    <2> QED
      BY <2>2, <2>3
  <1>3. ChunkTyped'
    BY <1>1, <1>2, ChunkFacts DEF ChunkTyped
  <1>4. FlushSound'
    BY <1>1, <1>2 DEF ChunkInv, FlushSound
  <1>5. DirtyIsKept'
    <2> SUFFICES ASSUME NEW j \in ChunkKey, written[j] > flushed[j], j \notin raced
                 PROVE  j \in DOMAIN chunks' /\ chunks'[j].dirty /\ chunks'[j].data = written[j]
      BY <1>1 DEF DirtyIsKept
    <2>1. j # x[1]
      <3>1. j = x[1] => written[j] <= flushed[j]
        BY <1>1 DEF ChunkInv, FlushSound
      <3>2. written[j] \in Nat /\ flushed[j] \in Nat
        BY ChunkFacts
      <3> QED
        BY <3>1, <3>2
    <2> QED
      BY <1>2, <2>1 DEF ChunkInv, DirtyIsKept
  <1> QED
    BY <1>3, <1>4, <1>5 DEF ChunkInv

LEMMA InvalidateKeeps ==
    ASSUME ChunkInv, NEW K, InvalidateFile(K)
    PROVE  ChunkInv'
  <1>1. /\ chunks' = WithoutAll(chunks, K) /\ UNCHANGED <<clock, flushing, marking, flushed, raced>>
        /\ written' = [k \in ChunkKey |-> IF k \in K THEN 0 ELSE written[k]]
    BY DEF InvalidateFile
  <1>2. /\ IsCache(chunks') /\ DOMAIN chunks' = DOMAIN chunks \ K
        /\ \A j \in DOMAIN chunks \ K : chunks'[j] = chunks[j]
    BY <1>1, ChunkFacts, WithoutIs
  <1>3. /\ written' \in [ChunkKey -> Nat]
        /\ \A k \in ChunkKey : written'[k] = (IF k \in K THEN 0 ELSE written[k])
    BY <1>1, ChunkFacts
  <1>4. ChunkTyped'
    BY <1>1, <1>2, <1>3, ChunkFacts DEF ChunkTyped
  <1>5. FlushSound'
    BY <1>1, <1>2, <1>3, ChunkFacts DEF ChunkInv, FlushSound
  <1>6. DirtyIsKept'
    <2> SUFFICES ASSUME NEW j \in ChunkKey, written'[j] > flushed[j], j \notin raced
                 PROVE  j \in DOMAIN chunks' /\ chunks'[j].dirty /\ chunks'[j].data = written'[j]
      BY <1>1 DEF DirtyIsKept
    <2>1. flushed[j] \in Nat
      BY ChunkFacts
    <2>2. j \notin K /\ written'[j] = written[j]
      BY <1>3, <2>1
    <2> QED
      BY <1>2, <2>2 DEF ChunkInv, DirtyIsKept
  <1> QED
    BY <1>4, <1>5, <1>6 DEF ChunkInv

LEMMA ChunksBegin == ChunkInit => ChunkInv
  BY DEF ChunkInit, ChunkInv, ChunkTyped, IsCache, FlushSound, DirtyIsKept

LEMMA ChunksStep == ChunkInv /\ [ChunkNext]_chunkVars => ChunkInv'
  <1> SUFFICES ASSUME ChunkInv, [ChunkNext]_chunkVars PROVE ChunkInv'
    OBVIOUS
  <1>1. CASE ChunkNext
    BY <1>1, PutKeeps, GetKeeps, TakeDirtyKeeps, WriteBackKeeps, MarkCleanKeeps, InvalidateKeeps DEF ChunkNext
  <1>2. CASE UNCHANGED chunkVars
    BY <1>2 DEF chunkVars, ChunkInv, ChunkTyped, FlushSound, DirtyIsKept
  <1> QED
    BY <1>1, <1>2

(* Every state of the cache of chunks satisfies the inductive invariant.   *)
THEOREM ChunksInductive == ChunkSpec => []ChunkInv
  BY ChunksBegin, ChunksStep, PTL DEF ChunkSpec

(* Chunks are given up for the budget only when nothing is lost by it, and *)
(* a put leaves the cache over its budget only if every chunk left is      *)
(* dirty (put_chunk_checked, mark_clean).                                  *)
THEOREM ChunksAreKept == ChunkSpec => OnlyCleanIsGivenUp
  <1>1. ChunkInv /\ ChunkInv' => [DirtyIsKept']_chunkVars
    BY DEF ChunkInv
  <1>2. ChunkInv => [\A k \in ChunkKey, n \in Lengths, dirty \in BOOLEAN :
            PutChunk(k, n, dirty) /\ Exceeds(chunks') => \A j \in DOMAIN chunks' : chunks'[j].dirty]_chunkVars
    BY PutIs
  <1>3. ChunkSpec => [][DirtyIsKept']_chunkVars
    BY <1>1, ChunksInductive, PTL
  <1>4. ChunkSpec => OverBudgetOnlyByDirty
    BY <1>2, ChunksInductive, PTL DEF OverBudgetOnlyByDirty
  <1> QED
    BY <1>3, <1>4 DEF OnlyCleanIsGivenUp
=============================================================================
