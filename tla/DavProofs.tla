----------------------------- MODULE DavProofs -----------------------------
(***************************************************************************)
(* Of the virtual disk (crates/rustscp-core/src/webdav_server.rs): what it *)
(* serves is current (ReadsStayCurrent), and what it writes is there whole *)
(* or answered as failed (UploadsStayClean), at the cost of no other file  *)
(* (OldDataSurvive).  ReadInv and WriteInv are inductive; a step of a      *)
(* request changes files in one of the ways FilesChange lists, and each    *)
(* part of WriteInv follows from that and from where the request is.       *)
(***************************************************************************)
EXTENDS DavRead, DavWrite, TLAPS

(* ------------------------------- reading -------------------------------- *)
Anything  == 0..LastVersion
PutSteps  == {"put", "dropEntry", "dropContent", "dropStamp", "end"}
ReadSteps == {"idle", "stat", "listed", "listedAgain", "fresh", "load", "restat", "read", "store",
              "stamp", "answer", "stream"} \cup PutSteps

ReadTyped ==
    /\ live \in Version /\ content \in Anything /\ stamp \in Anything /\ entry \in Anything
    /\ kind \in [Reader -> Kinds] /\ step \in [Reader -> ReadSteps]
    /\ meta \in [Reader -> Anything] /\ data \in [Reader -> Anything] /\ sent \in [Reader -> Nat]
    /\ outcome \in [Reader -> {"none", "whole", "cut", "error"}]
    /\ since \in [Reader -> SUBSET Version] /\ late \in BOOLEAN /\ crossed \in BOOLEAN

(* What is cached was live once.  The content is no older than the version *)
(* its stamp names, unless it was cached after a change.                   *)
NotOlder(v) == late \/ content = NoVersion \/ v <= content
CachesSound == content <= live /\ stamp <= live /\ entry <= live /\ NotOlder(stamp)

(* Metadata and data were live; the content a request is about to load, or *)
(* to stamp, is no older than its metadata.  Metadata that is to be cached *)
(* is current unless a change has crossed it.                              *)
Metadata(r) ==
    /\ meta[r] <= live /\ data[r] <= live
    /\ kind[r] # "put" /\ step[r] \notin {"idle", "stat", "end"} => meta[r] # NoVersion
    /\ step[r] \in {"load", "stamp"} => NotOlder(meta[r])
    /\ step[r] \in {"listed", "listedAgain"} => meta[r] = live \/ crossed

(* A full request has seen every version from its metadata to the file.    *)
FullSound(r) ==
    kind[r] = "full" =>
        /\ data[r] # NoVersion => data[r] \in since[r] \/ late
        /\ step[r] # "end" =>
              /\ live \in since[r]
              /\ meta[r] # NoVersion =>
                    \A v \in Version : meta[r] <= v /\ v <= live => v \in since[r]

(* Once a PUT has dropped the entry, only current ones take its place.     *)
PutSound(r) ==
    kind[r] = "put" =>
        /\ step[r] \in PutSteps
        /\ step[r] = "put" => data[r] = NoVersion
        /\ step[r] \in {"dropContent", "dropStamp", "end"} /\ data[r] = live
              => entry \in {NoVersion, live} \/ crossed

StreamSound(r) ==
    /\ sent[r] > 0 => step[r] \in {"stream", "end"}
    /\ outcome[r] # "none" => step[r] = "end"
    /\ outcome[r] = "whole" /\ sent[r] > 0 => sent[r] = Length(r)

ReaderSound(r) == Metadata(r) /\ FullSound(r) /\ PutSound(r) /\ StreamSound(r)
ReadInv == ReadTyped /\ CachesSound /\ \A r \in Reader : ReaderSound(r)

LEMMA Versions ==
    /\ LastVersion \in Nat /\ Version \subseteq Nat /\ Anything \subseteq Nat
    /\ NoVersion = 0 /\ NoVersion \in Anything /\ Version \subseteq Anything /\ 1 \in Version
    /\ \A v \in Version : v # NoVersion /\ (v < LastVersion => v + 1 \in Version)
    /\ \A v \in Anything : v # NoVersion => v \in Version
  BY ReadAssumption DEF ReadAssumption, Version, Anything, NoVersion

(* A reader nobody touches stays sound while the file and the caches move  *)
(* as the steps of the others move them.                                   *)
Untouched(r) ==
    /\ kind'[r] = kind[r] /\ step'[r] = step[r] /\ meta'[r] = meta[r] /\ data'[r] = data[r]
    /\ sent'[r] = sent[r] /\ outcome'[r] = outcome[r]
FileMoves(r) ==
    \/ live' = live /\ since'[r] = since[r] /\ crossed' = crossed
    \/ /\ live' = live + 1 /\ crossed' = (crossed \/ Between # {})
       /\ since'[r] = IF Is(r, "end") THEN since[r] ELSE since[r] \cup {live'}
CachesMove ==
    /\ late => late'
    /\ content' \in {content, NoVersion} \/ content' = live' \/ late'
    /\ \/ entry' \in {entry, NoVersion}
       \/ live' = live /\ (entry' = live \/ crossed)

LEMMA ReaderStays ==
    ASSUME ReadInv, ReadTyped', NEW r \in Reader, Untouched(r), FileMoves(r), CachesMove
    PROVE  ReaderSound(r)'
  <1> USE DEF Untouched, FileMoves, CachesMove
  <1>1. ReaderSound(r) /\ ReadTyped /\ CachesSound
    BY DEF ReadInv
  <1>2. live \in Nat /\ live' \in Nat /\ live <= live' /\ meta[r] \in Nat /\ data[r] \in Nat
    <2>1. live \in Version /\ live' \in Version /\ meta[r] \in Anything /\ data[r] \in Anything
      BY <1>1 DEF ReadTyped
    <2>2. live \in Nat /\ live' \in Nat /\ meta[r] \in Nat /\ data[r] \in Nat
      BY <2>1, Versions
    <2> QED
      BY <2>2
  <1>3. Metadata(r)'
    <2>1. meta'[r] <= live' /\ data'[r] <= live'
      BY <1>1, <1>2 DEF ReaderSound, Metadata
    <2>2. step[r] \in {"load", "stamp"} => NotOlder(meta[r])'
      BY <1>1, <1>2, <2>1, Versions DEF ReaderSound, Metadata, NotOlder, NoVersion
    <2>3. step[r] \in {"listed", "listedAgain"} => meta[r] = live' \/ crossed'
      <3>1. step[r] \in {"listed", "listedAgain"} => Between # {}
        BY DEF Between
      <3> QED
        BY <1>1, <3>1 DEF ReaderSound, Metadata
    <2> QED
      BY <1>1, <2>1, <2>2, <2>3 DEF ReaderSound, Metadata, NotOlder
  <1>4. FullSound(r)'
    <2>1. since[r] \subseteq since'[r] /\ (step[r] # "end" => live' = live \/ live' \in since'[r])
      BY DEF Is
    <2>2. ASSUME kind[r] = "full", step[r] # "end", meta[r] # NoVersion,
                 NEW v \in Version, meta[r] <= v, v <= live'
          PROVE  v \in since'[r]
      <3>1. CASE v <= live
        BY <1>1, <2>1, <2>2, <3>1 DEF ReaderSound, FullSound
      <3>2. CASE ~ (v <= live)
        BY <1>2, <2>1, <2>2, <3>2, Versions
      <3> QED
        BY <3>1, <3>2
    <2>3. kind[r] = "full" /\ step[r] # "end" => live' \in since'[r]
      BY <1>1, <2>1 DEF ReaderSound, FullSound
    <2>4. kind[r] = "full" /\ data[r] # NoVersion => data[r] \in since'[r] \/ late'
      BY <1>1, <2>1 DEF ReaderSound, FullSound
    <2> QED
      BY <2>2, <2>3, <2>4 DEF FullSound
  <1>5. PutSound(r)'
    <2>1. data[r] = live' => live' = live
      BY <1>1, <1>2 DEF ReaderSound, Metadata
    <2> QED
      BY <1>1, <2>1 DEF ReaderSound, PutSound
  <1>6. StreamSound(r)'
    BY <1>1 DEF ReaderSound, StreamSound, Length
  <1> QED
    BY <1>3, <1>4, <1>5, <1>6 DEF ReaderSound

LEMMA InitRead == ReadInit => ReadInv
  <1> SUFFICES ASSUME ReadInit PROVE ReadInv
    OBVIOUS
  <1>1. ReadTyped /\ CachesSound
    <2>1. /\ kind \in [Reader -> Kinds] /\ step \in [Reader -> ReadSteps]
          /\ outcome \in [Reader -> {"none", "whole", "cut", "error"}]
      BY DEF ReadInit, Kinds, ReadSteps
    <2>2. /\ meta \in [Reader -> Anything] /\ data \in [Reader -> Anything] /\ sent \in [Reader -> Nat]
          /\ since \in [Reader -> SUBSET Version]
      BY Versions DEF ReadInit
    <2>3. live \in Version /\ content \in Anything /\ stamp \in Anything /\ entry \in Anything
      BY Versions DEF ReadInit
    <2>4. ReadTyped
      BY <2>1, <2>2, <2>3 DEF ReadInit, ReadTyped
    <2>5. CachesSound
      BY DEF ReadInit, CachesSound, NotOlder, NoVersion
    <2> QED
      BY <2>4, <2>5
  <1>2. ASSUME NEW r \in Reader PROVE ReaderSound(r)
    BY Versions DEF ReadInit, ReaderSound, Metadata, FullSound, PutSound, StreamSound, NoVersion
  <1> QED
    BY <1>1, <1>2 DEF ReadInv

(* A step of one reader: the others stay sound.                            *)
LEMMA ReaderMoves ==
    ASSUME ReadInv, NEW r \in Reader, ReadTyped', CachesSound', CachesMove, ReaderSound(r)',
           \A s \in Reader \ {r} : Untouched(s) /\ FileMoves(s)
    PROVE  ReadInv'
  BY ReaderStays DEF ReadInv

LEMMA MetadataKeeps ==
    ASSUME ReadInv, NEW r \in Reader, UseEntry(r) \/ Stat(r) \/ StatFails(r) \/ PutEntry(r)
    PROVE  ReadInv'
  <1> USE DEF UseEntry, Stat, StatFails, PutEntry, Is, GoOn, Keep, Ends, Caches, Past, Missed
  <1>1. ReadTyped /\ CachesSound /\ ReaderSound(r)
    BY DEF ReadInv
  <1>2. ReadTyped'
    BY <1>1, Versions DEF ReadTyped, ReadSteps, PutSteps, Kinds
  <1>3. CachesSound' /\ CachesMove
    BY <1>1, Versions DEF CachesSound, CachesMove, NotOlder, ReadTyped, ReaderSound, Metadata
  <1>4. \A s \in Reader \ {r} : Untouched(s) /\ FileMoves(s)
    BY <1>1 DEF ReadTyped, Untouched, FileMoves
  <1>5. Metadata(r)'
    BY <1>1, Versions DEF ReadTyped, CachesSound, ReaderSound, Metadata, NotOlder
  <1>6. FullSound(r)'
    BY <1>1, Versions DEF ReadTyped, CachesSound, ReaderSound, FullSound, Metadata, NotOlder
  <1>7. PutSound(r)'
    BY <1>1, Versions DEF ReadTyped, ReaderSound, PutSound, Metadata, PutSteps
  <1>8. StreamSound(r)'
    BY <1>1, Versions DEF ReadTyped, ReaderSound, StreamSound, Length
  <1> QED
    BY <1>2, <1>3, <1>4, <1>5, <1>6, <1>7, <1>8, ReaderMoves DEF ReaderSound

LEMMA FetchKeeps ==
    ASSUME ReadInv, NEW r \in Reader, CheckStamp(r) \/ Load(r) \/ Read(r) \/ ReadFails(r) \/ AnswerData(r)
    PROVE  ReadInv'
  <1> USE DEF CheckStamp, Load, Read, ReadFails, AnswerData, Is, GoOn, Keep, Ends, Caches, Past, Missed
  <1>1. ReadTyped /\ CachesSound /\ ReaderSound(r)
    BY DEF ReadInv
  <1>2. ReadTyped'
    BY <1>1, Versions DEF ReadTyped, ReadSteps, PutSteps, Kinds
  <1>3. CachesSound' /\ CachesMove
    BY <1>1, Versions DEF CachesSound, CachesMove, NotOlder, ReadTyped, ReaderSound, Metadata
  <1>4. \A s \in Reader \ {r} : Untouched(s) /\ FileMoves(s)
    BY <1>1 DEF ReadTyped, Untouched, FileMoves
  <1>5. Metadata(r)'
    BY <1>1, Versions DEF ReadTyped, CachesSound, ReaderSound, Metadata, NotOlder
  <1>6. FullSound(r)'
    BY <1>1, Versions DEF ReadTyped, CachesSound, ReaderSound, FullSound, Metadata, NotOlder
  <1>7. PutSound(r)'
    BY <1>1, Versions DEF ReadTyped, ReaderSound, PutSound, Metadata, PutSteps
  <1>8. StreamSound(r)'
    BY <1>1, Versions DEF ReadTyped, ReaderSound, StreamSound, Length
  <1> QED
    BY <1>2, <1>3, <1>4, <1>5, <1>6, <1>7, <1>8, ReaderMoves DEF ReaderSound

LEMMA StreamKeeps ==
    ASSUME ReadInv, NEW r \in Reader, Piece(r) \/ StreamEnds(r)
    PROVE  ReadInv'
  <1> USE DEF Piece, StreamEnds, Is, GoOn, Keep, Ends, Caches, Past, Missed
  <1>1. ReadTyped /\ CachesSound /\ ReaderSound(r)
    BY DEF ReadInv
  <1>2. ReadTyped'
    BY <1>1, Versions DEF ReadTyped, ReadSteps, PutSteps, Kinds
  <1>3. CachesSound' /\ CachesMove
    BY <1>1, Versions DEF CachesSound, CachesMove, NotOlder, ReadTyped, ReaderSound, Metadata
  <1>4. \A s \in Reader \ {r} : Untouched(s) /\ FileMoves(s)
    BY <1>1 DEF ReadTyped, Untouched, FileMoves
  <1>5. Metadata(r)'
    BY <1>1, Versions DEF ReadTyped, CachesSound, ReaderSound, Metadata, NotOlder
  <1>6. FullSound(r)'
    BY <1>1, Versions DEF ReadTyped, CachesSound, ReaderSound, FullSound, Metadata, NotOlder
  <1>7. PutSound(r)'
    BY <1>1, Versions DEF ReadTyped, ReaderSound, PutSound, Metadata, PutSteps
  <1>8. StreamSound(r)'
    BY <1>1, Versions DEF ReadTyped, ReaderSound, StreamSound, Length
  <1> QED
    BY <1>2, <1>3, <1>4, <1>5, <1>6, <1>7, <1>8, ReaderMoves DEF ReaderSound

LEMMA DropKeeps ==
    ASSUME ReadInv, NEW r \in Reader, WriteFails(r) \/ DropEntry(r) \/ DropContent(r) \/ DropStamp(r)
    PROVE  ReadInv'
  <1> USE DEF WriteFails, DropEntry, DropContent, DropStamp, Is, GoOn, Keep, Ends, Caches, Past, Missed
  <1>1. ReadTyped /\ CachesSound /\ ReaderSound(r)
    BY DEF ReadInv
  <1>2. ReadTyped'
    BY <1>1, Versions DEF ReadTyped, ReadSteps, PutSteps, Kinds
  <1>3. CachesSound' /\ CachesMove
    BY <1>1, Versions DEF CachesSound, CachesMove, NotOlder, ReadTyped, ReaderSound, Metadata
  <1>4. \A s \in Reader \ {r} : Untouched(s) /\ FileMoves(s)
    BY <1>1 DEF ReadTyped, Untouched, FileMoves
  <1>5. Metadata(r)'
    BY <1>1, Versions DEF ReadTyped, CachesSound, ReaderSound, Metadata, NotOlder
  <1>6. FullSound(r)'
    BY <1>1, Versions DEF ReadTyped, CachesSound, ReaderSound, FullSound, Metadata, NotOlder
  <1>7. PutSound(r)'
    BY <1>1, Versions DEF ReadTyped, ReaderSound, PutSound, Metadata, PutSteps
  <1>8. StreamSound(r)'
    BY <1>1, Versions DEF ReadTyped, ReaderSound, StreamSound, Length
  <1> QED
    BY <1>2, <1>3, <1>4, <1>5, <1>6, <1>7, <1>8, ReaderMoves DEF ReaderSound

LEMMA RememberKeeps ==
    ASSUME ReadInv, NEW r \in Reader, StoreContent(r) \/ Stamp(r)
    PROVE  ReadInv'
  <1> USE DEF StoreContent, Stamp, Is, GoOn, Keep, Ends, Caches, Past, Missed
  <1>1. ReadTyped /\ CachesSound /\ ReaderSound(r)
    BY DEF ReadInv
  <1>2. ReadTyped'
    BY <1>1, Versions DEF ReadTyped, ReadSteps, PutSteps, Kinds
  <1>3. CachesSound' /\ CachesMove
    <2>1. /\ live \in Nat /\ content \in Nat /\ stamp \in Nat /\ meta[r] \in Nat /\ data[r] \in Nat
          /\ meta[r] <= live /\ data[r] <= live
      BY <1>1, Versions DEF ReadTyped, ReaderSound, Metadata
    <2>2. CASE StoreContent(r)
      <3>1. /\ live' = live /\ stamp' = stamp /\ entry' = entry
            /\ \/ content' = data[r] /\ late' = (late \/ data[r] # live)
               \/ content' \in {content, NoVersion} /\ late' = late
        BY <2>2
      <3>2. CASE content' = data[r] /\ late' = (late \/ data[r] # live)
        BY <1>1, <2>1, <3>1, <3>2 DEF CachesSound, CachesMove, NotOlder
      <3>3. CASE content' \in {content, NoVersion} /\ late' = late
        BY <1>1, <2>1, <3>1, <3>3 DEF CachesSound, CachesMove, NotOlder, NoVersion
      <3> QED
        BY <3>1, <3>2, <3>3
    <2>3. CASE Stamp(r)
      BY <1>1, <2>1, <2>3 DEF CachesSound, CachesMove, NotOlder, ReaderSound, Metadata
    <2> QED
      BY <2>2, <2>3
  <1>4. \A s \in Reader \ {r} : Untouched(s) /\ FileMoves(s)
    BY <1>1 DEF ReadTyped, Untouched, FileMoves
  <1>5. Metadata(r)'
    BY <1>1, Versions DEF ReadTyped, CachesSound, ReaderSound, Metadata, NotOlder
  <1>6. FullSound(r)'
    BY <1>1, Versions DEF ReadTyped, CachesSound, ReaderSound, FullSound, Metadata, NotOlder
  <1>7. PutSound(r)'
    BY <1>1, Versions DEF ReadTyped, ReaderSound, PutSound, Metadata, PutSteps
  <1>8. StreamSound(r)'
    BY <1>1, Versions DEF ReadTyped, ReaderSound, StreamSound, Length
  <1> QED
    BY <1>2, <1>3, <1>4, <1>5, <1>6, <1>7, <1>8, ReaderMoves DEF ReaderSound

LEMMA ComeKeeps ==
    ASSUME ReadInv, NEW r \in Reader, Come(r)
    PROVE  ReadInv'
  <1> USE DEF Come, Is, GoOn, Keep, Ends, Caches, Past, Missed
  <1>1. ReadTyped /\ CachesSound /\ ReaderSound(r)
    BY DEF ReadInv
  <1>2. ReadTyped'
    BY <1>1, Versions DEF ReadTyped, ReadSteps, PutSteps, Kinds
  <1>3. CachesSound' /\ CachesMove
    BY <1>1, Versions DEF CachesSound, CachesMove, NotOlder, ReadTyped, ReaderSound, Metadata
  <1>4. \A s \in Reader \ {r} : Untouched(s) /\ FileMoves(s)
    BY <1>1 DEF ReadTyped, Untouched, FileMoves
  <1>5. Metadata(r)'
    BY <1>1, Versions DEF ReadTyped, CachesSound, ReaderSound, Metadata, NotOlder
  <1>6. FullSound(r)'
    BY <1>1, Versions DEF ReadTyped, CachesSound, ReaderSound, FullSound, Metadata, NotOlder
  <1>7. PutSound(r)'
    BY <1>1, Versions DEF ReadTyped, ReaderSound, PutSound, Metadata, PutSteps
  <1>8. StreamSound(r)'
    BY <1>1, Versions DEF ReadTyped, ReaderSound, StreamSound, Length
  <1> QED
    BY <1>2, <1>3, <1>4, <1>5, <1>6, <1>7, <1>8, ReaderMoves DEF ReaderSound

LEMMA WriteKeeps ==
    ASSUME ReadInv, NEW r \in Reader, Write(r)
    PROVE  ReadInv'
  <1> USE DEF Write, Is, GoOn, Keep, Ends, Caches, Past, Missed, Change
  <1>1. ReadTyped /\ CachesSound /\ ReaderSound(r)
    BY DEF ReadInv
  <1>2. ReadTyped'
    BY <1>1, Versions DEF ReadTyped, ReadSteps, PutSteps, Kinds
  <1>3. CachesSound' /\ CachesMove
    BY <1>1, Versions DEF CachesSound, CachesMove, NotOlder, ReadTyped, ReaderSound, Metadata
  <1>4. \A s \in Reader \ {r} : Untouched(s) /\ FileMoves(s)
    BY <1>1 DEF ReadTyped, Untouched, FileMoves
  <1>5. Metadata(r)'
    <2>1. live \in Nat /\ meta[r] \in Nat /\ live' = live + 1 /\ data'[r] = live + 1 /\ step'[r] = "dropEntry"
      BY <1>1, Versions DEF ReadTyped
    <2> QED
      BY <1>1, <2>1 DEF ReaderSound, Metadata
  <1>6. FullSound(r)'
    BY <1>1, Versions DEF ReadTyped, CachesSound, ReaderSound, FullSound, Metadata, NotOlder
  <1>7. PutSound(r)'
    BY <1>1, Versions DEF ReadTyped, ReaderSound, PutSound, Metadata, PutSteps
  <1>8. StreamSound(r)'
    BY <1>1, Versions DEF ReadTyped, ReaderSound, StreamSound, Length
  <1> QED
    BY <1>2, <1>3, <1>4, <1>5, <1>6, <1>7, <1>8, ReaderMoves DEF ReaderSound

(* The file changes outside, or a cache forgets something.                 *)
LEMMA NobodyMoves ==
    ASSUME ReadInv, ChangedOutside \/ EntryExpires \/ ContentEvicted
    PROVE  ReadInv'
  <1> USE DEF ChangedOutside, EntryExpires, ContentEvicted, Change, Is, Caches, Past
  <1>1. ReadTyped /\ CachesSound
    BY DEF ReadInv
  <1>2. ReadTyped'
    <2>1. CASE ChangedOutside
      <3>1. live' = live + 1 /\ live' \in Version
        BY <1>1, <2>1, Versions DEF ReadTyped
      <3>2. since' \in [Reader -> SUBSET Version]
        BY <1>1, <2>1, <3>1 DEF ReadTyped
      <3> QED
        BY <1>1, <2>1, <3>1, <3>2 DEF ReadTyped
    <2>2. CASE EntryExpires \/ ContentEvicted
      BY <1>1, <2>2, Versions DEF ReadTyped
    <2> QED
      BY <2>1, <2>2
  <1>3. CachesSound' /\ CachesMove
    BY <1>1, Versions DEF CachesSound, CachesMove, NotOlder, ReadTyped
  <1>4. \A r \in Reader : Untouched(r) /\ FileMoves(r)
    BY <1>1 DEF ReadTyped, Untouched, FileMoves
  <1> QED
    BY <1>2, <1>3, <1>4, ReaderStays DEF ReadInv

(* ReadInv holds in every behaviour of the disk's reads.                   *)
THEOREM ReadInductive == ReadSpec => []ReadInv
  <1>1. ReadInv /\ [ReadNext]_readVars => ReadInv'
    <2> SUFFICES ASSUME ReadInv, [ReadNext]_readVars PROVE ReadInv'
      OBVIOUS
    <2>1. ASSUME NEW r \in Reader, ReadStep(r) PROVE ReadInv'
      BY <2>1, MetadataKeeps, FetchKeeps, StreamKeeps, DropKeeps, RememberKeeps, ComeKeeps, WriteKeeps
      DEF ReadStep
    <2>2. CASE UNCHANGED readVars
      BY <2>2 DEF readVars, ReadInv, ReadTyped, CachesSound, NotOlder, ReaderSound, Metadata, FullSound,
         PutSound, StreamSound, Length
    <2> QED
      BY <2>1, <2>2, NobodyMoves DEF ReadNext
  <1> QED
    BY InitRead, <1>1, PTL DEF ReadSpec

(* ReadsAreCurrent: what a client reads through the caches of the disk is  *)
(* the file as it was meanwhile, to its announced end, and its own writes  *)
(* (handle_get, stream_remote, cached_if_fresh, Shared::invalidate).       *)
THEOREM ReadsStayCurrent == ReadSpec => []ReadsAreCurrent
  <1>1. ReadInv => ReadsAreCurrent
    <2> SUFFICES ASSUME ReadInv, NEW r \in Reader
                 PROVE  /\ kind[r] = "full" /\ outcome[r] = "whole" /\ data[r] # NoVersion
                              => data[r] \in since[r] \/ late
                        /\ outcome[r] = "whole" /\ sent[r] > 0 => sent[r] = Length(r)
                        /\ kind[r] = "put" /\ outcome[r] = "whole" /\ data[r] = live
                              => entry \in {NoVersion, live} \/ crossed
      BY DEF ReadsAreCurrent, FullGetIsCurrent, WholeStreamIsWhole, OwnWriteIsListed
    <2>1. FullSound(r) /\ PutSound(r) /\ StreamSound(r)
      BY DEF ReadInv, ReaderSound
    <2> QED
      BY <2>1 DEF FullSound, PutSound, StreamSound
  <1> QED
    BY <1>1, ReadInductive, PTL

(* ------------------------------- writing -------------------------------- *)
BodyPhases == {"body", "memory", "how", "store", "undo", "undoBody", "bodyFailed"}
CopyPhases == {"unmake", "copied", "notCopied"}
SwapPhases == {"replace", "exists", "aside", "again", "dropOld", "restore", "giveUp"}
Phase == {"idle", "look", "delete", "mkdir", "clear", "transfer", "ok", "failed", "done", "gone"}
         \cup BodyPhases \cup CopyPhases \cup SwapPhases

WriteTyped ==
    /\ server \in Server /\ files \in [Name -> Content] /\ ask \in [Request -> Ask]
    /\ at \in [Request -> Phase] /\ seen \in [Request -> [src : Content, dst : Content]]
    /\ count \in [Request -> Nat] /\ code \in [Request -> {"none", "ok", "failed", "refused", "body"}]

(* What is asked where, and how far the request is.                        *)
PhaseSound(r) ==
    /\ at[r] \in BodyPhases => Put(r)
    /\ at[r] \in CopyPhases => InPlace(r)
    /\ at[r] \in {"clear", "transfer"} => InPlace(r) \/ ask[r].op = "MOVE"
    /\ at[r] \in SwapPhases => Put(r) \/ ask[r].op = "MOVE"
    /\ Put(r) => at[r] \notin {"delete", "mkdir", "clear"}
    /\ Put(r) /\ at[r] \in {"how", "store", "transfer"} \cup CopyPhases \cup SwapPhases => ask[r].asAnnounced
    /\ at[r] # "done" => code[r] = "none"
    /\ at[r] \in {"idle", "look", "clear", "memory"} => count[r] = 0
    /\ at[r] = "body" /\ ~ server.positional => count[r] = 0
    /\ at[r] = "unmake" => count[r] > 0
    /\ ask[r].op = "COPY" /\ at[r] \in {"clear", "transfer"} \cup CopyPhases => ~ SameEntry(r)

(* What the hidden names hold.                                             *)
HiddenSound(r) ==
    /\ files[Temp(r)] \in {Absent, Whole(r), Part(r)}
    /\ ~ Put(r) \/ at[r] \in {"idle", "look", "memory", "store", "dropOld"} => files[Temp(r)] = Absent
    /\ Put(r) /\ at[r] = "body" =>
          /\ count[r] = 0 => files[Temp(r)] = Absent
          /\ count[r] = Writes(r) => files[Temp(r)] = Whole(r)
    /\ Put(r) /\ at[r] \in {"how", "transfer"} \cup CopyPhases => files[Temp(r)] = Whole(r)
    /\ Put(r) /\ at[r] \in SwapPhases => files[Temp(r)] \in {Absent, Whole(r)}
    /\ at[r] \in {"ok", "failed", "bodyFailed", "done"} => files[Temp(r)] = Absent \/ May("remove")
    /\ at[r] \notin {"again", "dropOld", "restore", "giveUp", "ok", "failed", "done", "gone"}
          => files[Backup(r)] = Absent

(* The data of an upload that has not arrived are under its hidden name    *)
(* only.                                                                   *)
Arrived(r) ==
    /\ Put(r) /\ ask[r].asAnnounced
    /\ at[r] \notin {"idle", "look", "body", "memory", "undoBody", "bodyFailed"} /\ code[r] # "body"
Contained(r) ==
    ~ Arrived(r) => \A n \in Name \ {Temp(r)} : files[n] \notin {Whole(r), Part(r)}

(* A copy that is under way has left its beginning at its goal, unless     *)
(* another request uses that name, or the name of the source.              *)
Meets(r) == \E s \in Request : Meet(r, s)
Copies(r) ==
    InPlace(r) /\ count[r] > 0 =>
        /\ at[r] \in {"transfer", "unmake"} /\ (\A s \in Request : ~ Conflict(r, s))
              => \E x \in Path \cup Request : files[Goal(r)] = Part(x)
        /\ at[r] = "transfer" /\ ~ Meets(r)
              => IsFile(files[Source(r)]) /\ files[Goal(r)] = Part(files[Source(r)][2])

(* A part of a file under a name of the clients is of a request that met   *)
(* another, or of one that is not through or failed, and at its goal.      *)
IsPart(c) == \E x \in Path \cup Request : c = Part(x)
Met   == \E r \in Request : InPlace(r) /\ at[r] # "idle" /\ Meets(r)
Dirty(r) ==
    \/ at[r] \in {"transfer", "unmake", "notCopied", "failed", "gone"}
    \/ at[r] = "done" /\ code[r] # "ok"
PartsSound ==
    /\ \A p \in Path : IsPart(files[p]) => Met \/ \E r \in Request : InPlace(r) /\ Dirty(r) /\ Goal(r) = p
    /\ \A r \in Request : IsPart(files[Backup(r)]) => Met

(* Once the old file is aside its name is free, unless another request     *)
(* uses it or the server moved the new file there and reported an error.   *)
Emptied(r) ==
    at[r] \in {"again", "restore"} /\ (at[r] = "restore" => ~ May("lostReply"))
        /\ (\A s \in Request : ~ Conflict(r, s)) => files[Goal(r)] = Absent

RequestSound(r) == PhaseSound(r) /\ HiddenSound(r) /\ Contained(r) /\ Copies(r) /\ Emptied(r)
WriteInv == WriteTyped /\ (\A r \in Request : RequestSound(r)) /\ PartsSound

(* ------------------------- names and contents --------------------------- *)
LEMMA Names ==
    /\ Path \subseteq Name /\ \A p \in Path : Lower[p] \in Path
    /\ \A r \in Request : Temp(r) \in Name \ Path /\ Backup(r) \in Name \ Path
    /\ \A r, s \in Request : Temp(r) # Backup(s)
    /\ \A r, s \in Request : r # s => Temp(r) # Temp(s) /\ Backup(r) # Backup(s)
  BY DavAssumption DEF DavAssumption, Name, Temp, Backup

LEMMA Contents ==
    /\ Absent \in Content /\ Folder \in Content /\ Absent # Folder
    /\ \A x \in Path \cup Request : Whole(x) \in Content /\ Part(x) \in Content
    /\ \A x : Whole(x)[2] = x /\ Part(x)[2] = x
    /\ \A x : {Whole(x), Part(x)} \cap {Absent, Folder} = {}
    /\ \A x, y : Whole(x) # Part(y)
    /\ \A x, y : x # y => Whole(x) # Whole(y) /\ Part(x) # Part(y)
    /\ \A c \in Content : c \in {Absent, Folder} \/ \E x \in Path \cup Request : c \in {Whole(x), Part(x)}
  <1>1. \A x : Whole(x)[2] = x /\ Part(x)[2] = x /\ Whole(x)[1] = "file" /\ Part(x)[1] = "part"
    BY DEF Whole, Part
  <1>2. Absent[1] = "absent" /\ Folder[1] = "folder"
    BY DEF Absent, Folder
  <1>3. \A c \in Content : c \in {Absent, Folder} \/ \E x \in Path \cup Request : c \in {Whole(x), Part(x)}
    BY DEF Content
  <1>4. /\ Absent \in Content /\ Folder \in Content
        /\ \A x \in Path \cup Request : Whole(x) \in Content /\ Part(x) \in Content
    BY DEF Content
  <1> QED
    BY <1>1, <1>2, <1>3, <1>4

(* Where the steps of a request may change something.                      *)
LEMMA Places ==
    ASSUME WriteTyped, NEW r \in Request
    PROVE  /\ Goal(r) \in Path /\ Slot(ask[r].path) \in Path /\ NamesOf(r) \subseteq Path
           /\ Source(r) \in Name
           /\ Put(r) => Source(r) = Temp(r)
           /\ ~ Put(r) => Source(r) = Slot(ask[r].path)
           /\ ask[r].op = "COPY" /\ ~ SameEntry(r) => Source(r) # Goal(r)
           /\ Writes(r) \in Nat \ {0} /\ Pieces(r) \in Nat \ {0}
  <1>1. ask[r] \in Ask
    BY DEF WriteTyped
  <1>2. ask[r].path \in Path /\ ask[r].dest \in Path /\ ask[r].pieces \in 0..2
    BY <1>1 DEF Ask
  <1>3. Target(r) \in Path
    BY <1>2 DEF Target
  <1>4. \A p \in Path : Slot(p) \in Path
    BY Names DEF Slot
  <1>5. ask[r].op = "COPY" /\ ~ SameEntry(r) => Slot(ask[r].path) # Goal(r)
    <2> SUFFICES ASSUME ask[r].op = "COPY", ~ SameEntry(r) PROVE Slot(ask[r].path) # Goal(r)
      OBVIOUS
    <2>1. Goal(r) = Slot(ask[r].dest) /\ Lower[ask[r].path] # Lower[ask[r].dest]
      BY DEF Goal, Target, SameEntry
    <2> QED
      BY <2>1 DEF Slot
  <1>6. Writes(r) \in Nat \ {0} /\ Pieces(r) \in Nat \ {0}
    BY <1>2 DEF Writes, Pieces
  <1>7. Goal(r) \in Path /\ NamesOf(r) \subseteq Path
    BY <1>2, <1>3, <1>4 DEF Goal, NamesOf
  <1>8. Put(r) => Source(r) = Temp(r) /\ ask[r].op # "COPY"
    BY DEF Source, Put
  <1>9. ~ Put(r) => Source(r) = Slot(ask[r].path)
    BY DEF Source
  <1> QED
    BY <1>2, <1>4, <1>5, <1>6, <1>7, <1>8, <1>9, Names

(* ------------------------ what the calls change ------------------------- *)
MovedFiles(a, b) == [files EXCEPT ![b] = files[a], ![a] = Absent]
Moves(a, b) ==
    /\ files' = MovedFiles(a, b) /\ a # b /\ files[a] # Absent
    /\ files[b] = Absent \/ (server.overwrites /\ IsFile(files[a]) /\ IsFile(files[b]))

LEMMA RenameResult ==
    ASSUME NEW a, NEW b, NEW o \in RenameCall(a, b)
    PROVE  \/ o.files = files /\ (o.ok => a = b /\ files[a] # Absent)
           \/ /\ o.files = MovedFiles(a, b) /\ a # b /\ files[a] # Absent
              /\ files[b] = Absent \/ (server.overwrites /\ IsFile(files[a]) /\ IsFile(files[b]))
  BY DEF RenameCall, MovedFiles, Refused, Failing, Result

LEMMA RemoveResult ==
    ASSUME NEW a, NEW sort, NEW o \in RemoveCall(a, sort)
    PROVE  \/ o.files = [files EXCEPT ![a] = Absent]
           \/ /\ o.files = files /\ ~ o.ok
              /\ files[a] = Absent \/ May("remove") \/ (files[a] = Folder) # (sort = Folder)
  BY DEF RemoveCall, Refused, Failing, Result

LEMMA RemoveFileResult ==
    ASSUME NEW a, files[a] # Folder, NEW o \in RemoveFileCall(a)
    PROVE  \/ o.files = [files EXCEPT ![a] = Absent]
           \/ o.files = files /\ ~ o.ok /\ (files[a] = Absent \/ May("remove"))
  <1>1. Whole(a) # Folder
    BY Contents
  <1> QED
    BY <1>1, RemoveResult DEF RemoveFileCall

LEMMA CreateDirResult ==
    ASSUME NEW a, NEW o \in CreateDirCall(a)
    PROVE  \/ o.files = files /\ ~ o.ok
           \/ o.files = [files EXCEPT ![a] = Folder] /\ ~ IsFile(files[a])
  BY DEF CreateDirCall, Refused, Failing, Result

LEMMA StoreResult ==
    ASSUME NEW a, NEW piece, NEW o \in StoreCall(a, piece)
    PROVE  \/ o.files = files /\ ~ o.ok
           \/ o.files = [files EXCEPT ![a] = piece] /\ o.ok
           \/ o.files = [files EXCEPT ![a] = Part(piece[2])] /\ ~ o.ok
  <1>1. \/ o \in Refused \cup Failing("store")
        \/ o = Result(TRUE, [files EXCEPT ![a] = piece])
        \/ o = Result(FALSE, [files EXCEPT ![a] = Part(piece[2])])
    BY DEF StoreCall
  <1>2. CASE o \in Refused \cup Failing("store")
    BY <1>2 DEF Refused, Failing, Result
  <1>3. CASE o = Result(TRUE, [files EXCEPT ![a] = piece])
    BY <1>3 DEF Result
  <1>4. CASE o = Result(FALSE, [files EXCEPT ![a] = Part(piece[2])])
    BY <1>4 DEF Result
  <1> QED
    BY <1>1, <1>2, <1>3, <1>4

(* --------------------------- what a step does --------------------------- *)
Set(a, c) == files' = [files EXCEPT ![a] = c]
FilesChange(r) ==
    \/ files' = files
    \/ /\ at[r] \in {"undo", "undoBody", "giveUp", "copied", "notCopied"}
       /\ Put(r) /\ Set(Temp(r), Absent)
    \/ at[r] = "dropOld" /\ at'[r] = "ok" /\ Set(Backup(r), Absent)
    \/ at[r] \in {"delete", "clear", "unmake"} /\ Set(Goal(r), Absent)
    \/ at[r] = "body" /\ \E c \in {Whole(r), Part(r)} : Set(Temp(r), c)
    \/ at[r] = "store" /\ \E c \in {Whole(r), Part(r)} : Set(Goal(r), c) /\ (c = Part(r) => at'[r] = "failed")
    \/ /\ at[r] = "transfer" /\ InPlace(r) /\ IsFile(files[Source(r)])
       /\ \E c \in {files[Source(r)], Part(files[Source(r)][2])} : Set(Goal(r), c)
    \/ at[r] \in {"mkdir", "transfer"} /\ ~ IsFile(files[Goal(r)]) /\ Set(Goal(r), Folder)
    \/ /\ at[r] \in {"replace", "again"} \/ (at[r] = "transfer" /\ ask[r].op = "MOVE")
       /\ Moves(Source(r), Goal(r))
    \/ at[r] = "aside" /\ Moves(Goal(r), Backup(r))
    \/ at[r] = "restore" /\ Moves(Backup(r), Goal(r))

(* A step is of one request, whose question stays what it was, and changes *)
(* where that is or what it has written.                                   *)
OwnStep(r) ==
    /\ server' = server
    /\ \A s \in Request \ {r} :
          /\ at'[s] = at[s] /\ ask'[s] = ask[s] /\ seen'[s] = seen[s]
          /\ count'[s] = count[s] /\ code'[s] = code[s]
    /\ at[r] # "idle" => ask'[r] = ask[r]
    /\ at[r] = "idle" => files' = files /\ at'[r] = "look" /\ count'[r] = count[r] /\ code'[r] = code[r]
    /\ at'[r] # "idle" /\ at[r] # "done"
    /\ at'[r] # at[r] \/ count'[r] # count[r]

LEMMA ArriveMoves ==
    ASSUME WriteInv, NEW r \in Request, Arrive(r)
    PROVE  OwnStep(r)
  BY DEF WriteInv, WriteTyped, Arrive, Goto, OwnStep

(* A call is made: what it may have changed is what its result says.       *)
LEMMA AttemptMoves ==
    ASSUME WriteInv, NEW r \in Request, NEW phase \in Phase \ {"idle", "done"}, NEW call,
           NEW good \in Phase \ {"idle"}, NEW bad \in Phase \ {"idle"}, good # phase, bad # phase,
           Attempt(r, phase, call, good, bad)
    PROVE  /\ OwnStep(r) /\ at[r] = phase
           /\ \E o \in call : files' = o.files /\ at'[r] = (IF o.ok THEN good ELSE bad)
           /\ UNCHANGED <<ask, seen, count, code>>
  <1>1. PICK o \in call : files' = o.files /\ at' = [at EXCEPT ![r] = IF o.ok THEN good ELSE bad]
    BY DEF Attempt, Goto
  <1>2. at[r] = phase /\ UNCHANGED <<server, ask, seen, count, code>>
    BY DEF Attempt
  <1>3. at'[r] = (IF o.ok THEN good ELSE bad) /\ \A s \in Request \ {r} : at'[s] = at[s]
    BY <1>1 DEF WriteInv, WriteTyped
  <1> QED
    BY <1>1, <1>2, <1>3 DEF OwnStep

(* What has arrived stays so, and a copy that has begun ends in its goal.  *)
Progress(r) ==
    /\ Arrived(r) => Arrived(r)'
    /\ InPlace(r) /\ at[r] # "idle" /\ Dirty(r)
          => Dirty(r)' \/ (at[r] = "transfer" /\ at'[r] = "copied")
StepSound(r) ==
    OwnStep(r) /\ FilesChange(r) /\ WriteTyped' /\ PhaseSound(r)' /\ HiddenSound(r)' /\ Progress(r)

LEMMA Parts ==
    ASSUME WriteInv, NEW r \in Request
    PROVE  WriteTyped /\ PhaseSound(r) /\ HiddenSound(r) /\ Contained(r) /\ Copies(r) /\ Emptied(r)
  BY DEF WriteInv, RequestSound

LEMMA FilesTyped ==
    ASSUME WriteInv, NEW r \in Request, FilesChange(r)
    PROVE  files' \in [Name -> Content]
  <1>1. /\ files \in [Name -> Content] /\ Temp(r) \in Name /\ Backup(r) \in Name
        /\ Source(r) \in Name /\ Goal(r) \in Name
    BY Parts, Places, Names DEF WriteTyped
  <1>2. \A a \in Name, b \in Name : MovedFiles(a, b) \in [Name -> Content]
    BY <1>1, Contents DEF MovedFiles
  <1>3. \A a \in Name, c \in Content : [files EXCEPT ![a] = c] \in [Name -> Content]
    BY <1>1
  <1>4. IsFile(files[Source(r)]) =>
            files[Source(r)] \in Content /\ Part(files[Source(r)][2]) \in Content
    <2> SUFFICES ASSUME IsFile(files[Source(r)])
                 PROVE  files[Source(r)] \in Content /\ Part(files[Source(r)][2]) \in Content
      OBVIOUS
    <2>1. PICK x \in Path \cup Request : files[Source(r)] \in {Whole(x), Part(x)}
      BY <1>1, Contents DEF IsFile
    <2> QED
      BY <1>1, <2>1, Contents
  <1>5. Whole(r) \in Content /\ Part(r) \in Content /\ Absent \in Content /\ Folder \in Content
    BY Contents
  <1>6. (\E a \in Name, b \in Name : Moves(a, b)) => files' \in [Name -> Content]
    BY <1>2 DEF Moves
  <1>7. (\E a \in Name, c \in Content : Set(a, c)) => files' \in [Name -> Content]
    BY <1>3 DEF Set
  <1>8. \/ files' = files \/ (\E a \in Name, b \in Name : Moves(a, b))
        \/ \E a \in Name, c \in Content : Set(a, c)
    BY <1>1, <1>4, <1>5 DEF FilesChange
  <1> QED
    BY <1>1, <1>6, <1>7, <1>8

(* Where a call leaves the hidden names alone.                             *)
LEMMA HiddenAlone ==
    ASSUME WriteInv, NEW r \in Request, NEW c, files' = files \/ Set(Goal(r), c)
    PROVE  files'[Temp(r)] = files[Temp(r)] /\ files'[Backup(r)] = files[Backup(r)]
  BY Parts, Places, Names DEF Set, WriteTyped

(* An attempt keeps the types, when its calls do.                          *)
LEMMA AttemptTyped ==
    ASSUME WriteInv, NEW r \in Request, FilesChange(r), NEW good \in Phase, NEW bad \in Phase,
           NEW phase \in Phase, NEW call, Attempt(r, phase, call, good, bad)
    PROVE  WriteTyped'
  BY Parts, FilesTyped DEF WriteTyped, Attempt, Goto

LEMMA PlainCallsSound ==
    ASSUME WriteInv, NEW r \in Request, Delete(r) \/ Mkdir(r) \/ Unmake(r) \/ Clear(r)
    PROVE  StepSound(r)
  <1> USE DEF Phase, BodyPhases, CopyPhases, SwapPhases
  <1>0. WriteTyped /\ PhaseSound(r) /\ HiddenSound(r)
    BY Parts
  <1>1. ASSUME NEW phase \in {"delete", "mkdir", "unmake", "clear"}, NEW call, NEW good, NEW bad,
               Attempt(r, phase, call, good, bad),
               phase \in {"delete", "mkdir"} => good = "ok" /\ bad = "failed",
               phase = "unmake" => good = "notCopied" /\ bad = "notCopied",
               phase = "clear" => good = "transfer" /\ bad = "failed",
               \A o \in call : \/ o.files = files
                               \/ phase # "mkdir" /\ o.files = [files EXCEPT ![Goal(r)] = Absent]
                               \/ /\ phase = "mkdir" /\ ~ IsFile(files[Goal(r)])
                                  /\ o.files = [files EXCEPT ![Goal(r)] = Folder]
        PROVE  StepSound(r)
    <2>1. /\ OwnStep(r) /\ at[r] = phase /\ at'[r] \in {good, bad} /\ UNCHANGED <<ask, seen, count, code>>
          /\ \E o \in call : files' = o.files
      <3>1. good \in Phase \ {"idle"} /\ bad \in Phase \ {"idle"} /\ good # phase /\ bad # phase
            /\ phase \in Phase \ {"idle", "done"}
        BY <1>1
      <3> QED
        BY <1>1, <3>1, AttemptMoves
    <2>2. FilesChange(r)
      BY <1>1, <2>1 DEF FilesChange, Set
    <2>3. files'[Temp(r)] = files[Temp(r)] /\ files'[Backup(r)] = files[Backup(r)]
      BY <1>1, <2>1, HiddenAlone DEF Set
    <2>4. WriteTyped'
      BY <1>1, <2>2, AttemptTyped
    <2>5. PhaseSound(r)'
      BY <1>0, <1>1, <2>1 DEF PhaseSound, Put, InPlace, SameEntry
    <2>6. HiddenSound(r)'
      BY <1>0, <1>1, <2>1, <2>3 DEF HiddenSound, PhaseSound, Put, InPlace, May, OwnStep
    <2>7. Progress(r)
      BY <1>0, <1>1, <2>1 DEF Progress, Arrived, Dirty, InPlace, Put, PhaseSound
    <2> QED
      BY <2>1, <2>2, <2>4, <2>5, <2>6, <2>7 DEF StepSound
  <1>2. CASE Delete(r)
    <2>1. \A o \in RemoveCall(Goal(r), seen[r].dst) :
              o.files = files \/ o.files = [files EXCEPT ![Goal(r)] = Absent]
      BY RemoveResult
    <2> QED
      BY <1>1, <1>2, <2>1 DEF Delete
  <1>3. CASE Mkdir(r)
    BY <1>1, <1>3, CreateDirResult DEF Mkdir
  <1>4. CASE Unmake(r)
    BY <1>1, <1>4, RemoveResult DEF Unmake, RemoveFileCall
  <1>5. CASE Clear(r)
    <2>1. \A o \in RemoveCall(Goal(r), seen[r].dst) :
              o.files = files \/ o.files = [files EXCEPT ![Goal(r)] = Absent]
      BY RemoveResult
    <2> QED
      BY <1>1, <1>5, <2>1 DEF Clear
  <1> QED
    BY <1>2, <1>3, <1>4, <1>5

(* The hidden copy of an upload is removed.                                *)
LEMMA RemovalsSound ==
    ASSUME WriteInv, NEW r \in Request, Put(r),
           NEW phase, NEW good,
           \/ phase \in {"undo", "notCopied", "giveUp"} /\ good = "failed"
           \/ phase = "undoBody" /\ good = "bodyFailed"
           \/ phase = "copied" /\ good = "ok",
           Attempt(r, phase, RemoveFileCall(Temp(r)), good, good)
    PROVE  StepSound(r)
  <1> USE DEF Phase, BodyPhases, CopyPhases, SwapPhases
  <1>0. WriteTyped /\ PhaseSound(r) /\ HiddenSound(r)
    BY Parts
  <1>1. good \in Phase \ {"idle"} /\ good # phase /\ phase \in Phase \ {"idle", "done"}
    OBVIOUS
  <1>2. /\ OwnStep(r) /\ at[r] = phase /\ at'[r] = good /\ UNCHANGED <<ask, seen, count, code>>
        /\ \E o \in RemoveFileCall(Temp(r)) : files' = o.files
    BY <1>1, AttemptMoves
  <1>3. files[Temp(r)] # Folder
    BY <1>0, Contents DEF HiddenSound
  <1>4. Set(Temp(r), Absent) \/ (files' = files /\ (files[Temp(r)] = Absent \/ May("remove")))
    BY <1>2, <1>3, RemoveFileResult DEF Set
  <1>5. FilesChange(r)
    BY <1>2, <1>4 DEF FilesChange
  <1>6. /\ files'[Temp(r)] = Absent \/ (files'[Temp(r)] = files[Temp(r)] /\ May("remove"))
        /\ files'[Backup(r)] = files[Backup(r)]
    BY <1>0, <1>4, Names DEF Set, WriteTyped
  <1>7. WriteTyped'
    BY <1>1, <1>5, AttemptTyped
  <1>8. PhaseSound(r)'
    BY <1>0, <1>2 DEF PhaseSound, Put, InPlace, SameEntry
  <1>9. HiddenSound(r)'
    BY <1>0, <1>2, <1>6 DEF HiddenSound, May, OwnStep, Put
  <1>10. Progress(r)
    BY <1>0, <1>2 DEF Progress, Arrived, Dirty, InPlace, Put, PhaseSound
  <1> QED
    BY <1>2, <1>5, <1>7, <1>8, <1>9, <1>10 DEF StepSound

LEMMA DropOldSound == ASSUME WriteInv, NEW r \in Request, DropOld(r) PROVE StepSound(r)
  <1> USE DEF Phase, BodyPhases, CopyPhases, SwapPhases
  <1>0. WriteTyped /\ PhaseSound(r) /\ HiddenSound(r)
    BY Parts
  <1>1. Attempt(r, "dropOld", RemoveFileCall(Backup(r)), "ok", "ok")
    BY DEF DropOld
  <1>2. /\ OwnStep(r) /\ at[r] = "dropOld" /\ at'[r] = "ok" /\ UNCHANGED <<ask, seen, count, code>>
        /\ \E o \in RemoveFileCall(Backup(r)) : files' = o.files
    BY <1>1, AttemptMoves
  <1>3. Set(Backup(r), Absent) \/ files' = files
    BY <1>2, RemoveResult DEF Set, RemoveFileCall
  <1>4. FilesChange(r)
    BY <1>2, <1>3 DEF FilesChange
  <1>5. files'[Temp(r)] = files[Temp(r)]
    BY <1>0, <1>3, Names DEF Set, WriteTyped
  <1>6. WriteTyped'
    BY <1>1, <1>4, AttemptTyped
  <1>7. PhaseSound(r)' /\ HiddenSound(r)' /\ Progress(r)
    BY <1>0, <1>2, <1>5 DEF PhaseSound, Put, InPlace, SameEntry, HiddenSound, Progress, Arrived, Dirty
  <1> QED
    BY <1>2, <1>4, <1>6, <1>7 DEF StepSound

(* ------------------------------- renames -------------------------------- *)
LEMMA RenamesSound ==
    ASSUME WriteInv, NEW r \in Request,
           Rename(r) \/ Replace(r) \/ SetAside(r) \/ RenameAgain(r) \/ Restore(r)
    PROVE  StepSound(r)
  <1> USE DEF Phase, BodyPhases, CopyPhases, SwapPhases
  <1>0. WriteTyped /\ PhaseSound(r) /\ HiddenSound(r)
    BY Parts
  <1>1. /\ Goal(r) \in Path /\ Goal(r) # Temp(r) /\ Goal(r) # Backup(r) /\ Temp(r) # Backup(r)
        /\ Put(r) => Source(r) = Temp(r)
        /\ ~ Put(r) => Source(r) \in Path /\ Source(r) # Temp(r) /\ Source(r) # Backup(r)
        /\ {Goal(r), Source(r), Temp(r), Backup(r)} \subseteq Name
    BY <1>0, Places, Names
  <1>2. ASSUME NEW phase \in {"transfer", "replace", "aside", "again", "restore"}, NEW a, NEW b, NEW good, NEW bad,
               Attempt(r, phase, RenameCall(a, b), good, bad),
               \/ /\ phase = "transfer" /\ ask[r].op = "MOVE" /\ a = Source(r) /\ b = Goal(r)
                  /\ good = "ok" /\ bad = "failed"
               \/ phase = "replace" /\ a = Source(r) /\ b = Goal(r) /\ good = "ok" /\ bad = "exists"
               \/ phase = "again" /\ a = Source(r) /\ b = Goal(r) /\ good = "dropOld" /\ bad = "restore"
               \/ phase = "aside" /\ a = Goal(r) /\ b = Backup(r) /\ good = "again" /\ bad = "giveUp"
               \/ phase = "restore" /\ a = Backup(r) /\ b = Goal(r) /\ good = "giveUp" /\ bad = "giveUp"
        PROVE  StepSound(r)
    <2>1. PICK o \in RenameCall(a, b) :
              /\ OwnStep(r) /\ at[r] = phase /\ UNCHANGED <<ask, seen, count, code>>
              /\ files' = o.files /\ at'[r] = (IF o.ok THEN good ELSE bad)
      <3>1. good \in Phase \ {"idle"} /\ bad \in Phase \ {"idle"} /\ good # phase /\ bad # phase
            /\ phase \in Phase \ {"idle", "done"}
        BY <1>2
      <3> QED
        BY <1>2, <3>1, AttemptMoves
    <2>2. \/ files' = files /\ (o.ok => a = b)
          \/ Moves(a, b)
      BY <2>1, RenameResult DEF Moves
    <2>3. FilesChange(r)
      BY <1>2, <2>1, <2>2 DEF FilesChange
    <2>4. Moves(a, b) => /\ files'[b] = files[a] /\ files'[a] = Absent
                         /\ \A n \in Name \ {a, b} : files'[n] = files[n]
      BY <1>0, <1>1, <1>2 DEF Moves, MovedFiles, WriteTyped
    <2>5. WriteTyped'
      <3>1. good \in Phase /\ bad \in Phase /\ phase \in Phase
        BY <1>2
      <3> QED
        BY <1>2, <2>3, <3>1, AttemptTyped
    <2>6. PhaseSound(r)'
      BY <1>0, <1>2, <2>1 DEF PhaseSound, Put, InPlace, SameEntry
    <2>7. HiddenSound(r)'
      <3>1. CASE phase \in {"transfer", "replace", "again"} /\ a = Source(r) /\ b = Goal(r)
        <4>1. files'[Temp(r)] \in {files[Temp(r)], Absent} /\ files'[Backup(r)] = files[Backup(r)]
          BY <1>1, <2>2, <2>4, <3>1
        <4>2. Put(r) /\ at'[r] \in {"ok", "dropOld"} => files'[Temp(r)] = Absent
          BY <1>1, <1>2, <2>1, <2>2, <2>4, <3>1
        <4> QED
          BY <1>0, <1>2, <2>1, <3>1, <4>1, <4>2, Contents DEF HiddenSound, May, OwnStep, Put, PhaseSound
      <3>2. CASE phase \in {"aside", "restore"} /\ {a, b} = {Goal(r), Backup(r)}
        <4>1. files'[Temp(r)] = files[Temp(r)]
          BY <1>1, <2>2, <2>4, <3>2
        <4>2. phase = "aside" => at'[r] \in {"again", "giveUp"}
          BY <1>2, <2>1
        <4>3. phase = "restore" => at'[r] = "giveUp"
          BY <1>2, <2>1
        <4> QED
          BY <1>0, <2>1, <3>2, <4>1, <4>2, <4>3 DEF HiddenSound, May, OwnStep, Put
      <3> QED
        BY <1>2, <3>1, <3>2
    <2>8. Progress(r)
      BY <1>0, <1>2, <2>1 DEF Progress, Arrived, Dirty, InPlace, Put, PhaseSound
    <2> QED
      BY <2>1, <2>3, <2>5, <2>6, <2>7, <2>8 DEF StepSound
  <1>3. CASE Rename(r)
    BY <1>2, <1>3 DEF Rename
  <1>4. CASE Replace(r)
    BY <1>2, <1>4 DEF Replace
  <1>5. CASE SetAside(r)
    BY <1>2, <1>5 DEF SetAside
  <1>6. CASE RenameAgain(r)
    BY <1>2, <1>6 DEF RenameAgain
  <1>7. CASE Restore(r)
    BY <1>2, <1>7 DEF Restore
  <1> QED
    BY <1>3, <1>4, <1>5, <1>6, <1>7

(* ---------------------------- writing a body ---------------------------- *)
LEMMA StoreSound == ASSUME WriteInv, NEW r \in Request, Store(r) PROVE StepSound(r)
  <1> USE DEF Phase, BodyPhases, CopyPhases, SwapPhases
  <1>0. WriteTyped /\ PhaseSound(r) /\ HiddenSound(r)
    BY Parts
  <1>1. Attempt(r, "store", StoreCall(Goal(r), Whole(r)), "ok", "failed")
    BY DEF Store
  <1>2. PICK o \in StoreCall(Goal(r), Whole(r)) :
            /\ OwnStep(r) /\ at[r] = "store" /\ UNCHANGED <<ask, seen, count, code>>
            /\ files' = o.files /\ at'[r] = (IF o.ok THEN "ok" ELSE "failed")
    BY <1>1, AttemptMoves
  <1>3. Part(Whole(r)[2]) = Part(r)
    BY Contents
  <1>4. \/ files' = files
        \/ Set(Goal(r), Whole(r))
        \/ Set(Goal(r), Part(r)) /\ at'[r] = "failed"
    <2>1. \/ o.files = files /\ ~ o.ok
          \/ o.files = [files EXCEPT ![Goal(r)] = Whole(r)] /\ o.ok
          \/ o.files = [files EXCEPT ![Goal(r)] = Part(Whole(r)[2])] /\ ~ o.ok
      BY StoreResult
    <2> QED
      BY <1>2, <1>3, <2>1 DEF Set
  <1>5. Whole(r) # Part(r)
    BY Contents
  <1>6. FilesChange(r)
    BY <1>2, <1>4, <1>5 DEF FilesChange
  <1>7. files'[Temp(r)] = files[Temp(r)] /\ files'[Backup(r)] = files[Backup(r)]
    BY <1>4, HiddenAlone
  <1>8. WriteTyped'
    BY <1>1, <1>6, AttemptTyped
  <1>9. PhaseSound(r)' /\ Progress(r)
    BY <1>0, <1>2 DEF PhaseSound, Put, InPlace, SameEntry, Progress, Arrived, Dirty
  <1>10. HiddenSound(r)'
    BY <1>0, <1>2, <1>7 DEF HiddenSound, Put
  <1> QED
    BY <1>2, <1>6, <1>8, <1>9, <1>10 DEF StepSound

LEMMA PutPieceSound == ASSUME WriteInv, NEW r \in Request, PutPiece(r) PROVE StepSound(r)
  <1> USE DEF Phase, BodyPhases, CopyPhases, SwapPhases
  <1>0. WriteTyped /\ PhaseSound(r) /\ HiddenSound(r) /\ Put(r)
    BY Parts DEF PutPiece, PhaseSound
  <1> DEFINE piece == IF count[r] + 1 = Writes(r) THEN Whole(r) ELSE Part(r)
  <1>1. PICK o \in WriteCall(Temp(r), count[r] = 0, piece) :
            /\ files' = o.files
            /\ count' = [count EXCEPT ![r] = IF o.ok THEN @ + 1 ELSE @]
            /\ at' = [at EXCEPT ![r] = IF o.ok THEN "body" ELSE "undo"]
    BY DEF PutPiece, Goto
  <1>2. /\ at[r] = "body" /\ count[r] < Writes(r) /\ count[r] \in Nat /\ Writes(r) \in Nat \ {0}
        /\ server.positional /\ UNCHANGED <<server, ask, seen, code>>
    BY <1>0, Places DEF PutPiece, WriteTyped
  <1>3. /\ at'[r] = (IF o.ok THEN "body" ELSE "undo") /\ count'[r] = (IF o.ok THEN count[r] + 1 ELSE count[r])
        /\ count' \in [Request -> Nat]
        /\ \A s \in Request \ {r} : at'[s] = at[s] /\ count'[s] = count[s]
    BY <1>0, <1>1, <1>2 DEF WriteTyped
  <1>4. piece[2] = r /\ piece \in {Whole(r), Part(r)}
    BY Contents
  <1> HIDE DEF piece
  <1>5. \/ files' = files /\ ~ o.ok
        \/ Set(Temp(r), piece) /\ o.ok
        \/ Set(Temp(r), Part(r)) /\ ~ o.ok
    <2>1. \/ o.files = files /\ ~ o.ok
          \/ o.files = [files EXCEPT ![Temp(r)] = piece] /\ o.ok
          \/ o.files = [files EXCEPT ![Temp(r)] = Part(piece[2])] /\ ~ o.ok /\ count[r] = 0
      <3>1. \/ o \in Refused \cup Failing("write")
            \/ o = Result(TRUE, [files EXCEPT ![Temp(r)] = piece])
            \/ count[r] = 0 /\ o = Result(FALSE, [files EXCEPT ![Temp(r)] = Part(piece[2])])
        BY DEF WriteCall
      <3>2. CASE o \in Refused \cup Failing("write")
        BY <3>2 DEF Refused, Failing, Result
      <3>3. CASE o = Result(TRUE, [files EXCEPT ![Temp(r)] = piece])
        BY <3>3 DEF Result
      <3>4. CASE count[r] = 0 /\ o = Result(FALSE, [files EXCEPT ![Temp(r)] = Part(piece[2])])
        BY <3>4 DEF Result
      <3> QED
        BY <3>1, <3>2, <3>3, <3>4
    <2> QED
      BY <1>1, <1>4, <2>1 DEF Set
  <1>6. FilesChange(r)
    BY <1>2, <1>4, <1>5 DEF FilesChange
  <1>7. OwnStep(r)
    BY <1>2, <1>3 DEF OwnStep
  <1>8. /\ files'[Temp(r)] \in {files[Temp(r)], Whole(r), Part(r)} /\ files'[Backup(r)] = files[Backup(r)]
        /\ o.ok => files'[Temp(r)] = piece
    BY <1>0, <1>4, <1>5, Names DEF Set, WriteTyped
  <1>9. WriteTyped'
    BY <1>0, <1>1, <1>2, <1>3, <1>6, FilesTyped DEF WriteTyped
  <1>10. PhaseSound(r)' /\ Progress(r)
    BY <1>0, <1>2, <1>3 DEF PhaseSound, Put, InPlace, SameEntry, Progress, Arrived, Dirty
  <1>11. Writes(r)' = Writes(r) /\ (count[r] + 1 = Writes(r) => piece = Whole(r))
    BY <1>2 DEF Writes, piece
  <1>12. HiddenSound(r)'
    <2>1. CASE o.ok
      BY <1>0, <1>2, <1>3, <1>8, <1>11, <2>1 DEF HiddenSound, Put
    <2>2. CASE ~ o.ok
      BY <1>0, <1>2, <1>3, <1>8, <2>2 DEF HiddenSound, Put
    <2> QED
      BY <2>1, <2>2
  <1> QED
    BY <1>6, <1>7, <1>9, <1>10, <1>12 DEF StepSound

(* ------------------------------- copying -------------------------------- *)
LEMMA CopyFolderSound == ASSUME WriteInv, NEW r \in Request, CopyFolder(r) PROVE StepSound(r)
  <1> USE DEF Phase, BodyPhases, CopyPhases, SwapPhases
  <1>0. WriteTyped /\ PhaseSound(r) /\ HiddenSound(r)
    BY Parts
  <1> DEFINE made == CreateDirCall(Goal(r))
             call == {o \in made : o.ok => files[Source(r)] = Folder}
                     \cup {[o EXCEPT !.ok = FALSE] :
                           o \in IF May("list") \/ files[Source(r)] # Folder THEN made ELSE {}}
  <1>1. ask[r].op # "MOVE" /\ Attempt(r, "transfer", call, "copied", "notCopied")
    BY DEF CopyFolder
  <1>2. \A o \in call : \E m \in made : o.files = m.files
    BY DEF CreateDirCall, Refused, Failing, Result
  <1> HIDE DEF call
  <1>3. /\ OwnStep(r) /\ at[r] = "transfer" /\ at'[r] \in {"copied", "notCopied"}
        /\ UNCHANGED <<ask, seen, count, code>> /\ \E o \in call : files' = o.files
    BY <1>1, AttemptMoves
  <1>4. files' = files \/ (Set(Goal(r), Folder) /\ ~ IsFile(files[Goal(r)]))
    BY <1>2, <1>3, CreateDirResult DEF Set
  <1>5. FilesChange(r)
    BY <1>3, <1>4 DEF FilesChange
  <1>6. files'[Temp(r)] = files[Temp(r)] /\ files'[Backup(r)] = files[Backup(r)]
    BY <1>4, HiddenAlone
  <1>7. WriteTyped'
    BY <1>1, <1>5, AttemptTyped
  <1>8. PhaseSound(r)' /\ Progress(r)
    BY <1>0, <1>1, <1>3 DEF PhaseSound, Put, InPlace, SameEntry, Progress, Arrived, Dirty
  <1>9. HiddenSound(r)'
    BY <1>0, <1>3, <1>6 DEF HiddenSound, Put
  <1> QED
    BY <1>3, <1>5, <1>7, <1>8, <1>9 DEF StepSound

LEMMA CopyPieceMoves ==
    ASSUME WriteInv, NEW r \in Request, CopyPiece(r)
    PROVE  /\ at[r] = "transfer" /\ InPlace(r) /\ IsFile(files[Source(r)])
           /\ at'[r] \in {"transfer", "copied", "notCopied", "unmake"}
           /\ count[r] \in Nat /\ count'[r] \in {count[r], count[r] + 1}
           /\ count' \in [Request -> Nat] /\ at' \in [Request -> Phase]
           /\ \A s \in Request \ {r} : at'[s] = at[s] /\ count'[s] = count[s]
           /\ UNCHANGED <<server, ask, seen, code>>
           /\ at'[r] = "transfer" => count'[r] = count[r] + 1 /\ Set(Goal(r), Part(files[Source(r)][2]))
           /\ at'[r] = "copied" =>
                 Set(Goal(r), IF server.positional /\ count[r] > 0 /\ files[Goal(r)] # Part(files[Source(r)][2])
                              THEN Part(files[Source(r)][2]) ELSE files[Source(r)])
           /\ at'[r] \in {"notCopied", "unmake"} =>
                 files' = files \/ Set(Goal(r), Part(files[Source(r)][2]))
           /\ at'[r] = "notCopied" /\ server.positional => count[r] = 0
           /\ at'[r] = "unmake" => count'[r] = count[r] /\ count[r] > 0 /\ files' = files
  <1> DEFINE source == files[Source(r)]
             last   == count[r] + 1 = Pieces(r)
             mixed  == count[r] > 0 /\ files[Goal(r)] # Part(source[2])
             piece   == IF last /\ ~ mixed THEN source ELSE Part(source[2])
  <1>0. WriteTyped /\ PhaseSound(r)
    BY Parts
  <1>1. at[r] = "transfer" /\ InPlace(r) /\ IsFile(source) /\ UNCHANGED <<server, ask, seen, code>> /\ count[r] \in Nat
    BY <1>0 DEF CopyPiece, Copying, PhaseSound, WriteTyped
  <1>2. piece[2] = source[2]
    BY Contents
  <1> HIDE DEF source, last, mixed, piece
  <1>3. CASE server.positional
    <2>1. PICK o \in WriteCall(Goal(r), count[r] = 0, piece) :
              /\ files' = o.files
              /\ count' = [count EXCEPT ![r] = IF o.ok THEN @ + 1 ELSE @]
              /\ at' = [at EXCEPT ![r] = IF ~ o.ok THEN (IF count[r] > 0 THEN "unmake" ELSE "notCopied")
                                         ELSE IF last THEN "copied" ELSE "transfer"]
      BY <1>3 DEF CopyPiece, Goto, source, last, mixed, piece
    <2>2. \/ files' = files /\ ~ o.ok
          \/ Set(Goal(r), piece) /\ o.ok
          \/ Set(Goal(r), Part(source[2])) /\ ~ o.ok /\ count[r] = 0
      <3>1. \/ o.files = files /\ ~ o.ok
            \/ o.files = [files EXCEPT ![Goal(r)] = piece] /\ o.ok
            \/ o.files = [files EXCEPT ![Goal(r)] = Part(piece[2])] /\ ~ o.ok /\ count[r] = 0
        <4>1. \/ o \in Refused \cup Failing("write")
              \/ o = Result(TRUE, [files EXCEPT ![Goal(r)] = piece])
              \/ count[r] = 0 /\ o = Result(FALSE, [files EXCEPT ![Goal(r)] = Part(piece[2])])
          BY DEF WriteCall
        <4>2. CASE o \in Refused \cup Failing("write")
          BY <4>2 DEF Refused, Failing, Result
        <4>3. CASE o = Result(TRUE, [files EXCEPT ![Goal(r)] = piece])
          BY <4>3 DEF Result
        <4>4. CASE count[r] = 0 /\ o = Result(FALSE, [files EXCEPT ![Goal(r)] = Part(piece[2])])
          BY <4>4 DEF Result
        <4> QED
          BY <4>1, <4>2, <4>3, <4>4
      <3> QED
        BY <1>2, <2>1, <3>1 DEF Set
    <2>3. /\ at'[r] = IF ~ o.ok THEN (IF count[r] > 0 THEN "unmake" ELSE "notCopied")
                      ELSE IF last THEN "copied" ELSE "transfer"
          /\ count'[r] = (IF o.ok THEN count[r] + 1 ELSE count[r])
          /\ count' \in [Request -> Nat] /\ at' \in [Request -> Phase]
          /\ \A s \in Request \ {r} : at'[s] = at[s] /\ count'[s] = count[s]
      BY <1>0, <1>1, <2>1 DEF WriteTyped, Phase, CopyPhases
    <2>4. piece = IF last /\ ~ mixed THEN source ELSE Part(source[2])
      BY DEF piece
    <2>5. CASE o.ok
      BY <1>1, <1>3, <2>2, <2>3, <2>4, <2>5 DEF source, mixed
    <2>6. CASE ~ o.ok
      BY <1>1, <1>3, <2>2, <2>3, <2>6 DEF source
    <2> QED
      BY <2>5, <2>6
  <1>4. CASE ~ server.positional
    <2>1. PICK o \in StoreCall(Goal(r), source) :
              /\ files' = o.files /\ count' = count
              /\ at' = [at EXCEPT ![r] = IF o.ok THEN "copied" ELSE "notCopied"]
      BY <1>4 DEF CopyPiece, Goto, source
    <2>2. \/ files' = files /\ ~ o.ok
          \/ Set(Goal(r), source) /\ o.ok
          \/ Set(Goal(r), Part(source[2])) /\ ~ o.ok
      BY <2>1, StoreResult DEF Set
    <2>3. /\ at'[r] = (IF o.ok THEN "copied" ELSE "notCopied") /\ at' \in [Request -> Phase]
          /\ \A s \in Request \ {r} : at'[s] = at[s] /\ count'[s] = count[s]
      BY <1>0, <2>1 DEF WriteTyped, Phase, CopyPhases
    <2> QED
      BY <1>0, <1>1, <1>4, <2>1, <2>2, <2>3 DEF source, WriteTyped
  <1> QED
    BY <1>3, <1>4

LEMMA CopyPieceSound == ASSUME WriteInv, NEW r \in Request, CopyPiece(r) PROVE StepSound(r)
  <1> USE DEF Phase, BodyPhases, CopyPhases, SwapPhases
  <1>0. WriteTyped /\ PhaseSound(r) /\ HiddenSound(r)
    BY Parts
  <1>1. /\ at[r] = "transfer" /\ InPlace(r) /\ IsFile(files[Source(r)])
        /\ at'[r] \in {"transfer", "copied", "notCopied", "unmake"}
        /\ UNCHANGED <<server, ask, seen, code>>
        /\ at'[r] = "transfer" => count'[r] = count[r] + 1 /\ count[r] \in Nat
        /\ at'[r] = "unmake" => count'[r] > 0
        /\ files' = files \/ Set(Goal(r), Part(files[Source(r)][2])) \/ Set(Goal(r), files[Source(r)])
    BY CopyPieceMoves
  <1>2. FilesChange(r)
    BY <1>1 DEF FilesChange
  <1>3. files'[Temp(r)] = files[Temp(r)] /\ files'[Backup(r)] = files[Backup(r)]
    BY <1>1, HiddenAlone
  <1>4. OwnStep(r)
    BY <1>1, CopyPieceMoves DEF OwnStep
  <1>5. WriteTyped'
    BY <1>0, <1>1, <1>2, CopyPieceMoves, FilesTyped DEF WriteTyped
  <1>6. PhaseSound(r)' /\ Progress(r)
    BY <1>0, <1>1 DEF PhaseSound, Put, InPlace, SameEntry, Progress, Arrived, Dirty
  <1>7. HiddenSound(r)'
    BY <1>0, <1>1, <1>3 DEF HiddenSound, Put
  <1> QED
    BY <1>2, <1>4, <1>5, <1>6, <1>7 DEF StepSound
(* ----------------------- steps that change no file ---------------------- *)
LEMMA LooksSound ==
    ASSUME WriteInv, NEW r \in Request, LookPut(r) \/ LookMoveCopy(r) \/ LookDelete(r) \/ LookMkcol(r)
    PROVE  StepSound(r) /\ files' = files
  <1> USE DEF Phase, BodyPhases, CopyPhases, SwapPhases
  <1>0. WriteTyped /\ PhaseSound(r) /\ HiddenSound(r) /\ Writes(r) \in Nat \ {0}
    BY Parts, Places
  <1>1. OwnStep(r) /\ files' = files
    BY <1>0 DEF WriteTyped, OwnStep, Goto, Answer, Still, Reply, Attempt, LookPut, LookMoveCopy, LookDelete, LookMkcol
  <1>2. FilesChange(r)
    BY <1>1 DEF FilesChange
  <1>3. WriteTyped'
    <2>1. \A p \in Path : Sees(p) \subseteq Content
      <3>1. \A p \in Path : Slot(p) \in Name
        BY Names DEF Slot
      <3> QED
        BY <1>0, <3>1, Contents DEF Sees, Held, WriteTyped
    <2>2. ask[r].path \in Path /\ ask[r].dest \in Path /\ seen[r] \in [src : Content, dst : Content]
      BY <1>0 DEF WriteTyped, Ask
    <2>3. seen' \in [Request -> [src : Content, dst : Content]]
      <3>1. CASE LookPut(r) \/ LookDelete(r)
        <4>1. seen' = seen \/ \E c \in Content : seen' = [seen EXCEPT ![r].dst = c]
          BY <2>1, <2>2, <3>1 DEF LookPut, LookDelete
        <4> QED
          BY <1>0, <2>2, <4>1 DEF WriteTyped
      <3>2. CASE LookMoveCopy(r)
        <4>1. \/ seen' = seen
              \/ \E s, d \in Content : seen' = [seen EXCEPT ![r] = [src |-> s, dst |-> d]]
          <5>1. PICK s \in Sees(ask[r].path), d \in IF SameEntry(r) THEN {Absent} ELSE Sees(ask[r].dest) :
                    seen' = seen \/ seen' = [seen EXCEPT ![r] = [src |-> s, dst |-> d]]
            BY <3>2 DEF LookMoveCopy
          <5>2. s \in Content /\ d \in Content
            BY <2>1, <2>2, Contents
          <5> QED
            BY <5>1, <5>2
        <4> QED
          BY <1>0, <4>1 DEF WriteTyped
      <3>3. CASE LookMkcol(r)
        BY <1>0, <3>3 DEF WriteTyped, LookMkcol, Still
      <3> QED
        BY <3>1, <3>2, <3>3
    <2>4. at' \in [Request -> Phase] /\ code' \in [Request -> {"none", "ok", "failed", "refused", "body"}]
      BY <1>0 DEF WriteTyped, Goto, Answer, Still, LookPut, LookMoveCopy, LookDelete, LookMkcol
    <2>5. UNCHANGED <<server, files, ask, count>>
      BY DEF LookPut, LookMoveCopy, LookDelete, LookMkcol, Still
    <2> QED
      BY <1>0, <2>3, <2>4, <2>5 DEF WriteTyped
  <1>4. PhaseSound(r)'
    BY <1>0, <1>1 DEF PhaseSound, Put, InPlace, SameEntry, WriteTyped, Goto, Answer, Still, Reply, LookPut, LookMoveCopy, LookDelete, LookMkcol
  <1>5. HiddenSound(r)'
    BY <1>0, <1>1 DEF HiddenSound, PhaseSound, Put, May, Writes, WriteTyped, Goto, Answer, Still, Reply, LookPut, LookMoveCopy, LookDelete, LookMkcol
  <1>6. Progress(r)
    BY <1>0, <1>1 DEF Progress, Arrived, Dirty, PhaseSound, Put, InPlace, WriteTyped, Goto, Answer, Still, Reply, LookPut, LookMoveCopy, LookDelete, LookMkcol
  <1> QED
    BY <1>1, <1>2, <1>3, <1>4, <1>5, <1>6 DEF StepSound

LEMMA BodiesSound ==
    ASSUME WriteInv, NEW r \in Request, KeepInMemory(r) \/ BodyFails(r) \/ BodyArrives(r) \/ ChooseHow(r)
    PROVE  StepSound(r) /\ files' = files
  <1> USE DEF Phase, BodyPhases, CopyPhases, SwapPhases
  <1>0. WriteTyped /\ PhaseSound(r) /\ HiddenSound(r) /\ Writes(r) \in Nat \ {0}
    BY Parts, Places
  <1>1. OwnStep(r) /\ files' = files
    BY <1>0 DEF WriteTyped, OwnStep, Goto, Answer, Still, Reply, Attempt, KeepInMemory, BodyFails, BodyArrives, ChooseHow
  <1>2. FilesChange(r)
    BY <1>1 DEF FilesChange
  <1>3. WriteTyped'
    <2>1. at' \in [Request -> Phase] /\ code' \in [Request -> {"none", "ok", "failed", "refused", "body"}]
      BY <1>0 DEF WriteTyped, Goto, Answer, Still, Reply, KeepInMemory, BodyFails, BodyArrives, ChooseHow
    <2>2. count' = count \/ count' = [count EXCEPT ![r] = 0]
      BY DEF KeepInMemory, BodyFails, BodyArrives, ChooseHow, Still, Reply
    <2>3. UNCHANGED <<server, files, ask, seen>>
      BY DEF KeepInMemory, BodyFails, BodyArrives, ChooseHow, Still, Reply
    <2> QED
      BY <1>0, <2>1, <2>2, <2>3 DEF WriteTyped
  <1>4. /\ UNCHANGED <<server, files, ask>> /\ at[r] \in {"body", "memory", "how"} /\ Put(r)
        /\ at[r] = "how" => at'[r] \in {"transfer", "replace"}
        /\ at[r] = "body" => at'[r] \in {"memory", "undoBody", "done", "store", "how"} /\ count'[r] = count[r]
        /\ at[r] = "memory" => at'[r] \in {"done", "store"}
    BY <1>0 DEF PhaseSound, WriteTyped, Goto, Answer, Still, Reply, KeepInMemory, BodyFails, BodyArrives, ChooseHow
  <1>5. at[r] = "body" /\ at'[r] \in {"memory", "store", "done"} => count[r] = 0
    BY <1>0 DEF PhaseSound, WriteTyped, Goto, Answer, Still, Reply, KeepInMemory, BodyFails, BodyArrives, ChooseHow
  <1>6. /\ at[r] = "body" /\ at'[r] = "how" => count[r] = Writes(r)
        /\ at'[r] \in {"how", "store"} => ask[r].asAnnounced
        /\ at'[r] # "done" => code' = code
    BY <1>0 DEF WriteTyped, Goto, Answer, Still, Reply, KeepInMemory, BodyFails, BodyArrives, ChooseHow
  <1>7. PhaseSound(r)'
    BY <1>0, <1>4, <1>5, <1>6 DEF PhaseSound, Put, InPlace, SameEntry
  <1>8. HiddenSound(r)'
    BY <1>0, <1>4, <1>5, <1>6 DEF HiddenSound, Put, May, Writes
  <1>9. Progress(r)
    BY <1>0, <1>1 DEF Progress, Arrived, Dirty, PhaseSound, Put, InPlace, WriteTyped, Goto, Answer, Still, Reply, KeepInMemory, BodyFails, BodyArrives, ChooseHow
  <1> QED
    BY <1>1, <1>2, <1>3, <1>7, <1>8, <1>9 DEF StepSound

LEMMA ChecksSound ==
    ASSUME WriteInv, NEW r \in Request, CopySourceGone(r) \/ CheckExists(r)
    PROVE  StepSound(r) /\ files' = files
  <1> USE DEF Phase, BodyPhases, CopyPhases, SwapPhases
  <1>0. WriteTyped /\ PhaseSound(r) /\ HiddenSound(r)
    BY Parts
  <1>1. \/ /\ at[r] = "transfer" /\ InPlace(r)
           /\ \E phase \in {"unmake", "notCopied"} : at' = [at EXCEPT ![r] = phase] /\ (phase = "unmake" => count[r] > 0)
        \/ at[r] = "exists" /\ \E phase \in {"aside", "giveUp"} : at' = [at EXCEPT ![r] = phase]
    <2>1. CASE CopySourceGone(r)
      BY <1>0, <2>1 DEF CopySourceGone, Copying, Goto, PhaseSound
    <2>2. CASE CheckExists(r)
      BY <2>2 DEF CheckExists, Goto
    <2> QED
      BY <2>1, <2>2
  <1>2. UNCHANGED <<server, files, ask, seen, count, code>>
    BY DEF CopySourceGone, CheckExists, Still
  <1>3. /\ at'[r] # at[r] /\ at' \in [Request -> Phase] /\ \A s \in Request \ {r} : at'[s] = at[s]
        /\ at[r] = "transfer" => InPlace(r) /\ at'[r] \in {"unmake", "notCopied"}
        /\ at'[r] = "unmake" => count[r] > 0
        /\ at[r] # "transfer" => at[r] = "exists" /\ at'[r] \in {"aside", "giveUp"}
    BY <1>0, <1>1 DEF WriteTyped
  <1>4. OwnStep(r) /\ FilesChange(r) /\ WriteTyped'
    BY <1>0, <1>2, <1>3 DEF OwnStep, FilesChange, WriteTyped
  <1>5. PhaseSound(r)' /\ HiddenSound(r)' /\ Progress(r)
    BY <1>0, <1>2, <1>3 DEF PhaseSound, HiddenSound, Progress, Arrived, Dirty, Put, InPlace, SameEntry, May
  <1> QED
    BY <1>2, <1>4, <1>5 DEF StepSound

LEMMA AnswersSound ==
    ASSUME WriteInv, NEW r \in Request, Respond(r) \/ Dropped(r)
    PROVE  StepSound(r) /\ files' = files
  <1> USE DEF Phase, BodyPhases, CopyPhases, SwapPhases
  <1>0. WriteTyped /\ PhaseSound(r) /\ HiddenSound(r) /\ Writes(r) \in Nat \ {0}
    BY Parts, Places
  <1>1. OwnStep(r) /\ files' = files
    BY <1>0 DEF WriteTyped, OwnStep, Goto, Answer, Still, Reply, Attempt, Respond, Dropped
  <1>2. FilesChange(r)
    BY <1>1 DEF FilesChange
  <1>3. WriteTyped'
    BY <1>0, <1>1 DEF WriteTyped, Goto, Answer, Still, Reply, Respond, Dropped
  <1>4. PhaseSound(r)'
    BY <1>0, <1>1 DEF PhaseSound, Put, InPlace, SameEntry, WriteTyped, Goto, Answer, Still, Reply, Respond, Dropped
  <1>5. HiddenSound(r)'
    BY <1>0, <1>1 DEF HiddenSound, PhaseSound, Put, May, Writes, WriteTyped, Goto, Answer, Still, Reply, Respond, Dropped
  <1>6. Progress(r)
    BY <1>0, <1>1 DEF Progress, Arrived, Dirty, PhaseSound, Put, InPlace, WriteTyped, Goto, Answer, Still, Reply, Respond, Dropped
  <1> QED
    BY <1>1, <1>2, <1>3, <1>4, <1>5, <1>6 DEF StepSound

LEMMA ArriveSound == ASSUME WriteInv, NEW r \in Request, Arrive(r) PROVE StepSound(r) /\ files' = files
  <1> USE DEF Phase
  <1>0. WriteTyped /\ PhaseSound(r) /\ HiddenSound(r)
    BY Parts
  <1>1. PICK q \in Asks : ask' = [ask EXCEPT ![r] = q]
    BY DEF Arrive
  <1>2. q \in Ask /\ at[r] = "idle" /\ at' = [at EXCEPT ![r] = "look"] /\ UNCHANGED <<server, files, seen, count, code>>
    BY <1>1, DavAssumption DEF DavAssumption, Arrive, Goto
  <1>3. WriteTyped'
    BY <1>0, <1>1, <1>2 DEF WriteTyped
  <1>4. at'[r] = "look"
    BY <1>0, <1>2 DEF WriteTyped
  <1>5. FilesChange(r) /\ PhaseSound(r)' /\ HiddenSound(r)' /\ Progress(r)
    BY <1>0, <1>2, <1>4 DEF FilesChange, PhaseSound, HiddenSound, Progress, Arrived, Dirty, Put, BodyPhases,
       CopyPhases, SwapPhases
  <1> QED
    BY <1>2, <1>3, <1>5, ArriveMoves DEF StepSound

LEMMA RepliesSound ==
    ASSUME WriteInv, NEW r \in Request, ~ Put(r),
           \/ Reply(r, "copied", "ok") \/ Reply(r, "notCopied", "failed") \/ Reply(r, "giveUp", "failed")
    PROVE  StepSound(r)
  <1> USE DEF Phase, BodyPhases, CopyPhases, SwapPhases
  <1>0. WriteTyped /\ PhaseSound(r) /\ HiddenSound(r)
    BY Parts
  <1>1. /\ OwnStep(r) /\ files' = files /\ at'[r] = "done" /\ UNCHANGED <<server, ask, seen, count>>
        /\ at[r] \in {"copied", "notCopied", "giveUp"}
        /\ at' = [at EXCEPT ![r] = "done"] /\ \E c \in {"ok", "failed"} : code' = [code EXCEPT ![r] = c]
        /\ at[r] # "copied" => code'[r] = "failed"
    BY <1>0 DEF WriteTyped, Reply, Answer, Goto, Still, OwnStep
  <1>2. WriteTyped'
    BY <1>0, <1>1 DEF WriteTyped
  <1>3. FilesChange(r) /\ PhaseSound(r)' /\ HiddenSound(r)' /\ Progress(r)
    BY <1>0, <1>1 DEF FilesChange, PhaseSound, HiddenSound, Progress, Arrived, Dirty, Put, InPlace
  <1> QED
    BY <1>1, <1>2, <1>3 DEF StepSound

(* ----------------------------- every step ------------------------------- *)
LEMMA StepsSound == ASSUME WriteInv, NEW r \in Request, DavStep(r) PROVE StepSound(r)
  <1>1. CASE Undo(r)
    <2>1. Put(r)
      BY <1>1, Parts DEF Undo, Attempt, PhaseSound, BodyPhases
    <2> QED
      BY <1>1, <2>1, RemovalsSound DEF Undo
  <1>2. CASE AfterCopy(r)
    BY <1>2, RemovalsSound, RepliesSound DEF AfterCopy
  <1>3. CASE GiveUp(r)
    BY <1>3, RemovalsSound, RepliesSound DEF GiveUp
  <1> QED
    BY <1>1, <1>2, <1>3, ArriveSound, LooksSound, BodiesSound, ChecksSound, AnswersSound, PlainCallsSound,
       DropOldSound, RenamesSound, StoreSound, PutPieceSound, CopyFolderSound, CopyPieceSound DEF DavStep

(* Which steps end a copy, and which find it begun.                        *)
LEMMA CopySteps ==
    ASSUME WriteInv, NEW r \in Request, DavStep(r)
    PROVE  /\ at[r] = "transfer" /\ at'[r] = "copied" => CopyPiece(r) \/ CopyFolder(r)
           /\ at'[r] \in {"transfer", "unmake"} /\ count'[r] > 0 => CopyPiece(r) \/ CopySourceGone(r)
  <1> DEFINE Ended   == at[r] = "transfer" /\ at'[r] = "copied"
             Begun == at'[r] \in {"transfer", "unmake"} /\ count'[r] > 0
  <1>0. WriteTyped /\ PhaseSound(r) /\ StepSound(r)
    BY Parts, StepsSound
  <1>1. ASSUME NEW phase, NEW call, NEW good, NEW bad, Attempt(r, phase, call, good, bad),
               phase # "transfer" \/ (good # "copied" /\ bad # "copied"),
               phase = "clear" \/ (good \notin {"transfer", "unmake"} /\ bad \notin {"transfer", "unmake"})
        PROVE  ~ Ended /\ ~ Begun
    <2>1. at[r] = phase /\ at'[r] \in {good, bad} /\ count' = count
      BY <1>0, <1>1 DEF Attempt, Goto, WriteTyped
    <2>2. phase = "clear" => count[r] = 0
      BY <1>0, <2>1 DEF PhaseSound
    <2> QED
      BY <1>1, <2>1, <2>2
  <1>2. ASSUME NEW phase \in Phase \ {"transfer"}, NEW c, Reply(r, phase, c)
        PROVE  ~ Ended /\ ~ Begun
    BY <1>0, <1>2 DEF Reply, Answer, Goto, WriteTyped
  <1>3. CASE Delete(r) \/ Mkdir(r) \/ Undo(r) \/ Store(r) \/ Unmake(r)
    BY <1>1, <1>3 DEF Delete, Mkdir, Undo, Store, Unmake
  <1>4. CASE AfterCopy(r) \/ Rename(r) \/ Clear(r)
    BY <1>1, <1>2, <1>4 DEF AfterCopy, Rename, Clear, Phase, CopyPhases
  <1>5. CASE Replace(r) \/ SetAside(r) \/ RenameAgain(r) \/ DropOld(r) \/ Restore(r)
    BY <1>1, <1>5 DEF Replace, SetAside, RenameAgain, DropOld, Restore
  <1>6. CASE GiveUp(r) \/ Respond(r)
    BY <1>1, <1>2, <1>6 DEF GiveUp, Respond, Phase, SwapPhases, BodyPhases
  <1>7. CASE Arrive(r) \/ Dropped(r)
    BY <1>0, <1>7 DEF Arrive, Dropped, Goto, WriteTyped
  <1>8. CASE LookPut(r) \/ LookMoveCopy(r) \/ LookDelete(r) \/ LookMkcol(r)
    <2>1. at[r] = "look" /\ count' = count
      BY <1>8 DEF LookPut, LookMoveCopy, LookDelete, LookMkcol, Still
    <2> QED
      BY <1>0, <2>1 DEF PhaseSound
  <1>9. CASE PutPiece(r) \/ KeepInMemory(r) \/ BodyFails(r) \/ BodyArrives(r)
    <2>1. at[r] \in {"body", "memory"}
      BY <1>9 DEF PutPiece, KeepInMemory, BodyFails, BodyArrives, Reply
    <2>2. at'[r] \in {"body", "undo", "memory", "undoBody", "done", "store", "how"}
      BY <1>0, <1>9 DEF PutPiece, KeepInMemory, BodyFails, BodyArrives, Reply, Answer, Goto, WriteTyped
    <2> QED
      BY <2>1, <2>2
  <1>10. CASE ChooseHow(r) \/ CheckExists(r)
    <2>1. CASE ChooseHow(r)
      <3>1. at[r] = "how" /\ count' = [count EXCEPT ![r] = 0]
        BY <2>1 DEF ChooseHow
      <3>2. count'[r] = 0
        BY <1>0, <3>1 DEF WriteTyped
      <3> QED
        BY <3>1, <3>2
    <2>2. CASE CheckExists(r)
      <3>1. at[r] = "exists" /\ \E phase \in {"aside", "giveUp"} : at' = [at EXCEPT ![r] = phase]
        BY <2>2 DEF CheckExists, Goto
      <3>2. at'[r] \in {"aside", "giveUp"}
        BY <1>0, <3>1 DEF WriteTyped
      <3> QED
        BY <3>1, <3>2
    <2> QED
      BY <1>10, <2>1, <2>2
  <1>11. CASE CopyFolder(r)
    <2>1. at'[r] \in {"copied", "notCopied"}
      BY <1>0, <1>11 DEF CopyFolder, Attempt, Goto, WriteTyped
    <2> QED
      BY <1>11, <2>1
  <1>12. CASE CopySourceGone(r)
    BY <1>0, <1>12 DEF CopySourceGone, Goto, WriteTyped
  <1> QED
    BY <1>3, <1>4, <1>5, <1>6, <1>7, <1>8, <1>9, <1>10, <1>11, <1>12 DEF DavStep

(* The names of a request, and its meetings, stay.                         *)
LEMMA NamesStay ==
    ASSUME NEW r \in Request, OwnStep(r), NEW s \in Request, s # r \/ at[s] # "idle"
    PROVE  /\ ask'[s] = ask[s] /\ Goal(s)' = Goal(s) /\ Source(s)' = Source(s) /\ NamesOf(s)' = NamesOf(s)
           /\ (InPlace(s)' <=> InPlace(s)) /\ (Put(s)' <=> Put(s))
           /\ at[s] # "idle" => at'[s] # "idle"
  <1>1. ask'[s] = ask[s] /\ server' = server /\ (at[s] # "idle" => at'[s] # "idle")
    BY DEF OwnStep
  <1>2. \A p : Slot(p)' = Slot(p)
    BY <1>1 DEF Slot
  <1> QED
    BY <1>1, <1>2 DEF Goal, Target, Source, NamesOf, InPlace, Put, Slot

LEMMA MeetingsStay ==
    ASSUME NEW q \in Request, OwnStep(q), NEW r \in Request, NEW s \in Request, q # r \/ at[r] # "idle"
    PROVE  (Meet(r, s) => Meet(r, s)') /\ (Conflict(r, s) => Conflict(r, s)')
  <1>1. CASE at[s] = "idle"
    BY <1>1 DEF Meet, Conflict
  <1>2. CASE at[s] # "idle"
    BY <1>2, NamesStay DEF Meet, Conflict
  <1> QED
    BY <1>1, <1>2

LEMMA MetStays == ASSUME NEW q \in Request, OwnStep(q), Met PROVE Met'
  <1>1. PICK r \in Request, s \in Request : InPlace(r) /\ at[r] # "idle" /\ Meet(r, s)
    BY DEF Met, Meets
  <1>2. InPlace(r)' /\ at'[r] # "idle" /\ Meet(r, s)'
    BY <1>1, NamesStay, MeetingsStay
  <1> QED
    BY <1>2 DEF Met, Meets

(* ----------------------- what stays where it was ------------------------ *)
LEMMA Elsewhere ==
    ASSUME WriteInv, NEW r \in Request, FilesChange(r),
           NEW n \in Name, n \notin NamesOf(r), n # Temp(r), n # Backup(r)
    PROVE  files'[n] = files[n]
  <1>1. /\ n # Goal(r) /\ n # Source(r) /\ files \in [Name -> Content]
        /\ {Goal(r), Source(r), Temp(r), Backup(r)} \subseteq Name
    BY Parts, Places, Names DEF NamesOf, WriteTyped
  <1>2. \A a, b \in {Goal(r), Source(r), Temp(r), Backup(r)} : Moves(a, b) => files'[n] = files[n]
    BY <1>1 DEF Moves, MovedFiles
  <1>3. \A a \in {Goal(r), Temp(r), Backup(r)} : \A c : Set(a, c) => files'[n] = files[n]
    BY <1>1 DEF Set
  <1>4. \/ files' = files
        \/ \E a, b \in {Goal(r), Source(r), Temp(r), Backup(r)} : Moves(a, b)
        \/ \E a \in {Goal(r), Temp(r), Backup(r)} : \E c : Set(a, c)
    BY DEF FilesChange
  <1> QED
    BY <1>2, <1>3, <1>4

(* A step of one request leaves the hidden names of the others alone.      *)
LEMMA OthersHidden ==
    ASSUME WriteInv, NEW r \in Request, StepSound(r), NEW s \in Request \ {r}
    PROVE  PhaseSound(s)' /\ HiddenSound(s)' /\ files'[Backup(s)] = files[Backup(s)]
  <1>1. PhaseSound(s) /\ HiddenSound(s) /\ OwnStep(r) /\ FilesChange(r) /\ WriteTyped
    BY Parts DEF StepSound
  <1>2. /\ server' = server /\ at'[s] = at[s] /\ ask'[s] = ask[s] /\ count'[s] = count[s] /\ code'[s] = code[s]
    BY <1>1 DEF OwnStep
  <1>3. /\ Temp(s) \in Name \ NamesOf(r) /\ Backup(s) \in Name \ NamesOf(r)
        /\ Temp(s) \notin {Temp(r), Backup(r)} /\ Backup(s) \notin {Temp(r), Backup(r)}
    BY <1>1, Names, Places
  <1>4. files'[Temp(s)] = files[Temp(s)] /\ files'[Backup(s)] = files[Backup(s)]
    BY <1>1, <1>3, Elsewhere
  <1>5. PhaseSound(s)'
    BY <1>1, <1>2 DEF PhaseSound, Put, InPlace, SameEntry
  <1>6. HiddenSound(s)'
    BY <1>1, <1>2, <1>4 DEF HiddenSound, Put, May, Writes
  <1> QED
    BY <1>4, <1>5, <1>6

(* --------------------- data come from where they were ------------------- *)
Of(x) == {Whole(x), Part(x)}
LEMMA DataMove ==
    ASSUME WriteInv, NEW r \in Request, FilesChange(r), NEW x \in Path \cup Request,
           NEW n \in Name, files'[n] \in Of(x), x = r => n # Temp(r) /\ ~ Arrived(r)
    PROVE  \E m \in Name : files[m] \in Of(x) /\ (m = n \/ m \in Path \/ (m = Temp(r) /\ x # r) \/ m = Backup(r))
  <1>0. WriteTyped /\ PhaseSound(r)
    BY Parts
  <1>1. /\ files \in [Name -> Content] /\ Goal(r) \in Path /\ Goal(r) \in Name
        /\ Temp(r) \in Name /\ Backup(r) \in Name
        /\ Put(r) => Source(r) = Temp(r)
        /\ ~ Put(r) => Source(r) \in Path
        /\ Source(r) \in Name /\ Path \subseteq Name
    BY <1>0, Places, Names DEF WriteTyped
  <1>2. Absent \notin Of(x) /\ Folder \notin Of(x) /\ (x # r => Whole(r) \notin Of(x) /\ Part(r) \notin Of(x))
    BY Contents DEF Of
  <1>3. /\ at[r] = "store" => Arrived(r)
        /\ Put(r) /\ at[r] \in {"transfer", "replace", "again"} => Arrived(r)
    BY <1>0 DEF PhaseSound, Arrived, BodyPhases, SwapPhases
  <1>4. ASSUME NEW a \in Name, NEW b \in Name, Moves(a, b)
        PROVE  files[n] \in Of(x) \/ (n = b /\ files[a] \in Of(x))
    BY <1>1, <1>2, <1>4 DEF Moves, MovedFiles
  <1>5. ASSUME NEW a \in Name, NEW c, Set(a, c)
        PROVE  files[n] \in Of(x) \/ (n = a /\ c \in Of(x))
    BY <1>1, <1>5 DEF Set
  <1>6. CASE files' = files
    BY <1>6
  <1>7. CASE \E a \in Name, c \in {Absent, Folder} : Set(a, c)
    BY <1>2, <1>5, <1>7
  <1>8. CASE \E c \in {Whole(r), Part(r)} : Set(Temp(r), c) \/ (at[r] = "store" /\ Set(Goal(r), c))
    BY <1>1, <1>2, <1>3, <1>5, <1>8
  <1>9. CASE at[r] = "transfer" /\ IsFile(files[Source(r)])
             /\ \E c \in {files[Source(r)], Part(files[Source(r)][2])} : Set(Goal(r), c)
    <2>1. PICK y \in Path \cup Request : files[Source(r)] \in Of(y)
      BY <1>1, <1>9, Contents DEF IsFile, Of
    <2>2. files[Source(r)][2] = y
      BY <2>1, Contents DEF Of
    <2>3. CASE y = x
      BY <1>1, <1>3, <1>9, <2>1, <2>3
    <2>4. CASE y # x
      <3>1. files[Source(r)] \notin Of(x) /\ Part(y) \notin Of(x)
        BY <2>1, <2>4, Contents DEF Of
      <3> QED
        BY <1>1, <1>5, <1>9, <2>2, <3>1
    <2> QED
      BY <2>3, <2>4
  <1>10. CASE at[r] \in {"transfer", "replace", "again"} /\ Moves(Source(r), Goal(r))
    BY <1>1, <1>3, <1>4, <1>10
  <1>11. CASE Moves(Goal(r), Backup(r)) \/ Moves(Backup(r), Goal(r))
    BY <1>1, <1>4, <1>11
  <1> QED
    BY <1>1, <1>6, <1>7, <1>8, <1>9, <1>10, <1>11 DEF FilesChange

LEMMA ContainedStays ==
    ASSUME WriteInv, NEW r \in Request, StepSound(r), NEW s \in Request
    PROVE  Contained(s)'
  <1> SUFFICES ASSUME ~ Arrived(s)', NEW n \in Name \ {Temp(s)}, files'[n] \in Of(s)
               PROVE  FALSE
    BY DEF Contained, Of
  <1>1. ~ Arrived(s)
    <2>1. CASE s = r
      BY <2>1 DEF StepSound, Progress
    <2>2. CASE s # r
      BY <2>2 DEF StepSound, OwnStep, Arrived, Put
    <2> QED
      BY <2>1, <2>2
  <1>2. PICK m \in Name : files[m] \in Of(s) /\ (m = n \/ m \in Path \/ (m = Temp(r) /\ s # r) \/ m = Backup(r))
    BY <1>1, DataMove DEF StepSound
  <1>3. m # Temp(s)
    BY <1>2, Names
  <1> QED
    BY <1>1, <1>2, <1>3, Parts DEF Contained, Of

(* ------------------------- the parts of a copy -------------------------- *)
(* A part under the name of a source that nobody else uses is none.        *)
LEMMA SourceIsWhole ==
    ASSUME WriteInv, NEW r \in Request, InPlace(r), at[r] = "transfer", ~ Met
    PROVE  ~ IsPart(files[Source(r)]) /\ ~ Meets(r)
  <1>1. ~ Meets(r)
    BY DEF Met
  <1>2. CASE Put(r)
    <2>1. files[Source(r)] = Whole(r)
      BY <1>2, Parts, Places DEF HiddenSound
    <2> QED
      BY <1>1, <2>1, Contents DEF IsPart
  <1>3. CASE ~ Put(r)
    <2>1. ask[r].op = "COPY" /\ ~ SameEntry(r)
      BY <1>3, Parts DEF InPlace, PhaseSound
    <2>2. Source(r) # Goal(r) /\ Source(r) \in Path /\ Source(r) \in NamesOf(r)
      BY <1>3, <2>1, Parts, Places DEF NamesOf
    <2>3. ASSUME IsPart(files[Source(r)]) PROVE FALSE
      <3>1. PICK w \in Request : InPlace(w) /\ Dirty(w) /\ Goal(w) = Source(r)
        BY <2>2, <2>3 DEF WriteInv, PartsSound
      <3>2. w # r /\ at[w] # "idle" /\ Source(r) \in NamesOf(w)
        BY <2>2, <3>1 DEF Dirty, NamesOf
      <3> QED
        BY <1>1, <2>2, <3>2 DEF Meets, Meet
    <2> QED
      BY <1>1, <2>3
  <1> QED
    BY <1>2, <1>3

LEMMA CopiedWhole ==
    ASSUME WriteInv, NEW r \in Request, DavStep(r), InPlace(r), at[r] = "transfer", at'[r] = "copied", ~ Met
    PROVE  ~ IsPart(files'[Goal(r)])
  <1>0. /\ WriteTyped /\ Goal(r) \in Name /\ files \in [Name -> Content]
        /\ count[r] \in Nat /\ (CopyPiece(r) \/ CopyFolder(r))
    BY Parts, Places, Names, CopySteps DEF WriteTyped
  <1>1. CASE CopyFolder(r)
    <2> DEFINE made == CreateDirCall(Goal(r))
               call == {o \in made : o.ok => files[Source(r)] = Folder}
                       \cup {[o EXCEPT !.ok = FALSE] :
                             o \in IF May("list") \/ files[Source(r)] # Folder THEN made ELSE {}}
    <2>1. PICK o \in call : files' = o.files /\ at' = [at EXCEPT ![r] = IF o.ok THEN "copied" ELSE "notCopied"]
      BY <1>1 DEF CopyFolder, Attempt, Goto
    <2>2. o.ok
      BY <1>0, <2>1 DEF WriteTyped
    <2>3. \A p \in made : DOMAIN p = {"ok", "files"}
      BY DEF CreateDirCall, Refused, Failing, Result
    <2>4. \A p \in made : ~ [p EXCEPT !.ok = FALSE].ok
      BY <2>3
    <2> HIDE DEF made
    <2>5. o \in made
      BY <2>1, <2>2, <2>4
    <2>6. o.files = [files EXCEPT ![Goal(r)] = Folder]
      BY <2>2, <2>5, CreateDirResult DEF made
    <2>7. files'[Goal(r)] = Folder
      BY <1>0, <2>1, <2>6
    <2> QED
      BY <2>7, Contents DEF IsPart
  <1>2. CASE CopyPiece(r)
    <2>1. IsFile(files[Source(r)]) /\ ~ IsPart(files[Source(r)])
      BY <1>2, SourceIsWhole DEF CopyPiece
    <2>2. ~ (count[r] > 0 /\ files[Goal(r)] # Part(files[Source(r)][2]))
      BY SourceIsWhole, Parts DEF Copies
    <2>3. Set(Goal(r), files[Source(r)])
      BY <1>2, <2>2, CopyPieceMoves
    <2>4. files'[Goal(r)] = files[Source(r)]
      BY <1>0, <2>3 DEF Set
    <2> QED
      BY <2>1, <2>4
  <1> QED
    BY <1>0, <1>1, <1>2

LEMMA OtherCopiesStay ==
    ASSUME WriteInv, NEW r \in Request, StepSound(r), NEW s \in Request \ {r}
    PROVE  Copies(s)'
  <1> SUFFICES ASSUME InPlace(s)', count'[s] > 0, at'[s] \in {"transfer", "unmake"}
               PROVE  /\ (\A u \in Request : ~ Conflict(s, u)') => \E x \in Path \cup Request : files'[Goal(s)'] = Part(x)
                      /\ at'[s] = "transfer" /\ ~ Meets(s)'
                            => IsFile(files'[Source(s)']) /\ files'[Goal(s)'] = Part(files'[Source(s)'][2])
    BY DEF Copies
  <1>1. /\ OwnStep(r) /\ FilesChange(r) /\ WriteTyped
        /\ at'[s] = at[s] /\ count'[s] = count[s] /\ at[s] # "idle" /\ files \in [Name -> Content]
    BY Parts DEF StepSound, OwnStep, WriteTyped
  <1>2. Goal(s)' = Goal(s) /\ Source(s)' = Source(s) /\ InPlace(s)
    BY <1>1, NamesStay
  <1>3. /\ Goal(s) \in Path /\ Goal(s) \in NamesOf(s)
        /\ Source(s) = Temp(s) \/ (Source(s) \in NamesOf(s) /\ Source(s) \in Path)
    BY <1>1, Places DEF NamesOf
  <1>4. at[r] = "idle" => files' = files
    BY <1>1 DEF OwnStep
  <1>5. ~ Conflict(s, r) => files'[Goal(s)] = files[Goal(s)]
    <2>1. ~ Conflict(s, r) /\ at[r] # "idle" => Goal(s) \notin NamesOf(r)
      BY DEF Conflict
    <2> QED
      BY <1>1, <1>3, <1>4, <2>1, Elsewhere, Names
  <1>6. ~ Meet(s, r) => files'[Goal(s)] = files[Goal(s)] /\ files'[Source(s)] = files[Source(s)]
    <2>1. NamesOf(r) \subseteq Path
      BY <1>1, Places
    <2>2. ~ Meet(s, r) /\ at[r] # "idle" => Goal(s) \notin NamesOf(r) /\ Source(s) \notin NamesOf(r)
      BY <1>3, <2>1, Names DEF Meet
    <2>3. Source(s) \in Name /\ Source(s) # Temp(r) /\ Source(s) # Backup(r)
      BY <1>3, Names
    <2> QED
      BY <1>1, <1>3, <1>4, <2>2, <2>3, Elsewhere, Names
  <1>7. \A u \in Request : (Conflict(s, u) => Conflict(s, u)') /\ (Meet(s, u) => Meet(s, u)')
    BY <1>1, MeetingsStay
  <1>8. ASSUME \A u \in Request : ~ Conflict(s, u)'
        PROVE  \E x \in Path \cup Request : files'[Goal(s)'] = Part(x)
    <2>1. \E x \in Path \cup Request : files[Goal(s)] = Part(x)
      BY <1>1, <1>2, <1>7, <1>8, Parts DEF Copies
    <2> QED
      BY <1>2, <1>5, <1>7, <1>8, <2>1
  <1>9. ASSUME at'[s] = "transfer", ~ Meets(s)'
        PROVE  IsFile(files'[Source(s)']) /\ files'[Goal(s)'] = Part(files'[Source(s)'][2])
    <2>1. ~ Meets(s)
      BY <1>7, <1>9 DEF Meets
    <2>2. IsFile(files[Source(s)]) /\ files[Goal(s)] = Part(files[Source(s)][2])
      BY <1>1, <1>2, <1>9, <2>1, Parts DEF Copies
    <2> QED
      BY <1>2, <1>6, <2>1, <2>2 DEF Meets
  <1> QED
    BY <1>8, <1>9

LEMMA OwnCopyStays == ASSUME WriteInv, NEW r \in Request, DavStep(r) PROVE Copies(r)'
  <1> SUFFICES ASSUME InPlace(r)', count'[r] > 0, at'[r] \in {"transfer", "unmake"}
               PROVE  /\ (\A u \in Request : ~ Conflict(r, u)') => \E x \in Path \cup Request : files'[Goal(r)'] = Part(x)
                      /\ at'[r] = "transfer" /\ ~ Meets(r)'
                            => IsFile(files'[Source(r)']) /\ files'[Goal(r)'] = Part(files'[Source(r)'][2])
    BY DEF Copies
  <1>1. /\ OwnStep(r) /\ WriteTyped /\ PhaseSound(r) /\ at[r] = "transfer" /\ files \in [Name -> Content]
        /\ (CopyPiece(r) \/ CopySourceGone(r))
    <2>1. CopyPiece(r) \/ CopySourceGone(r)
      BY CopySteps
    <2>2. at[r] = "transfer"
      BY <2>1 DEF CopyPiece, CopySourceGone, Copying
    <2> QED
      BY <2>1, <2>2, Parts, StepsSound DEF StepSound, WriteTyped
  <1>2. /\ Goal(r)' = Goal(r) /\ Source(r)' = Source(r) /\ InPlace(r)
        /\ \A u \in Request : Conflict(r, u) => Conflict(r, u)'
    BY <1>1, NamesStay, MeetingsStay
  <1>3. Goal(r) \in Name /\ Source(r) \in Name /\ Source(r) # Goal(r)
    BY <1>1, <1>2, Places, Names DEF PhaseSound, InPlace
  <1>4. CASE at'[r] = "unmake"
    <2>1. files' = files /\ count'[r] = count[r]
      BY <1>1, <1>4, CopyPieceMoves, ChecksSound DEF CopySourceGone, Still
    <2> QED
      BY <1>1, <1>2, <1>4, <2>1, Parts DEF Copies
  <1>5. CASE at'[r] = "transfer"
    <2>1. CopyPiece(r)
      BY <1>1, <1>5 DEF CopySourceGone, Goto, WriteTyped
    <2>2. IsFile(files[Source(r)]) /\ Set(Goal(r), Part(files[Source(r)][2]))
      BY <1>5, <2>1, CopyPieceMoves
    <2>3. files'[Source(r)] = files[Source(r)] /\ files'[Goal(r)] = Part(files[Source(r)][2])
      BY <1>1, <1>3, <2>2 DEF Set
    <2>4. PICK x \in Path \cup Request : files[Source(r)] \in {Whole(x), Part(x)}
      BY <1>1, <1>3, <2>2, Contents DEF IsFile
    <2>5. files[Source(r)][2] = x
      BY <2>4, Contents
    <2> QED
      BY <1>2, <2>2, <2>3, <2>5
  <1> QED
    BY <1>4, <1>5

(* --------------------------- parts of files ----------------------------- *)
LEMMA MeetsTheDirty ==
    ASSUME NEW r \in Request, at[r] # "idle", NEW w \in Request \ {r}, InPlace(w), Dirty(w),
           Goal(w) \in NamesOf(r)
    PROVE  Met
  <1>1. Meet(w, r) /\ at[w] # "idle"
    BY DEF Meet, NamesOf, Dirty
  <1> QED
    BY <1>1 DEF Met, Meets

(* Moves of what r has or finds never bring a part, unless requests met.   *)
LEMMA MovedIsWhole ==
    ASSUME WriteInv, NEW r \in Request, ~ Met
    PROVE  /\ at[r] \in {"replace", "again"} \/ (at[r] = "transfer" /\ ask[r].op = "MOVE") => ~ IsPart(files[Source(r)])
           /\ at[r] = "aside" => ~ IsPart(files[Goal(r)])
           /\ ~ IsPart(files[Backup(r)])
  <1>1. /\ WriteTyped /\ PhaseSound(r) /\ HiddenSound(r) /\ Goal(r) \in Path /\ Goal(r) \in NamesOf(r)
        /\ Put(r) => Source(r) = Temp(r)
        /\ ~ Put(r) => Source(r) \in Path /\ Source(r) \in NamesOf(r)
    BY Parts, Places DEF NamesOf
  <1>2. ASSUME NEW p \in Path, IsPart(files[p]), p \in NamesOf(r), at[r] # "idle", ~ (InPlace(r) /\ Dirty(r))
        PROVE  FALSE
    <2>1. PICK w \in Request : InPlace(w) /\ Dirty(w) /\ Goal(w) = p
      BY <1>2 DEF WriteInv, PartsSound
    <2> QED
      BY <1>2, <2>1, MeetsTheDirty
  <1>3. ASSUME at[r] \in {"replace", "again"} \/ (at[r] = "transfer" /\ ask[r].op = "MOVE")
        PROVE  ~ IsPart(files[Source(r)])
    <2>1. CASE Put(r)
      <3>1. at[r] \in SwapPhases
        BY <1>3, <2>1 DEF SwapPhases, Put
      <3>2. files[Source(r)] \in {Absent, Whole(r)}
        BY <1>1, <2>1, <3>1 DEF HiddenSound
      <3> QED
        BY <3>2, Contents DEF IsPart
    <2>2. CASE ~ Put(r)
      <3>1. ask[r].op = "MOVE"
        BY <1>1, <1>3, <2>2 DEF PhaseSound, SwapPhases
      <3>2. ~ InPlace(r)
        BY <2>2, <3>1 DEF InPlace
      <3> QED
        BY <1>1, <1>2, <1>3, <2>2, <3>2
    <2> QED
      BY <2>1, <2>2
  <1>4. at[r] = "aside" => ~ IsPart(files[Goal(r)])
    BY <1>1, <1>2 DEF Dirty
  <1>5. ~ IsPart(files[Backup(r)])
    BY DEF WriteInv, PartsSound
  <1> QED
    BY <1>3, <1>4, <1>5

LEMMA PartsStay == ASSUME WriteInv, NEW r \in Request, DavStep(r) PROVE PartsSound'
  <1>0. /\ WriteTyped /\ PhaseSound(r) /\ StepSound(r) /\ OwnStep(r) /\ FilesChange(r) /\ Progress(r)
        /\ files \in [Name -> Content]
    BY Parts, StepsSound DEF StepSound, WriteTyped
  <1>1. CASE Met'
    BY <1>1 DEF PartsSound
  <1>2. CASE ~ Met'
    <2>1. ~ Met
      BY <1>0, <1>2, MetStays
    <2>2. /\ Goal(r) \in Path /\ Goal(r) \in Name /\ Source(r) \in Name /\ Temp(r) \in Name \ Path
          /\ Backup(r) \in Name \ Path /\ Path \subseteq Name /\ Temp(r) # Backup(r)
      BY <1>0, Places, Names
    <2>3. ~ IsPart(Absent) /\ ~ IsPart(Folder) /\ ~ IsPart(Whole(r))
      BY Contents DEF IsPart
    <2>4. ASSUME InPlace(r), Dirty(r), IsPart(files'[Goal(r)])
          PROVE  InPlace(r)' /\ Dirty(r)' /\ Goal(r)' = Goal(r)
      <3>1. at[r] # "idle"
        BY <2>4 DEF Dirty
      <3>2. ~ (at[r] = "transfer" /\ at'[r] = "copied")
        BY <2>1, <2>4, CopiedWhole
      <3> QED
        BY <1>0, <2>4, <3>1, <3>2, NamesStay DEF Progress
    <2>5. ASSUME NEW p \in Path, IsPart(files'[p])
          PROVE  \E w \in Request : InPlace(w)' /\ Dirty(w)' /\ Goal(w)' = p
      <3>1. CASE files'[p] = files[p]
        <4>1. PICK w \in Request : InPlace(w) /\ Dirty(w) /\ Goal(w) = p
          BY <2>1, <2>5, <3>1 DEF WriteInv, PartsSound
        <4>2. CASE w = r
          BY <2>4, <2>5, <4>1, <4>2
        <4>3. CASE w # r
          BY <1>0, <4>1, <4>3, NamesStay DEF OwnStep, Dirty
        <4> QED
          BY <4>2, <4>3
      <3>2. CASE files'[p] # files[p]
        <4>1. CASE at[r] \in {"delete", "clear", "unmake"} /\ Set(Goal(r), Absent)
          BY <1>0, <2>2, <2>3, <2>5, <3>2, <4>1 DEF Set
        <4>2. CASE at[r] = "store" /\ \E c \in {Whole(r), Part(r)} : Set(Goal(r), c) /\ (c = Part(r) => at'[r] = "failed")
          <5>1. p = Goal(r) /\ at'[r] = "failed"
            BY <1>0, <2>2, <2>3, <2>5, <3>2, <4>2 DEF Set
          <5>2. InPlace(r)
            BY <1>0, <4>2 DEF PhaseSound, BodyPhases, InPlace
          <5> QED
            BY <1>0, <4>2, <5>1, <5>2, NamesStay DEF Dirty
        <4>3. CASE at[r] = "transfer" /\ InPlace(r) /\ \E c : Set(Goal(r), c)
          <5>1. p = Goal(r) /\ Dirty(r)
            BY <1>0, <2>2, <3>2, <4>3 DEF Set, Dirty
          <5> QED
            BY <2>4, <2>5, <4>3, <5>1
        <4>4. CASE at[r] \in {"mkdir", "transfer"} /\ Set(Goal(r), Folder)
          BY <1>0, <2>2, <2>3, <2>5, <3>2, <4>4 DEF Set
        <4>5. CASE /\ at[r] \in {"replace", "again"} \/ (at[r] = "transfer" /\ ask[r].op = "MOVE")
                   /\ Moves(Source(r), Goal(r))
          BY <1>0, <2>1, <2>2, <2>3, <2>5, <3>2, <4>5, MovedIsWhole DEF Moves, MovedFiles
        <4>6. CASE at[r] = "aside" /\ Moves(Goal(r), Backup(r))
          BY <1>0, <2>2, <2>3, <2>5, <3>2, <4>6 DEF Moves, MovedFiles
        <4>7. CASE at[r] = "restore" /\ Moves(Backup(r), Goal(r))
          BY <1>0, <2>1, <2>2, <2>3, <2>5, <3>2, <4>7, MovedIsWhole DEF Moves, MovedFiles
        <4>8. CASE \E a \in {Temp(r), Backup(r)} : \E c : Set(a, c)
          BY <1>0, <2>2, <3>2, <4>8 DEF Set
        <4> QED
          BY <1>0, <3>2, <4>1, <4>2, <4>3, <4>4, <4>5, <4>6, <4>7, <4>8 DEF FilesChange
      <3> QED
        BY <3>1, <3>2
    <2>6. ASSUME NEW s \in Request PROVE ~ IsPart(files'[Backup(s)])
      <3>1. ~ IsPart(files[Backup(s)])
        BY <2>1, MovedIsWhole
      <3>2. CASE s # r
        BY <1>0, <3>1, <3>2, OthersHidden
      <3>3. CASE s = r
        <4>1. \/ files'[Backup(r)] \in {files[Backup(r)], Absent}
              \/ at[r] = "aside" /\ files'[Backup(r)] = files[Goal(r)]
          <5>1. CASE at[r] = "aside" /\ Moves(Goal(r), Backup(r))
            BY <1>0, <2>2, <5>1 DEF Moves, MovedFiles
          <5>2. CASE Set(Backup(r), Absent) \/ Moves(Backup(r), Goal(r))
            BY <1>0, <2>2, <5>2 DEF Moves, MovedFiles, Set
          <5>3. CASE \/ files' = files \/ \E a \in {Temp(r), Goal(r)} : \E c : Set(a, c)
            BY <1>0, <2>2, <5>3 DEF Set
          <5>4. CASE Moves(Source(r), Goal(r))
            <6>1. Source(r) # Backup(r)
              BY <1>0, <2>2, Places
            <6> QED
              BY <1>0, <2>2, <5>4, <6>1 DEF Moves, MovedFiles
          <5> QED
            BY <1>0, <5>1, <5>2, <5>3, <5>4 DEF FilesChange
        <4> QED
          BY <2>1, <2>3, <3>1, <3>3, <4>1, MovedIsWhole
      <3> QED
        BY <3>2, <3>3
    <2> QED
      BY <2>5, <2>6 DEF PartsSound
  <1> QED
    BY <1>1, <1>2

(* --------------------------- the swapping steps ------------------------- *)
LEMMA SwapSteps ==
    ASSUME WriteInv, NEW r \in Request, DavStep(r)
    PROVE  (at'[r] = "again" => SetAside(r)) /\ (at'[r] = "restore" => RenameAgain(r))
  <1>0. WriteTyped
    BY Parts
  <1>1. ASSUME NEW phase, NEW call, NEW good, NEW bad, Attempt(r, phase, call, good, bad)
        PROVE  at'[r] \in {good, bad}
    BY <1>0, <1>1 DEF Attempt, Goto, WriteTyped
  <1>2. ASSUME NEW phase, NEW c, Reply(r, phase, c) PROVE at'[r] = "done"
    BY <1>0, <1>2 DEF Reply, Answer, Goto, WriteTyped
  <1>3. CASE Delete(r) \/ Mkdir(r) \/ Undo(r) \/ Store(r) \/ Unmake(r)
    BY <1>1, <1>3 DEF Delete, Mkdir, Undo, Store, Unmake
  <1>4. CASE AfterCopy(r) \/ Rename(r) \/ Clear(r)
    BY <1>1, <1>2, <1>4 DEF AfterCopy, Rename, Clear
  <1>5. CASE Replace(r) \/ DropOld(r) \/ Restore(r)
    BY <1>1, <1>5 DEF Replace, DropOld, Restore
  <1>6. CASE GiveUp(r) \/ Respond(r)
    BY <1>1, <1>2, <1>6 DEF GiveUp, Respond
  <1>7. CASE SetAside(r)
    <2>1. at'[r] \in {"again", "giveUp"}
      BY <1>1, <1>7 DEF SetAside
    <2> QED
      BY <1>7, <2>1
  <1>8. CASE RenameAgain(r)
    <2>1. at'[r] \in {"dropOld", "restore"}
      BY <1>1, <1>8 DEF RenameAgain
    <2> QED
      BY <1>8, <2>1
  <1>9. CASE Arrive(r) \/ Dropped(r) \/ CopySourceGone(r)
    BY <1>0, <1>9 DEF Arrive, Dropped, CopySourceGone, Goto, WriteTyped
  <1>10. CASE LookPut(r) \/ LookMoveCopy(r) \/ LookDelete(r) \/ LookMkcol(r)
    <2>1. at'[r] \in {"done", "body", "transfer", "replace", "clear", "delete", "mkdir"}
      <3>1. CASE LookPut(r)
        BY <1>0, <3>1 DEF LookPut, Goto, Answer, WriteTyped
      <3>2. CASE LookMoveCopy(r)
        BY <1>0, <3>2 DEF LookMoveCopy, Goto, Answer, WriteTyped
      <3>3. CASE LookDelete(r) \/ LookMkcol(r)
        BY <1>0, <3>3 DEF LookDelete, LookMkcol, Goto, Answer, WriteTyped
      <3> QED
        BY <1>10, <3>1, <3>2, <3>3
    <2> QED
      BY <2>1
  <1>11. CASE PutPiece(r) \/ KeepInMemory(r) \/ BodyFails(r) \/ BodyArrives(r)
    <2>1. at'[r] \in {"body", "undo", "memory", "undoBody", "done", "store", "how"}
      BY <1>0, <1>11 DEF PutPiece, KeepInMemory, BodyFails, BodyArrives, Reply, Answer, Goto, WriteTyped
    <2> QED
      BY <2>1
  <1>12. CASE ChooseHow(r) \/ CheckExists(r)
    <2>1. CASE ChooseHow(r)
      BY <1>0, <2>1 DEF ChooseHow, Goto, WriteTyped
    <2>2. CASE CheckExists(r)
      BY <1>0, <2>2 DEF CheckExists, Goto, WriteTyped
    <2> QED
      BY <1>12, <2>1, <2>2
  <1>13. CASE CopyFolder(r)
    <2>1. at'[r] \in {"copied", "notCopied"}
      BY <1>0, <1>13 DEF CopyFolder, Attempt, Goto, WriteTyped
    <2> QED
      BY <2>1
  <1>14. CASE CopyPiece(r)
    <2>1. at'[r] \in {"transfer", "copied", "notCopied", "unmake"}
      BY <1>14, CopyPieceMoves
    <2> QED
      BY <2>1
  <1> QED
    BY <1>3, <1>4, <1>5, <1>6, <1>7, <1>8, <1>9, <1>10, <1>11, <1>12, <1>13, <1>14 DEF DavStep

LEMMA OwnGoalStaysEmpty == ASSUME WriteInv, NEW r \in Request, DavStep(r) PROVE Emptied(r)'
  <1> SUFFICES ASSUME at'[r] \in {"again", "restore"}, at'[r] = "restore" => ~ May("lostReply")',
                      \A s \in Request : ~ Conflict(r, s)'
               PROVE  files'[Goal(r)'] = Absent
    BY DEF Emptied
  <1>1. /\ OwnStep(r) /\ WriteTyped /\ Goal(r) \in Path /\ Goal(r) \in Name /\ Backup(r) \in Name \ Path
        /\ files \in [Name -> Content]
    BY Parts, StepsSound, Places, Names DEF StepSound, WriteTyped
  <1>2. at[r] \in {"aside", "again"}
    BY SwapSteps DEF SetAside, RenameAgain, Attempt
  <1>3. /\ Goal(r)' = Goal(r) /\ (\A s \in Request : ~ Conflict(r, s)) /\ (May("lostReply")' <=> May("lostReply"))
    BY <1>1, <1>2, NamesStay, MeetingsStay DEF OwnStep, May
  <1>4. CASE at'[r] = "again"
    <2>1. PICK o \in RenameCall(Goal(r), Backup(r)) :
               files' = o.files /\ at' = [at EXCEPT ![r] = IF o.ok THEN "again" ELSE "giveUp"]
      BY <1>4, SwapSteps DEF SetAside, Attempt, Goto
    <2>2. o.ok
      BY <1>1, <1>4, <2>1 DEF WriteTyped
    <2>3. files' = MovedFiles(Goal(r), Backup(r))
      BY <1>1, <2>1, <2>2, RenameResult
    <2> QED
      BY <1>1, <1>3, <2>3 DEF MovedFiles
  <1>5. CASE at'[r] = "restore"
    <2>1. PICK o \in RenameCall(Source(r), Goal(r)) :
               files' = o.files /\ at' = [at EXCEPT ![r] = IF o.ok THEN "dropOld" ELSE "restore"]
      BY <1>5, SwapSteps DEF RenameAgain, Attempt, Goto
    <2>2. ~ o.ok /\ ~ May("lostReply")
      BY <1>1, <1>3, <1>5, <2>1 DEF WriteTyped
    <2>3. files' = files
      BY <2>1, <2>2 DEF RenameCall, Refused, Failing, Result
    <2>4. at[r] = "again"
      BY <1>5, SwapSteps DEF RenameAgain, Attempt
    <2> QED
      BY <1>3, <2>3, <2>4, Parts DEF Emptied
  <1> QED
    BY <1>4, <1>5

LEMMA OtherGoalsStayEmpty ==
    ASSUME WriteInv, NEW r \in Request, StepSound(r), NEW s \in Request \ {r}
    PROVE  Emptied(s)'
  <1> SUFFICES ASSUME at'[s] \in {"again", "restore"}, at'[s] = "restore" => ~ May("lostReply")',
                      \A u \in Request : ~ Conflict(s, u)'
               PROVE  files'[Goal(s)'] = Absent
    BY DEF Emptied
  <1>1. /\ OwnStep(r) /\ FilesChange(r) /\ WriteTyped
        /\ at'[s] = at[s] /\ at[s] # "idle" /\ (May("lostReply")' <=> May("lostReply"))
    BY Parts DEF StepSound, OwnStep, May
  <1>2. Goal(s)' = Goal(s) /\ Goal(s) \in Path /\ \A u \in Request : ~ Conflict(s, u)
    BY <1>1, NamesStay, MeetingsStay, Places
  <1>3. files'[Goal(s)] = files[Goal(s)]
    <2>1. CASE at[r] = "idle"
      BY <1>1, <2>1 DEF OwnStep
    <2>2. CASE at[r] # "idle"
      <3>1. Goal(s) \notin NamesOf(r)
        BY <1>2, <2>2 DEF Conflict
      <3> QED
        BY <1>1, <1>2, <3>1, Elsewhere, Names
    <2> QED
      BY <2>1, <2>2
  <1> QED
    BY <1>1, <1>2, <1>3, Parts DEF Emptied

(* ----------------------- the inductive invariant ------------------------ *)
LEMMA InitWrite == DavInit => WriteInv
  <1> SUFFICES ASSUME DavInit PROVE WriteInv
    OBVIOUS
  <1>1. PICK start \in Starts : files = [n \in Name |-> IF n \in Path THEN start[n] ELSE Absent]
    BY DEF DavInit
  <1>2. /\ server \in Server
        /\ at = [r \in Request |-> "idle"] /\ count = [r \in Request |-> 0] /\ code = [r \in Request |-> "none"]
        /\ seen = [r \in Request |-> [src |-> Absent, dst |-> Absent]]
    BY DavAssumption DEF DavAssumption, DavInit
  <1>3. ask \in [Request -> Ask]
    <2>1. (CHOOSE q \in Asks : TRUE) \in Ask
      BY DavAssumption DEF DavAssumption
    <2> QED
      BY <2>1 DEF DavInit
  <1>4. /\ \A n \in Name : files[n] \in {Absent, Folder} \/ (n \in Path /\ files[n] = Whole(n))
        /\ \A r \in Request : files[Temp(r)] = Absent /\ files[Backup(r)] = Absent
    BY <1>1, Names, DavAssumption DEF DavAssumption
  <1>5. WriteTyped
    <2>1. files \in [Name -> Content]
      BY <1>1, <1>4, Contents
    <2>2. at \in [Request -> Phase] /\ seen \in [Request -> [src : Content, dst : Content]]
      BY <1>2, Contents DEF Phase
    <2> QED
      BY <1>2, <1>3, <2>1, <2>2 DEF WriteTyped
  <1>6. ASSUME NEW n \in Name, NEW x
        PROVE  files[n] # Part(x) /\ (files[n] = Whole(x) => n \in Path /\ n = x)
    <2>1. CASE files[n] \in {Absent, Folder}
      BY <2>1, Contents
    <2>2. CASE n \in Path /\ files[n] = Whole(n)
      BY <2>2, Contents
    <2> QED
      BY <1>4, <2>1, <2>2
  <1>7. ASSUME NEW r \in Request PROVE RequestSound(r)
    <2>1. at[r] = "idle" /\ count[r] = 0 /\ code[r] = "none"
      BY <1>2
    <2>2. PhaseSound(r)
      BY <2>1 DEF PhaseSound, BodyPhases, CopyPhases, SwapPhases
    <2>3. HiddenSound(r)
      BY <1>4, <2>1 DEF HiddenSound, CopyPhases, SwapPhases
    <2>4. Contained(r)
      BY <1>6, DavAssumption DEF DavAssumption, Contained
    <2> QED
      BY <2>1, <2>2, <2>3, <2>4 DEF RequestSound, Copies, Emptied
  <1>8. PartsSound
    BY <1>6, Names DEF PartsSound, IsPart
  <1> QED
    BY <1>5, <1>7, <1>8 DEF WriteInv

LEMMA NextWrite == ASSUME WriteInv, NEW r \in Request, DavStep(r) PROVE WriteInv'
  <1>1. StepSound(r)
    BY StepsSound
  <1>2. ASSUME NEW s \in Request PROVE RequestSound(s)'
    <2>1. PhaseSound(s)' /\ HiddenSound(s)'
      BY <1>1, OthersHidden DEF StepSound
    <2>2. Contained(s)'
      BY <1>1, ContainedStays
    <2>3. Copies(s)'
      BY <1>1, OwnCopyStays, OtherCopiesStay
    <2>4. Emptied(s)'
      BY <1>1, OwnGoalStaysEmpty, OtherGoalsStayEmpty
    <2> QED
      BY <2>1, <2>2, <2>3, <2>4 DEF RequestSound
  <1> QED
    BY <1>1, <1>2, PartsStay DEF WriteInv, StepSound

(* WriteInv holds in every behaviour of the disk's writing requests.       *)
THEOREM WriteInductive == DavSpec => []WriteInv
  <1>1. WriteInv /\ [DavNext]_davVars => WriteInv'
    <2> SUFFICES ASSUME WriteInv, [DavNext]_davVars PROVE WriteInv'
      OBVIOUS
    <2>1. CASE DavNext
      BY <2>1, NextWrite DEF DavNext
    <2>2. CASE UNCHANGED davVars
      <3>1. ASSUME NEW r \in Request PROVE RequestSound(r)'
        <4>1. PhaseSound(r)' /\ HiddenSound(r)' /\ Contained(r)'
          BY <2>2, Parts DEF davVars, PhaseSound, HiddenSound, Contained, Arrived, InPlace, Put, Writes, SameEntry, May
        <4>2. Goal(r)' = Goal(r) /\ Source(r)' = Source(r) /\ \A s \in Request : NamesOf(s)' = NamesOf(s)
          BY <2>2 DEF davVars, NamesOf, Goal, Source, Target, Slot, Put
        <4>3. \A s \in Request : (Meet(r, s)' <=> Meet(r, s)) /\ (Conflict(r, s)' <=> Conflict(r, s))
          BY <2>2, <4>2 DEF davVars, Meet, Conflict
        <4>4. Copies(r)' /\ Emptied(r)'
          BY <2>2, <4>2, <4>3, Parts DEF davVars, Copies, Emptied, Meets, InPlace, Put, May
        <4> QED
          BY <4>1, <4>4 DEF RequestSound
      <3>2. PartsSound'
        BY <2>2 DEF davVars, WriteInv, PartsSound, Met, Meets, Meet, Dirty, InPlace, Put, Goal, Target, NamesOf, Slot
      <3>3. WriteTyped'
        BY <2>2 DEF davVars, WriteInv, WriteTyped
      <3> QED
        BY <3>1, <3>2, <3>3 DEF WriteInv
    <2> QED
      BY <2>1, <2>2
  <1> QED
    BY <1>1, InitWrite, PTL DEF DavSpec

(* UploadsAreClean: an upload that did not arrive as announced leaves      *)
(* nothing of itself, a file clients see is whole unless a request that    *)
(* writes in place met another or is not through, and a request that was   *)
(* answered leaves no hidden file the server let it remove.                *)
THEOREM UploadsStayClean == DavSpec => []UploadsAreClean
  <1>1. WriteInv => UploadsAreClean
    <2> SUFFICES ASSUME WriteInv PROVE UploadsAreClean
      OBVIOUS
    <2>1. IncompleteLeavesNothing
      <3> SUFFICES ASSUME NEW r \in Request, Put(r), at[r] # "idle",
                          ~ ask[r].asAnnounced \/ code[r] = "body" \/ at[r] \in {"body", "undoBody"},
                          NEW p \in Path
                   PROVE  files[p] \notin {Whole(r), Part(r)}
        BY DEF IncompleteLeavesNothing
      <3>1. ~ Arrived(r)
        BY DEF Arrived
      <3> QED
        BY <3>1, Parts, Names DEF Contained
    <2>2. PartialIsNotSuccess
      <3> SUFFICES ASSUME NEW p \in Path, IsPart(files[p])
                   PROVE  \E r \in Request : /\ InPlace(r) /\ at[r] # "idle"
                                             /\ \/ code[r] # "ok"
                                                \/ \E s \in Request : Meet(r, s)
        BY DEF PartialIsNotSuccess, IsPart
      <3>1. CASE Met
        BY <3>1 DEF Met, Meets
      <3>2. CASE ~ Met
        <4>1. PICK r \in Request : InPlace(r) /\ Dirty(r)
          BY <3>2 DEF WriteInv, PartsSound
        <4>2. at[r] # "idle" /\ code[r] # "ok"
          BY <4>1, Parts DEF Dirty, PhaseSound
        <4> QED
          BY <4>1, <4>2
      <3> QED
        BY <3>1, <3>2
    <2>3. NoHiddenFileLeft
      BY Parts DEF NoHiddenFileLeft, HiddenSound
    <2> QED
      BY <2>1, <2>2, <2>3 DEF UploadsAreClean, UploadIsHonest
  <1> QED
    BY <1>1, WriteInductive, PTL

(* ------------------------- what is never lost --------------------------- *)
(* A step that loses the data of a file is one that may.                   *)
LEMMA LossIsReplacement ==
    ASSUME WriteInv, NEW r \in Request, DavStep(r), NEW p \in Path,
           Somewhere(files, p), ~ Somewhere(files', p)
    PROVE  Replaces(r)
  <1>0. /\ WriteTyped /\ PhaseSound(r) /\ HiddenSound(r) /\ Copies(r) /\ Emptied(r) /\ OwnStep(r) /\ FilesChange(r)
        /\ files \in [Name -> Content]
        /\ Goal(r) \in Name /\ Source(r) \in Name /\ Temp(r) \in Name /\ Backup(r) \in Name
    BY Parts, StepsSound, Places, Names DEF StepSound, WriteTyped
  <1>1. PICK n \in Name : files[n] = Whole(p)
    BY DEF Somewhere
  <1>2. \A m \in Name : files'[m] # Whole(p)
    BY DEF Somewhere
  <1>3. /\ IsFile(Whole(p)) /\ Absent # Whole(p) /\ Folder # Whole(p) /\ (\A x : Whole(p) # Part(x)) /\ Whole(p) # Whole(r)
    <2>1. p # r
      BY DavAssumption DEF DavAssumption
    <2> QED
      BY <2>1, Contents DEF IsFile
  <1>4. ASSUME NEW a \in Name, NEW c, Set(a, c) PROVE n = a
    BY <1>0, <1>1, <1>2, <1>4 DEF Set
  <1>5. ASSUME NEW a \in Name, NEW b \in Name, Moves(a, b)
        PROVE  n = b /\ IsFile(files[a]) /\ files'[b] = files[a] /\ server.overwrites
    <2>1. n # a
      BY <1>0, <1>1, <1>2, <1>5 DEF Moves, MovedFiles
    <2>2. n = b
      BY <1>0, <1>1, <1>2, <1>5, <2>1 DEF Moves, MovedFiles
    <2> QED
      BY <1>0, <1>1, <1>3, <1>5, <2>2 DEF Moves, MovedFiles
  <1>6. files[Temp(r)] # Whole(p) /\ n # Temp(r)
    BY <1>0, <1>1, <1>3 DEF HiddenSound
  <1>7. CASE at[r] \in {"delete", "clear", "store"} \/ (at[r] = "transfer" /\ InPlace(r)) \/ at[r] = "copied"
             \/ (at[r] = "dropOld" /\ at'[r] = "ok")
    BY <1>7 DEF Replaces
  <1>8. CASE at[r] = "unmake" /\ Set(Goal(r), Absent)
    <2>1. n = Goal(r) /\ InPlace(r) /\ count[r] > 0
      BY <1>0, <1>4, <1>8 DEF PhaseSound, CopyPhases
    <2>2. \E s \in Request : Conflict(r, s)
      BY <1>0, <1>1, <1>3, <1>8, <2>1 DEF Copies
    <2> QED
      BY <1>8, <2>2 DEF Replaces
  <1>9. CASE at[r] \in {"mkdir", "transfer"} /\ ~ IsFile(files[Goal(r)]) /\ Set(Goal(r), Folder)
    BY <1>0, <1>1, <1>3, <1>4, <1>9
  <1>10. CASE Moves(Source(r), Goal(r))
    <2>1. files'[Goal(r)] = files[Source(r)] /\ IsFile(files[Source(r)])
      BY <1>0, <1>5, <1>10
    <2> QED
      BY <2>1 DEF Replaces
  <1>11. CASE at[r] = "aside" /\ Moves(Goal(r), Backup(r))
    BY <1>0, <1>1, <1>3, <1>5, <1>11 DEF HiddenSound
  <1>12. CASE at[r] = "restore" /\ Moves(Backup(r), Goal(r))
    <2>1. n = Goal(r) /\ server.overwrites
      BY <1>0, <1>5, <1>12
    <2>2. May("lostReply") \/ \E s \in Request : Conflict(r, s)
      BY <1>0, <1>1, <1>3, <1>12, <2>1 DEF Emptied
    <2> QED
      BY <1>12, <2>1, <2>2 DEF Replaces
  <1>13. CASE \E c : Set(Temp(r), c)
    BY <1>0, <1>4, <1>6, <1>13
  <1>14. files' # files
    BY <1>1, <1>2
  <1> QED
    BY <1>0, <1>7, <1>8, <1>9, <1>10, <1>11, <1>12, <1>13, <1>14 DEF FilesChange

(* LostOnlyToReplacement: the data of a file leave the server only with a  *)
(* deletion, a write in place, or the new file whole in its place; a dance *)
(* of replace_file loses data only where another request uses its name, or *)
(* where the server did a rename it reported as failed.                    *)
THEOREM OldDataSurvive == DavSpec => LostOnlyToReplacement
  <1>1. WriteInv /\ [DavNext]_davVars =>
            [\A p \in Path : Somewhere(files, p) /\ ~ Somewhere(files', p)
                => \E r \in Request : <<at[r], count[r]>>' # <<at[r], count[r]>> /\ Replaces(r)]_davVars
    <2> SUFFICES ASSUME WriteInv, DavNext, NEW p \in Path, Somewhere(files, p), ~ Somewhere(files', p)
                 PROVE  \E r \in Request : <<at[r], count[r]>>' # <<at[r], count[r]>> /\ Replaces(r)
      OBVIOUS
    <2>1. PICK r \in Request : DavStep(r)
      BY DEF DavNext
    <2>2. Replaces(r)
      BY <2>1, LossIsReplacement
    <2>3. at'[r] # at[r] \/ count'[r] # count[r]
      BY <2>1, StepsSound DEF StepSound, OwnStep
    <2> QED
      BY <2>2, <2>3
  <1> QED
    BY <1>1, WriteInductive, PTL DEF DavSpec, LostOnlyToReplacement
=============================================================================
