----------------------------- MODULE DiskCache ------------------------------
(***************************************************************************)
(* The content files of crates/rustscp-core/src/disk_cache.rs: files on    *)
(* disk, the least-recently-used index of them, and the quota.  The index  *)
(* has a lock; the files are written and removed outside it.  Paths of the *)
(* server are files here, those below a folder in Below.                   *)
(***************************************************************************)
EXTENDS Naturals, Sequences, FiniteSets, SequencesExt, Functions

CONSTANTS
    CacheTask,  \* tasks that use the cache
    File,       \* local paths of remote files
    Below,      \* the files each has below it, were it a folder
    SiteOf,     \* the session each belongs to
    FileSize,   \* the sizes data may have
    Quotas,     \* what the user may set as the quota
    DefaultQuota, \* the quota after a start of the program
    Calls,      \* the calls that are made
    Open        \* files that cannot be removed now (open on Windows)

ASSUME DiskCacheAssumption ==
    /\ Below \in [File -> SUBSET File] /\ \A f \in File : f \notin Below[f]
    /\ FileSize \subseteq Nat \ {0} /\ Quotas \subseteq Nat \ {0} /\ Open \subseteq File
    /\ DefaultQuota \in Quotas /\ Calls # {}
    /\ \A c \in Calls : c.op \in {"put", "drop"} /\ c.file \in File /\ c.size \in FileSize

LargeFileDivisor == 4       \* LARGE_FILE_DIVISOR
NotHere == 0

VARIABLES
    disk,       \* the size of each file on disk, or NotHere
    index,      \* ContentIndex::files and order: <<file, size>>, oldest first
    loaded,     \* ContentIndex::loaded
    quota,      \* max_bytes
    job,        \* the call each task is in
    doing,      \* how far it is
    limit,      \* the quota its put read
    slipped,    \* history: files whose calls overlapped, or would not go
    outgrown    \* history: a put used a quota that has shrunk since

cacheVars == <<disk, index, loaded, quota, job, doing, limit, slipped, outgrown>>

NoJob == CHOOSE j \in Calls : TRUE
SiteNames == {SiteOf[f] : f \in File}

WithBelow(f) == {f} \cup Below[f]
Indexed(ix)  == {ix[i][1] : i \in DOMAIN ix}
Total(ix)    == FoldSeq(LAMBDA e, sum : e[2] + sum, 0, ix)
Removed(ix, S)      == SelectSeq(ix, LAMBDA e : e[1] \notin S)      \* remove, remove_prefix
Inserted(ix, f, n)  == Append(Removed(ix, {f}), <<f, n>>)
SizeOnDisk(d) == FoldFunction(LAMBDA n, sum : n + sum, 0, d)

(* remove_path and remove_dir_all leave what is open.                      *)
Without(d, S) == [f \in File |-> IF f \in S \ Open THEN NotHere ELSE d[f]]

(* ensure_index_loaded: a scan in the order of access times.               *)
Scanned(q) == [i \in DOMAIN q |-> <<q[i], disk[q[i]]>>]
Loaded == IF loaded THEN {index}
          ELSE {Scanned(q) : q \in SetToSeqs({f \in File : disk[f] # NotHere})}

(* evict_locked: the oldest files go until the rest fits; what could not   *)
(* be removed is accounted for as the youngest.                            *)
TooMany(ix, max) ==
    CHOOSE k \in 0..Len(ix) :
        /\ k = Len(ix) \/ Total(SubSeq(ix, k + 1, Len(ix))) <= max
        /\ \A j \in 0..(k - 1) : Total(SubSeq(ix, j + 1, Len(ix))) > max
(* Mutant: files that could not be removed are forgotten.                  *)
EvictedForgotten(ix, max) ==
    LET k == TooMany(ix, max)
    IN  [index |-> SubSeq(ix, k + 1, Len(ix)), victims |-> Indexed(SubSeq(ix, 1, k))]
Evicted(ix, max) ==
    LET k == TooMany(ix, max)
        kept == SelectSeq(SubSeq(ix, 1, k), LAMBDA e : e[1] \in Open)
    IN  [index |-> SubSeq(ix, k + 1, Len(ix)) \o kept, victims |-> Indexed(SubSeq(ix, 1, k))]

EvictNow(ix, d, max) ==
    /\ index' = Evicted(ix, max).index
    /\ disk' = Without(d, Evicted(ix, max).victims)

(* ------------------------------ Calls ----------------------------------- *)
Busy(t) == doing[t] # "idle"
Touching(f) == {t \in CacheTask : Busy(t) /\ job[t].file \in WithBelow(f) \cup {g \in File : f \in Below[g]}}
On(t, s)  == doing[t] = s
To(t, s)  == doing' = [doing EXCEPT ![t] = s] /\ UNCHANGED job
Ends(t)   == doing' = [doing EXCEPT ![t] = "idle"] /\ job' = [job EXCEPT ![t] = NoJob]
             /\ limit' = [limit EXCEPT ![t] = 0]
Over(t, failed, s) ==
    IF failed THEN Ends(t) ELSE To(t, s) /\ UNCHANGED limit
Clash(S)  == slipped' = slipped \cup S

(* A call whose file another call is at work on.                           *)
Call(t) ==
    /\ On(t, "idle")
    /\ \E j \in Calls :
          /\ job' = [job EXCEPT ![t] = j]
          /\ doing' = [doing EXCEPT ![t] = IF j.op = "put" THEN "limit" ELSE "remove"]
          /\ Clash(IF Touching(j.file) # {} THEN WithBelow(j.file) \cup {g \in File : j.file \in Below[g]} ELSE {})
    /\ UNCHANGED <<disk, index, loaded, quota, limit, outgrown>>

(* put_file_content.  Content above a quarter of the quota drops the copy. *)
ReadLimit(t) ==
    /\ On(t, "limit")
    /\ limit' = [limit EXCEPT ![t] = quota]
    /\ To(t, IF job[t].size > quota \div LargeFileDivisor THEN "remove" ELSE "parents")
    /\ UNCHANGED <<disk, index, loaded, quota, slipped, outgrown>>

(* ensure_parent_dirs: a file where a folder is needed is removed, and     *)
(* then its entry.                                                         *)
InTheWay(f) == {g \in File : f \in Below[g] /\ disk[g] # NotHere}
MakeRoom(t) ==
    /\ On(t, "parents")
    /\ disk' = Without(disk, InTheWay(job[t].file))
    /\ index' = Removed(index, InTheWay(job[t].file) \ Open)
    /\ Over(t, InTheWay(job[t].file) \cap Open # {}, "folder")
    /\ UNCHANGED <<loaded, quota, slipped, outgrown>>

(* A folder where the file goes is removed, and its entries.               *)
DropFolder(t) ==
    LET f == job[t].file
        there == {g \in Below[f] : disk[g] # NotHere}
    IN  /\ On(t, "folder")
        /\ disk' = Without(disk, Below[f])
        /\ index' = IF there # {} THEN Removed(index, WithBelow(f)) ELSE index
        /\ Clash(there \cap Open)
        /\ To(t, "write")
        /\ UNCHANGED <<loaded, quota, limit, outgrown>>

(* write_private_atomic: a rename onto a folder, or in one that has gone,  *)
(* fails.                                                                  *)
WriteFile(t) ==
    LET f == job[t].file
    IN  /\ On(t, "write")
        /\ \A g \in Below[f] : disk[g] = NotHere
        /\ InTheWay(f) = {}
        /\ disk' = [disk EXCEPT ![f] = job[t].size]
        /\ To(t, "insert")
        /\ UNCHANGED <<index, loaded, quota, limit, slipped, outgrown>>

WriteError(t) ==
    /\ On(t, "write") /\ Ends(t)
    /\ UNCHANGED <<disk, index, loaded, quota, slipped, outgrown>>

(* Mutant: nothing is evicted when a file comes in.                        *)
InsertOnly(t) ==
    /\ On(t, "insert")
    /\ \E ix \in Loaded : index' = Inserted(ix, job[t].file, job[t].size)
    /\ loaded' = TRUE /\ Ends(t) /\ outgrown' = (outgrown \/ limit[t] > quota)
    /\ UNCHANGED <<disk, quota, slipped>>
Insert(t) ==
    /\ On(t, "insert")
    /\ \E ix \in Loaded : EvictNow(Inserted(ix, job[t].file, job[t].size), disk, limit[t])
    /\ loaded' = TRUE /\ Ends(t)
    /\ outgrown' = (outgrown \/ limit[t] > quota)
    /\ UNCHANGED <<quota, slipped>>

(* invalidate_content, and the end of a put too large to keep.             *)
RemoveFiles(t) ==
    /\ On(t, "remove")
    /\ disk' = Without(disk, WithBelow(job[t].file))
    /\ Clash({g \in WithBelow(job[t].file) \cap Open : disk[g] # NotHere})
    /\ To(t, "forget")
    /\ UNCHANGED <<index, loaded, quota, limit, outgrown>>

Forget(t) ==
    /\ On(t, "forget")
    /\ index' = Removed(index, WithBelow(job[t].file))
    /\ Ends(t)
    /\ UNCHANGED <<disk, loaded, quota, slipped, outgrown>>

GetContent(f) ==            \* the entry of a file that was read is the youngest
    /\ disk[f] # NotHere
    /\ \E i \in DOMAIN index : index[i][1] = f /\ index' = Inserted(index, f, index[i][2])
    /\ UNCHANGED <<disk, loaded, quota, job, doing, limit, slipped, outgrown>>

(* set_max_size, and enforce_lru.                                          *)
SetMaxSize ==
    /\ \E q \in Quotas \ {quota} : quota' = q
    /\ \E ix \in Loaded : EvictNow(ix, disk, quota')
    /\ loaded' = TRUE
    /\ outgrown' = (outgrown /\ quota' < quota)
    /\ UNCHANGED <<job, doing, limit, slipped>>

(* clear_session and prune_stale hold the lock over both.                  *)
ClearSession(s) ==
    LET mine == {f \in File : SiteOf[f] = s}
    IN  /\ disk' = Without(disk, mine) /\ index' = Removed(index, mine)
        /\ Clash({f \in mine : disk[f] # NotHere /\ (f \in Open \/ Touching(f) # {})})
        /\ UNCHANGED <<loaded, quota, job, doing, limit, outgrown>>

ClearAll ==                 \* the next put scans again
    /\ disk' = Without(disk, File) /\ index' = <<>> /\ loaded' = FALSE
    /\ UNCHANGED <<quota, job, doing, limit, slipped, outgrown>>

Restart ==                  \* what was under way is gone with the program
    /\ index' = <<>> /\ loaded' = FALSE
    /\ doing' = [t \in CacheTask |-> "idle"] /\ job' = [t \in CacheTask |-> NoJob]
    /\ limit' = [t \in CacheTask |-> 0]
    /\ slipped' = {} /\ outgrown' = FALSE
    /\ quota' = DefaultQuota /\ UNCHANGED disk

CacheInit ==
    /\ disk = [f \in File |-> NotHere] /\ index = <<>> /\ loaded = FALSE
    /\ quota = DefaultQuota
    /\ job = [t \in CacheTask |-> NoJob]
    /\ doing = [t \in CacheTask |-> "idle"]
    /\ limit = [t \in CacheTask |-> 0]
    /\ slipped = {} /\ outgrown = FALSE

CacheStep(t) ==
    Call(t) \/ ReadLimit(t) \/ MakeRoom(t) \/ DropFolder(t) \/ WriteFile(t) \/ WriteError(t)
    \/ Insert(t) \/ RemoveFiles(t) \/ Forget(t)
CacheNext ==
    \/ \E t \in CacheTask : CacheStep(t)
    \/ \E f \in File : GetContent(f)
    \/ \E s \in SiteNames : ClearSession(s)
    \/ SetMaxSize \/ ClearAll \/ Restart

CacheSpec == CacheInit /\ [][CacheNext]_cacheVars

(* ------------------------------ Properties ------------------------------ *)
(* "built once by scanning the cache directory, then kept up to date on    *)
(* every put/get/remove": once the index is loaded, a file on disk that no *)
(* call is at work on has its entry with its size - unless two calls for   *)
(* it overlapped, or it could not be removed: such a file no eviction ever *)
(* finds.                                                                  *)
IndexCoversDisk ==
    loaded => \A f \in File :
        disk[f] # NotHere /\ Touching(f) = {} /\ f \notin slipped
            => \E i \in DOMAIN index : index[i] = <<f, disk[f]>>

(* Between calls the cache is within its quota, but for files that could   *)
(* not be removed or escaped the index, and a put that began under a       *)
(* larger quota.                                                           *)
QuotaIsKept ==
    loaded /\ (\A t \in CacheTask : ~Busy(t)) /\ ~outgrown
        => SizeOnDisk([f \in File |-> IF f \in slipped \cup Open THEN 0 ELSE disk[f]]) <= quota

(* The index knows the files, and with it the quota is kept: put, evict    *)
(* and scan between them (disk_cache.rs).                                  *)
CacheIsAccounted == IndexCoversDisk /\ QuotaIsKept
=============================================================================
