------------------------------ MODULE DavRead -------------------------------
(***************************************************************************)
(* What a virtual disk serves of one remote file: GET, HEAD and PROPFIND   *)
(* of crates/rustscp-core/src/webdav_server.rs, with the listings, the     *)
(* content and the stamps they cache.  The file changes under the server,  *)
(* by a PUT of a client of the disk or behind its back; version v has      *)
(* Size[v] pieces of STREAM_CHUNK.  Every version has its own modification *)
(* time, so a stamp (size and time) is a version.                          *)
(***************************************************************************)
EXTENDS Naturals, FiniteSets

CONSTANTS
    Reader,     \* requests
    LastVersion, \* the versions are 1..LastVersion
    Size,       \* pieces of each version
    Small       \* CACHE_MAX_FILE, in pieces

Version == 1..LastVersion
ASSUME ReadAssumption == LastVersion \in Nat \ {0} /\ Size \in [Version -> Nat] /\ Small \in Nat

NoVersion == 0
Kinds == {"full", "range", "head", "put"}

VARIABLES
    live,       \* the version on the remote server
    content,    \* the version whose data the disk cache holds
    stamp,      \* the version Shared::stamps says that is
    entry,      \* the version of the cached listing entry
    kind,       \* what each request asks
    step,       \* the call it makes next
    meta,       \* the version its metadata is of
    data,       \* the version of the data it holds
    sent,       \* pieces streamed to the client
    outcome,    \* how the answer ended: "none", "whole", "cut", "error"
    since,      \* history: the versions live since the request came
    late,       \* history: outdated content was cached
    crossed     \* history: a change passed a listing read before it

readVars == <<live, content, stamp, entry, kind, step, meta, data, sent, outcome,
              since, late, crossed>>

Is(r, s)   == step[r] = s
GoOn(r, s) == step' = [step EXCEPT ![r] = s]
Keep(r, m) == meta' = [meta EXCEPT ![r] = m]
Ends(r, o) == GoOn(r, "end") /\ outcome' = [outcome EXCEPT ![r] = o]
Caches     == <<content, stamp, entry>>
Past       == <<since, late, crossed>>

(* Who holds a version of the file it has not yet put where it caches it.  *)
Between == {r \in Reader : step[r] \in {"listed", "listedAgain"}}

Change(v) ==
    /\ live' = v
    /\ since' = [r \in Reader |-> IF Is(r, "end") THEN since[r] ELSE since[r] \cup {v}]
    /\ crossed' = (crossed \/ Between # {})

ChangedOutside ==
    /\ live < LastVersion
    /\ Change(live + 1)
    /\ UNCHANGED <<Caches, kind, step, meta, data, sent, outcome, late>>

(* The catalog's time to live passes, or its cap drops the entry.          *)
EntryExpires ==
    /\ entry # NoVersion /\ entry' = NoVersion
    /\ UNCHANGED <<live, content, stamp, kind, step, meta, data, sent, outcome, Past>>

(* The disk cache evicts the file.                                         *)
ContentEvicted ==
    /\ content # NoVersion /\ content' = NoVersion
    /\ UNCHANGED <<live, stamp, entry, kind, step, meta, data, sent, outcome, Past>>

Come(r) ==
    /\ Is(r, "idle") \/ Is(r, "end")
    /\ \E k \in Kinds : /\ kind' = [kind EXCEPT ![r] = k]
                        /\ GoOn(r, IF k = "put" THEN "put" ELSE "stat")
    /\ since' = [since EXCEPT ![r] = {live}]
    /\ meta' = [meta EXCEPT ![r] = NoVersion]
    /\ data' = [data EXCEPT ![r] = NoVersion]
    /\ sent' = [sent EXCEPT ![r] = 0]
    /\ outcome' = [outcome EXCEPT ![r] = "none"]
    /\ UNCHANGED <<live, Caches, late, crossed>>

(* A range read that found no fresh copy asks the server again.            *)
Missed(r) == IF kind[r] = "range" THEN "restat" ELSE "read"

(* ---------------- PUT: the change, then Shared::invalidate --------------- *)
Write(r) ==
    /\ Is(r, "put") /\ live < LastVersion
    /\ Change(live + 1) /\ data' = [data EXCEPT ![r] = live + 1]
    /\ GoOn(r, "dropEntry")
    /\ UNCHANGED <<Caches, kind, meta, sent, outcome, late>>

WriteFails(r) ==
    /\ Is(r, "put") /\ GoOn(r, "dropEntry")
    /\ UNCHANGED <<live, Caches, kind, meta, data, sent, outcome, Past>>

(* Mutant: a PUT leaves the listing of the file.                           *)
DropEntryNot(r) ==
    /\ Is(r, "dropEntry") /\ GoOn(r, "dropContent")
    /\ UNCHANGED <<live, Caches, kind, meta, data, sent, outcome, Past>>
DropEntry(r) ==
    /\ Is(r, "dropEntry") /\ entry' = NoVersion /\ GoOn(r, "dropContent")
    /\ UNCHANGED <<live, content, stamp, kind, meta, data, sent, outcome, Past>>

DropContent(r) ==
    /\ Is(r, "dropContent") /\ content' = NoVersion /\ GoOn(r, "dropStamp")
    /\ UNCHANGED <<live, stamp, entry, kind, meta, data, sent, outcome, Past>>

DropStamp(r) ==
    /\ Is(r, "dropStamp") /\ stamp' = NoVersion
    /\ IF kind[r] = "put" THEN Ends(r, "whole") ELSE GoOn(r, Missed(r)) /\ UNCHANGED outcome
    /\ UNCHANGED <<live, content, entry, kind, meta, data, sent, Past>>

(* -------------------------- fetch_metadata ------------------------------ *)
UseEntry(r) ==
    /\ Is(r, "stat") /\ kind[r] # "full" /\ entry # NoVersion
    /\ Keep(r, entry) /\ GoOn(r, "fresh")
    /\ UNCHANGED <<live, Caches, kind, data, sent, outcome, Past>>

Stat(r) ==
    /\ \/ Is(r, "stat") /\ (kind[r] = "full" \/ entry = NoVersion)
       \/ Is(r, "restat")
    /\ Keep(r, live)
    /\ GoOn(r, IF Is(r, "stat") THEN "listed" ELSE "listedAgain")
    /\ UNCHANGED <<live, Caches, kind, data, sent, outcome, Past>>

StatFails(r) ==
    /\ Is(r, "stat") \/ Is(r, "restat")
    /\ Ends(r, "error")
    /\ UNCHANGED <<live, Caches, kind, meta, data, sent, Past>>

PutEntry(r) ==
    /\ Is(r, "listed") \/ Is(r, "listedAgain")
    /\ entry' = meta[r]
    /\ GoOn(r, IF Is(r, "listed") THEN "fresh" ELSE "read")
    /\ UNCHANGED <<live, content, stamp, kind, meta, data, sent, outcome, Past>>

(* -------------------------- cached_if_fresh ----------------------------- *)
(* The recorded stamp is read first and the content afterwards.            *)
CheckStamp(r) ==
    /\ Is(r, "fresh")
    /\ IF kind[r] = "head" THEN Ends(r, "whole")
       ELSE /\ UNCHANGED outcome
            /\ GoOn(r, IF Size[meta[r]] > Small THEN "stream"
                        ELSE IF stamp = meta[r] THEN "load"
                        ELSE IF stamp = NoVersion THEN Missed(r)
                        ELSE "dropContent")
    /\ UNCHANGED <<live, Caches, kind, meta, data, sent, Past>>

Load(r) ==
    /\ Is(r, "load")
    /\ IF content = NoVersion THEN GoOn(r, Missed(r)) /\ UNCHANGED <<data, outcome>>
       ELSE IF Size[content] # Size[meta[r]]
       THEN GoOn(r, "dropEntry") /\ UNCHANGED <<data, outcome>>
       ELSE data' = [data EXCEPT ![r] = content] /\ Ends(r, "whole")
    /\ UNCHANGED <<live, Caches, kind, meta, sent, Past>>

Read(r) ==
    /\ Is(r, "read")
    /\ IF Size[meta[r]] > Small THEN GoOn(r, "stream") /\ UNCHANGED data
       ELSE /\ data' = [data EXCEPT ![r] = live]
            /\ GoOn(r, IF Size[live] = Size[meta[r]] THEN "store" ELSE "answer")
    /\ UNCHANGED <<live, Caches, kind, meta, sent, outcome, Past>>

ReadFails(r) ==
    /\ \/ Is(r, "read")
       \/ Is(r, "stream") /\ sent[r] = 0
    /\ Ends(r, "error")
    /\ UNCHANGED <<live, Caches, kind, meta, data, sent, Past>>

(* -------------------------- remember_content ---------------------------- *)
StoreContent(r) ==      \* a write that fails leaves the stamp alone
    /\ Is(r, "store")
    /\ \/ content' = data[r] /\ late' = (late \/ data[r] # live) /\ GoOn(r, "stamp")
       \/ content' = NoVersion /\ UNCHANGED late /\ GoOn(r, "stamp")  \* above a quarter of the quota
       \/ UNCHANGED <<content, late>> /\ GoOn(r, "answer")
    /\ UNCHANGED <<live, stamp, entry, kind, meta, data, sent, outcome, since, crossed>>

(* Mutant: the stamp is that of a version seen after the data were read.   *)
StampNow(r) ==
    /\ Is(r, "stamp") /\ stamp' = live /\ GoOn(r, "answer")
    /\ UNCHANGED <<live, content, entry, kind, meta, data, sent, outcome, Past>>
Stamp(r) ==
    /\ Is(r, "stamp") /\ stamp' = meta[r] /\ GoOn(r, "answer")
    /\ UNCHANGED <<live, content, entry, kind, meta, data, sent, outcome, Past>>

AnswerData(r) ==
    /\ Is(r, "answer") /\ Ends(r, "whole")
    /\ UNCHANGED <<live, Caches, kind, meta, data, sent, Past>>

(* --------------------------- stream_remote ------------------------------ *)
(* A piece is read while the one before it is written to the client; the   *)
(* file is whatever it is by then.                                         *)
Length(r) == Size[meta[r]]
Piece(r) ==
    /\ Is(r, "stream") /\ sent[r] < Length(r) /\ Size[live] > sent[r]
    /\ sent' = [sent EXCEPT ![r] = @ + 1]
    /\ UNCHANGED <<live, Caches, kind, step, meta, data, outcome, Past>>

(* Mutant: a file that shrank ends the body as if it were complete.        *)
StreamEndsShort(r) ==
    /\ Is(r, "stream")
    /\ sent[r] = Length(r) \/ Size[live] <= sent[r]
    /\ Ends(r, "whole")
    /\ UNCHANGED <<live, Caches, kind, meta, data, sent, Past>>
StreamEnds(r) ==
    /\ Is(r, "stream")
    /\ \/ sent[r] = Length(r) /\ Ends(r, "whole")
       \/ sent[r] < Length(r) /\ Size[live] <= sent[r] /\ Ends(r, "cut")
       \/ sent[r] > 0 /\ sent[r] < Length(r) /\ Ends(r, "cut")   \* a read failed
    /\ UNCHANGED <<live, Caches, kind, meta, data, sent, Past>>

ReadInit ==
    /\ live = 1 /\ content = NoVersion /\ stamp = NoVersion /\ entry = NoVersion
    /\ kind = [r \in Reader |-> "head"] /\ step = [r \in Reader |-> "idle"]
    /\ meta = [r \in Reader |-> NoVersion] /\ data = [r \in Reader |-> NoVersion]
    /\ sent = [r \in Reader |-> 0] /\ outcome = [r \in Reader |-> "none"]
    /\ since = [r \in Reader |-> {}] /\ late = FALSE /\ crossed = FALSE

ReadStep(r) ==
    \/ Come(r) \/ Write(r) \/ WriteFails(r) \/ DropEntry(r) \/ DropContent(r) \/ DropStamp(r)
    \/ UseEntry(r) \/ Stat(r) \/ StatFails(r) \/ PutEntry(r) \/ CheckStamp(r) \/ Load(r)
    \/ Read(r) \/ ReadFails(r) \/ StoreContent(r) \/ Stamp(r) \/ AnswerData(r)
    \/ Piece(r) \/ StreamEnds(r)

ReadNext == ChangedOutside \/ EntryExpires \/ ContentEvicted \/ \E r \in Reader : ReadStep(r)
ReadSpec == ReadInit /\ [][ReadNext]_readVars

(* ------------------------------ Properties ------------------------------ *)
(* A full download of a small file serves a version the file had while the *)
(* request was under way, cached or not, unless a request that had read an *)
(* older version cached it after the change.                               *)
FullGetIsCurrent ==
    \A r \in Reader : kind[r] = "full" /\ outcome[r] = "whole" /\ data[r] # NoVersion
        => data[r] \in since[r] \/ late

(* Once a PUT has been answered and nobody changed the file since, the     *)
(* cached listing shows what it wrote, unless a request read the listing   *)
(* before a change and cached it afterwards.                               *)
OwnWriteIsListed ==
    \A r \in Reader : kind[r] = "put" /\ outcome[r] = "whole" /\ data[r] = live
        => entry \in {NoVersion, live} \/ crossed

(* A streamed answer that did not cut the connection has as many pieces as *)
(* its head announced.                                                     *)
WholeStreamIsWhole ==
    \A r \in Reader : outcome[r] = "whole" /\ sent[r] > 0 => sent[r] = Length(r)

(* What a client reads through the caches is the file: a version it had    *)
(* meanwhile, to its announced end, and its own writes (handle_get,        *)
(* stream_remote, cached_if_fresh, Shared::invalidate).                    *)
ReadsAreCurrent == FullGetIsCurrent /\ WholeStreamIsWhole /\ OwnWriteIsListed
=============================================================================
